------------------------------ MODULE VersionOrder ------------------------------
(***************************************************************************)
(* The order of add-on versions (internal/pkg/manifest/version.go).        *)
(*                                                                         *)
(* A version is "<partner version>-<package version>".  Both parts are     *)
(* given by their rank; package is 0 for a string that has no suffix, and  *)
(* partner is 0 where the first part is not a version.                     *)
(***************************************************************************)
LOCAL INSTANCE Naturals
LOCAL INSTANCE Sequences
LOCAL INSTANCE SequencesExt
LOCAL INSTANCE FiniteSetsExt

Version(partner, package) == [partner |-> partner, package |-> package]

\* createAddOnPartnerVersion returns no error.
HasPartnerVersion(v) == v.package # 0 /\ v.partner # 0

\* ByAddOnVersion.Less: FALSE also where one of the two cannot be interpreted.
Less(v, w) ==
    /\ HasPartnerVersion(v) /\ HasPartnerVersion(w)
    /\ IF v.partner = w.partner THEN v.package < w.package ELSE v.partner < w.partner

\* One step of the insertion sort that sort.Sort does on a short slice: v moves
\* left as long as it is Less than its neighbour.
Insert(sorted, v) ==
    LET stays == {j \in DOMAIN sorted : ~ Less(v, sorted[j])}
        p == IF stays = {} THEN 0 ELSE Max(stays)
    IN  SubSeq(sorted, 1, p) \o <<v>> \o SubSeq(sorted, p + 1, Len(sorted))

SortVersions(versions) == FoldLeft(Insert, <<>>, versions)

GreaterThan(first, second) == SortVersions(<<first, second>>)[1] # first
GreaterThanOrEqual(first, second) == first = second \/ GreaterThan(first, second)
================================================================================
