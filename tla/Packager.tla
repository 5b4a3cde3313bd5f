-------------------------------- MODULE Packager --------------------------------
(***************************************************************************)
(* The packager uc-aop (internal/aop/cmd, internal/aop/packager) and the   *)
(* registry it publishes add-ons to.  A push builds the package in memory  *)
(* and copies it to the repository, what a blob refers to before the blob, *)
(* the root with its tag last.  An export reads a tag and writes a file    *)
(* per platform, which a device installs as a drop-in.                     *)
(***************************************************************************)
EXTENDS OciPackage, VersionOrder, TLC

CONSTANTS
    TagOrder,       \* the tags that may come up, in the order the registry lists them
    Legacy,         \* Legacy[s]: tag and root of a package that is there from the start
    Submissions,    \* Submissions[s]: what a publisher gives to push
    Malformed,      \* the packages whose manifest does not conform to the schema
    None,
    MaxJobs,        \* bound: pushes and exports
    MaxOutages      \* bound: how often the registry becomes unreachable

Tags == {TagOrder[i] : i \in DOMAIN TagOrder}
Packages == DOMAIN Legacy \cup DOMAIN Submissions

VARIABLES
    tag,        \* tag[t]: the package whose root has the tag, or None
    online,     \* whether the registry can be reached
    outages,    \* counts outages
    job,        \* the package that a push is copying, or None
    export,     \* the export that is running, which may be on another machine
    jobs        \* counts commands

registryVars == <<tag, online, outages>>
packagerVars == <<registryVars, job, export, jobs>>

NoExport == [package |-> None, left |-> {}, exported |-> {}, skipped |-> FALSE]

\* What push builds, from a manifest that it has migrated.
ArtifactOf == [s \in DOMAIN Legacy |-> Legacy[s].root] @@ [s \in DOMAIN Submissions |->
    LET m == MigrateUcManifest(Submissions[s].manifest)
    IN  IF m = NoManifest THEN Error ELSE CreateOciArtifact(m)]

TagOf(s) == IF s \in DOMAIN Legacy THEN Legacy[s].tag ELSE Submissions[s].manifest.version

\* ManifestValidator.Validate, of the manifest as it was migrated.
Validate(s) == s \notin Malformed

PackagerInit ==
    /\ tag \in [Tags -> DOMAIN Legacy \cup {None}]
    /\ \A t \in Tags : LET published == {s \in DOMAIN Legacy : TagOf(s) = t}
                      IN  tag[t] \in IF published = {} THEN {None} ELSE published
    /\ online = TRUE /\ outages = 0
    /\ job = None /\ export = NoExport /\ jobs = 0

--------------------------------------------------------------------------------
\* push

\* credentials.validate: user name and password both or neither.
validate(c) == c.repository /\ (c.username <=> c.password)

\* executePushCommand reaches the copy: the other checks end it with an error, and a
\* package that is nil without an error makes it panic.
ReachesCopy(s) ==
    /\ validate(Submissions[s].credentials)
    /\ ArtifactOf[s] # Error
    /\ Validate(s) /\ Submissions[s].logo
    /\ ArtifactOf[s] # Nil

Push(s) ==
    /\ job = None /\ jobs < MaxJobs
    /\ jobs' = jobs + 1
    /\ job' = IF online /\ ReachesCopy(s) THEN s ELSE None
    /\ UNCHANGED <<registryVars, export>>

\* oras.Copy ends: the root is put last, with its tag.
Copy ==
    /\ job # None /\ online
    /\ tag' = [tag EXCEPT ![TagOf(job)] = job]
    /\ job' = None
    /\ UNCHANGED <<online, outages, jobs, export>>

CopyFails ==
    /\ job # None /\ ~ online
    /\ job' = None
    /\ UNCHANGED <<registryVars, jobs, export>>

--------------------------------------------------------------------------------
\* export, and pull, which does the same without the archive

\* The platforms in the index; a root that is not an index has none.
PlatformsOf(s) == IF ArtifactOf[s].media = "index" THEN DOMAIN ArtifactOf[s].manifests ELSE {}

\* packageResolver.resolve: an image manifest that cannot be fetched is skipped
\* without an error.
Export(t) ==
    /\ export = NoExport /\ jobs < MaxJobs
    /\ online /\ tag[t] # None
    /\ jobs' = jobs + 1
    /\ \E left \in SUBSET PlatformsOf(tag[t]) :
          LET skipped == left # PlatformsOf(tag[t])
          IN  /\ skipped => outages < MaxOutages
              /\ outages' = IF skipped THEN outages + 1 ELSE outages
              /\ export' = [package |-> tag[t], left |-> left, exported |-> {}, skipped |-> skipped]
    /\ UNCHANGED <<tag, online, job>>

\* Faulty variant: without MapRoot the package that has the tag now is copied.
CopyTagged ==
    /\ online
    /\ \E p \in export.left :
          export' = [export EXCEPT !.left = @ \ {p},
                                   !.exported = @ \cup {<<p, tag[TagOf(export.package)]>>}]
    /\ UNCHANGED <<registryVars, jobs, job>>

\* MapRoot of the copy: whatever root it finds behind the tag, it goes on with the
\* image manifest that was resolved.
capturedImageManifest(p) == <<p, export.package>>

\* PackageReader.Pull for a platform: Copy resolves the tag again.
ExportPlatform ==
    /\ online
    /\ \E p \in export.left :
          export' = [export EXCEPT !.left = @ \ {p}, !.exported = @ \cup {capturedImageManifest(p)}]
    /\ UNCHANGED <<registryVars, jobs, job>>

\* It is complete, or a copy fails.
ExportReturns ==
    /\ export # NoExport /\ (export.left = {} \/ ~ online)
    /\ export' = NoExport
    /\ UNCHANGED <<registryVars, jobs, job>>

--------------------------------------------------------------------------------
\* The registry, or the way to it.
GoOffline ==
    /\ online /\ outages < MaxOutages
    /\ online' = FALSE /\ outages' = outages + 1
    /\ UNCHANGED <<tag, job, export, jobs>>

GoOnline ==
    /\ ~ online
    /\ online' = TRUE
    /\ UNCHANGED <<tag, outages, job, export, jobs>>

PackagerNext ==
    \/ \E s \in DOMAIN Submissions : Push(s)
    \/ \E t \in Tags : Export(t)
    \/ Copy \/ CopyFails \/ ExportPlatform \/ ExportReturns
    \/ GoOffline \/ GoOnline

--------------------------------------------------------------------------------
\* The files of one export come from one package, although its tag may move in
\* between, and are all there when no image manifest was skipped.
ExportIsOnePackage ==
    /\ \A e \in export.exported : e[2] = export.package
    /\ export # NoExport /\ export.left = {} /\ ~ export.skipped =>
           export.exported = PlatformsOf(export.package) \X {export.package}
================================================================================
