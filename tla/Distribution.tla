------------------------------ MODULE Distribution ------------------------------
(***************************************************************************)
(* The way of an add-on from its publisher to the device: the packager and *)
(* the registry (Packager) composed with the requests of the device        *)
(* (RemoteCatalogue).  Tags move while requests are under way, and the     *)
(* registry may become unreachable at any time.                            *)
(***************************************************************************)
EXTENDS RemoteCatalogue

CONSTANTS
    MaxEvents,  \* bound: requests, commands and outages in all
    MaxAtOnce   \* bound: requests and commands under way at a time

ASSUME DistributionAssumption ==
    /\ Attempts \in Nat \ {0}
    /\ {MaxJobs, MaxOutages, MaxRequests, MaxEvents, MaxAtOnce, Space} \subseteq Nat
    /\ RootAccess \in BOOLEAN
    /\ Malformed \subseteq Packages
    /\ \A t \in Tags : HasPartnerVersion(t)
    /\ \A s \in Packages : TagOf(s) \in Tags
    /\ Wanted \subseteq Tags \cup {NoVersion}
    /\ Preinstalled \subseteq DOMAIN Legacy \cup {None}
    /\ \A s \in DOMAIN Legacy : findSupportedManifest(migrate(Legacy[s].root)) # Error
    /\ None \notin Packages /\ None \notin Requests
    /\ {"absent", "empty", "mixed"} \cap Packages = {}

vars == <<packagerVars, deviceVars>>

Init == PackagerInit /\ DeviceInit

AtOnce ==
    Cardinality({r \in Requests : Active(r)})
      + (IF job = None THEN 0 ELSE 1) + (IF export = NoExport THEN 0 ELSE 1)

\* History: the packages that had a tag while the request was under way.
Witness ==
    req' = [r \in Requests |->
        IF Active(r) THEN [req[r] EXCEPT !.seen = @ \cup {tag'[t] : t \in Tags}] ELSE req[r]]

Next ==
    /\ \/ PackagerNext /\ Witness /\ UNCHANGED <<facade, cache, dir, open, installed, imported, asked>>
       \/ DeviceNext /\ UNCHANGED packagerVars
    /\ asked' + jobs' + outages' <= MaxEvents
    /\ AtOnce' <= MaxAtOnce

Working == \E r \in Requests : Active(r)

\* Some request goes on as long as there is one.  Nothing is asked of the registry,
\* which may stay unreachable, or of the packager.
Spec ==
    /\ Init /\ [][Next]_vars
    /\ WF_vars((\E r \in Requests : RequestStep(r)) /\ UNCHANGED packagerVars)

--------------------------------------------------------------------------------
Labels == {"idle", "names", "lookup", "store", "tags", "validate",
           "resolve", "fetch", "write", "read", "import", "answered"}
Codes == {"", "OK", "Empty", "Configured", "FailedPrecondition", "PermissionDenied", "error",
          "Unavailable", "AlreadyExists", "Downgrade", "InvalidArgument", "ResourceExhausted",
          "RegistryConnection"}

\* Type invariant of the registry, the packager and the requests of the device.
TypeOK ==
    /\ tag \in [Tags -> Packages \cup {None}]
    /\ online \in BOOLEAN /\ outages \in 0 .. MaxOutages /\ jobs \in 0 .. MaxJobs
    /\ job \in Packages \cup {None}
    /\ export.package \in Packages \cup {None} /\ (export.left # {} => export.left \subseteq PlatformsOf(export.package))
    /\ facade \in Requests \cup {None} /\ cache \in [Requests -> [Tags -> Packages \cup {None}]]
    /\ dir \in Packages \cup {"absent", "empty", "mixed"} /\ open \subseteq Requests
    /\ installed \in Packages \cup {None} /\ asked \in 0 .. MaxRequests
    /\ \A r \in Requests :
          /\ req[r].pc \in Labels /\ req[r].code \in Codes
          /\ req[r].tries \in 0 .. Attempts - 1
          /\ req[r].package \in Packages \cup {None} /\ req[r].seen \subseteq Packages \cup {None}

Succeeded(r) == req[r].pc = "answered" /\ req[r].code = "OK"

\* What the catalogue shows is the version that was asked for, or chosen, also where
\* the layer with its manifest could not be fetched and Pull has passed over that;
\* and what is shown or installed was published under its tag at some time during
\* the request, unless it is a package of version 0, which is kept in memory
\* (hasTagBeenMigrated).  Except for requests that unpacked at the same time as
\* another: the directory is shared (GetAddOn of remote-catalogue.go).
RepliesAreTrue ==
    \A r \in Requests : Succeeded(r) /\ ~ req[r].mixed =>
        /\ TagOf(req[r].package) = req[r].version
        /\ req[r].package \in req[r].seen \/ ArtifactOf[req[r].package].media = "manifest"

\* The latest version is none that another version of the add-on for this device
\* exceeds, in whatever order the registry has listed them.
LatestIsGreatest ==
    [][\A r \in Requests : req[r].version = NoVersion /\ req'[r].version \in Tags /\ Active(r) =>
          \A i \in DOMAIN req[r].valid : ~ Less(req'[r].version, req[r].valid[i])]_vars

\* Every service of an installed add-on has its docker image, and no image is of
\* another package than the one the manifest is from, although the tag may have moved
\* in between (Pull goes by digests): it is of that package or, where the layer of the
\* package was passed over or there is none, from where docker has got it.
InstallIsOnePackage ==
    IF installed = None THEN imported = {}
    ELSE \E own \in SUBSET ImagesOf(installed) : imported = own \cup Elsewhere(installed, own)

\* What was installed fits: the estimate is made of the layers in the registry, also
\* where only stand-ins of them are in the migrated package.
InstallFits ==
    \A r \in Requests : Succeeded(r) /\ req[r].op \in {"create", "update"} =>
        \A l \in ImagesOf(req[r].package) : 5 * l.size <= 2 * Space

\* The answer is an error about the manifest of a package.
Refuses(q) == q.code \notin {"", "OK"} /\ q.package # None

\* An update that is refused because of its manifest leaves the installed add-on as
\* it was, unless the tag moved between the manifest that was checked and the one
\* that was pulled (updateAction asks the registry twice), or it is the schema that
\* refuses it (CreateAddOnRoutine calls Validate when the old add-on is gone;
\* updateAction does not).
RefusedUpdateKeepsOld ==
    [][\A r \in Requests :
         req[r].op = "update" /\ Active(r) /\ Refuses(req'[r]) =>
             \/ installed' # None
             \/ req'[r].future # req'[r].package
             \/ ~ Validate(req'[r].package)]_vars

\* Every request is answered, also when the registry stays unreachable: there comes
\* a time when none is under way.
EveryRequestAnswered == Working ~> ~ Working
================================================================================
