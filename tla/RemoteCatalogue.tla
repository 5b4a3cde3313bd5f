----------------------------- MODULE RemoteCatalogue ----------------------------
(***************************************************************************)
(* The device as a reader of the registry: the requests of server.go that  *)
(* go to it (GetAddOn and ListAddOns of the catalogue, CreateAddOn,        *)
(* UpdateAddOn), through catalogue/remote-catalogue.go,                    *)
(* catalogue/local-catalogue.go and internal/aom/registry.  Requests run   *)
(* concurrently; only those that change an add-on exclude one another.     *)
(*                                                                         *)
(* The catalogue unpacks every add-on it shows into one directory per      *)
(* add-on, which all requests share.  Packages of version 0 are migrated   *)
(* in memory and kept there.  There is one add-on.                         *)
(***************************************************************************)
EXTENDS Packager, Sequences
LOCAL INSTANCE SequencesExt

CONSTANTS
    MaxRequests,    \* bound: requests in all, numbered as they come
    Wanted,         \* the versions that clients ask the catalogue for
    Attempts,       \* of Repositories, before it gives up
    Space,          \* AvailableSpaceInBytes
    RootAccess,     \* IsSshRootAccessEnabled
    Preinstalled    \* the packages that may be installed at first, or None

VARIABLES
    facade,     \* the request that made the repository in registryFascade, or None
    cache,      \* cache[r][t]: package whose migration is stored under t, in the
                \* repository that request r made
    dir,        \* manifest in the directory of the catalogue: "absent", "empty",
                \* "mixed" or the package it is from
    open,       \* requests whose open manifest file is still in that directory
    req,        \* req[r]: the request
    installed,  \* the package of the installed add-on, or None
    imported,   \* the docker images of its services: layers of packages, or from elsewhere
    asked       \* counts requests

Requests == 1 .. MaxRequests
deviceVars == <<facade, cache, dir, open, req, installed, imported, asked>>

NoVersion == Version(0, 0)
NoCache == [t \in Tags |-> None]
Idle == [pc |-> "idle", op |-> "", version |-> NoVersion, next |-> "", use |-> "", tries |-> 0,
         repo |-> None, todo |-> <<>>, valid |-> <<>>, package |-> None, future |-> None,
         fetched |-> {}, code |-> "", mixed |-> FALSE, seen |-> {}]

\* The image manifest of a package for the platform of the device, its docker images
\* and the size they take.
Migratable == [s \in Packages |-> migrate(ArtifactOf[s]) # Error]
ImageManifest == [s \in Packages |-> findSupportedManifest(migrate(ArtifactOf[s]))]
InstallSize == [s \in Packages |->
    IF hasUcImageLayer(ImageManifest[s])
    THEN estimatedInstallSizeBytes(cumulativeLayerSize(ImageManifest[s])) ELSE 0]
ImagesOf(s) == {Original(l) : l \in ImageManifest[s].images}

\* What compose gets by itself when it creates the stack: the images of the services
\* that are not among those layers, from wherever their references lead.
Elsewhere(s, layers) ==
    LET refs == GetDockerImageReferences(ImageManifest[s].uc.manifest.services)
        missing == {v \in DOMAIN refs : \A l \in layers : l.title # refs[v]}
    IN  {[media |-> "elsewhere", title |-> refs[v]] : v \in missing}

DeviceInit ==
    /\ facade = None /\ cache = [r \in Requests |-> NoCache]
    /\ dir = "absent" /\ open = {}
    /\ req = [r \in Requests |-> Idle] /\ asked = 0
    /\ installed \in Preinstalled
    /\ imported = IF installed = None THEN {}
                  ELSE ImagesOf(installed) \cup Elsewhere(installed, ImagesOf(installed))

Active(r) == req[r].pc \notin {"idle", "answered"}

\* Next step of the request.
Go(r, label) == req' = [req EXCEPT ![r].pc = label]
\* A reply about package s, and one about none.
Reply(r, code, s) ==
    req' = [req EXCEPT ![r] = [Idle EXCEPT !.pc = "answered", !.code = code, !.package = s, !.op = req[r].op,
                !.version = req[r].version, !.future = req[r].future, !.mixed = req[r].mixed, !.seen = req[r].seen]]
Answer(r, code) == req' = [req EXCEPT ![r] = [Idle EXCEPT !.pc = "answered", !.code = code]]
\* An error on the way: ListAddOns skips the add-on.
Fail(r) == Answer(r, IF req[r].op = "list" THEN "Empty" ELSE "FailedPrecondition")

\* A call of the registry, which begins with the search for the repository.
Call(q, next, use) == [q EXCEPT !.pc = "lookup", !.next = next, !.use = use, !.tries = 0]

--------------------------------------------------------------------------------
\* The operations of the server

Ask(r) ==
    /\ asked = r - 1
    /\ asked' = r
    /\ UNCHANGED <<facade, cache, dir, open, installed, imported>>

Asked(op, version) == [Idle EXCEPT !.op = op, !.version = version, !.seen = {tag[t] : t \in Tags}]

\* No version: the latest.
GetAddOn(r, version) ==
    /\ Ask(r)
    /\ req' = [req EXCEPT ![r] = Call(Asked("get", version), "tags", "")]

ListAddOns(r) ==
    /\ Ask(r)
    /\ req' = [req EXCEPT ![r] = [Asked("list", NoVersion) EXCEPT !.pc = "names"]]

\* isAllowedToManageAddons: what the IAM service says.
Verdicts == {"allowed", "PermissionDenied", "error"}

TransactionOpen == \E r \in Requests : Active(r) /\ req[r].op \in {"create", "update"}

CreateAddOn(r, version, verdict) ==
    /\ Ask(r)
    /\ IF verdict # "allowed" THEN Answer(r, verdict)
       ELSE IF TransactionOpen THEN Answer(r, "Unavailable")
       ELSE IF installed # None THEN Answer(r, "AlreadyExists")
       ELSE req' = [req EXCEPT ![r] = Call(Asked("create", version), "resolve", "pull")]

\* isValidUpdate, ReplaceAddOnRoutine.  For the same version there is only a
\* configuration, which does not go to the registry.
UpdateAddOn(r, version, verdict) ==
    /\ Ask(r)
    /\ IF verdict # "allowed" THEN Answer(r, verdict)
       ELSE IF installed = None THEN Answer(r, "error")
       ELSE IF ~ GreaterThanOrEqual(version, TagOf(installed)) THEN Answer(r, "Downgrade")
       ELSE IF TransactionOpen THEN Answer(r, "Unavailable")
       ELSE IF version = TagOf(installed) THEN Answer(r, "Configured")
       ELSE req' = [req EXCEPT ![r] = Call(Asked("update", version), "resolve", "check")]

--------------------------------------------------------------------------------
\* ORASAddOnRegistry

\* Repositories, by itself and in getRepositoryWithCodeName.  Then follows
\* GetRepositoryWithMigration: the map is read and written without a lock.
Repositories(r) ==
    /\ req[r].pc \in {"names", "lookup"} /\ online
    /\ CASE req[r].pc = "names" -> req' = [req EXCEPT ![r] = Call(@, "tags", "")]
         [] req[r].pc = "lookup" /\ facade = None -> Go(r, "store")
         [] OTHER -> req' = [req EXCEPT ![r].repo = facade, ![r].pc = req[r].next]
    /\ UNCHANGED <<facade, cache, dir, open, installed, imported, asked>>

\* Faulty variant: it is tried until it succeeds.
RetryForEver(r) ==
    /\ req[r].pc \in {"names", "lookup"} /\ ~ online
    /\ req' = [req EXCEPT ![r].tries = (@ + 1) % Attempts]
    /\ UNCHANGED <<facade, cache, dir, open, installed, imported, asked>>

\* Retry: after the last attempt the call fails; in GetLatestAddOns as a problem of
\* the connection.
Retry(r) ==
    /\ req[r].pc \in {"names", "lookup"} /\ ~ online
    /\ IF req[r].tries + 1 < Attempts THEN req' = [req EXCEPT ![r].tries = @ + 1]
       ELSE IF req[r].pc = "names" THEN Answer(r, "RegistryConnection")
       ELSE Fail(r)
    /\ UNCHANGED <<facade, cache, dir, open, installed, imported, asked>>

StoreRepository(r) ==
    /\ req[r].pc = "store"
    /\ facade' = r
    /\ cache' = [cache EXCEPT ![r] = NoCache]
    /\ req' = [req EXCEPT ![r].repo = r, ![r].pc = req[r].next]
    /\ UNCHANGED <<dir, open, installed, imported, asked>>

\* Tags: what the registry lists.
ListTags(r) ==
    /\ req[r].pc = "tags"
    /\ IF online
       THEN req' = [req EXCEPT ![r].pc = "validate", ![r].valid = <<>>,
                               ![r].todo = SelectSeq(TagOrder, LAMBDA t : tag[t] # None)]
       ELSE Fail(r)
    /\ UNCHANGED <<facade, cache, dir, open, installed, imported, asked>>

\* orasAddonMigrateRepository.Resolve: a tag that has been migrated is never looked
\* up again; None if the package cannot be had.
Resolve(repo, t) ==
    IF cache[repo][t] # None THEN cache[repo][t]
    ELSE IF online /\ tag[t] # None /\ Migratable[tag[t]] THEN tag[t] ELSE None

\* Faulty variant: every tag is looked up once.
CacheAll(repo, t) ==
    IF Resolve(repo, t) # None THEN [cache EXCEPT ![repo][t] = Resolve(repo, t)] ELSE cache

\* The copy of a migrated package into the migration storage.
CacheAfter(repo, t) ==
    IF Resolve(repo, t) # None /\ ArtifactOf[Resolve(repo, t)].media = "manifest"
    THEN [cache EXCEPT ![repo][t] = Resolve(repo, t)] ELSE cache

\* deserializeImageManifest: of a cached package the index and the image manifest
\* are in memory.
Deserialize(repo, t) ==
    LET s == Resolve(repo, t)
    IN  IF s # None /\ (online \/ cache[repo][t] # None) THEN ImageManifest[s] ELSE Error

\* A tag for which this fails is left out.
validateIsAddOn(repo, t) == hasUcImageLayer(Deserialize(repo, t))

onlyAddOnTags(r) ==
    /\ req[r].pc = "validate" /\ req[r].todo # <<>>
    /\ LET t == Head(req[r].todo)
           repo == req[r].repo
       IN  /\ req' = [req EXCEPT ![r].todo = Tail(@),
                                 ![r].valid = IF validateIsAddOn(repo, t) THEN Append(@, t) ELSE @]
           /\ cache' = CacheAfter(repo, t)
    /\ UNCHANGED <<facade, dir, open, installed, imported, asked>>

\* Pull, up to the layers.
DeserializeImageManifest(r) ==
    /\ req[r].pc = "resolve"
    /\ LET t == req[r].version
           repo == req[r].repo
       IN  /\ IF t \in Tags /\ Deserialize(repo, t) # Error
              THEN req' = [req EXCEPT ![r].pc = "fetch", ![r].package = Resolve(repo, t)]
              ELSE Fail(r)
           /\ cache' = IF t \in Tags THEN CacheAfter(repo, t) ELSE cache
    /\ UNCHANGED <<facade, dir, open, installed, imported, asked>>

--------------------------------------------------------------------------------
\* ORASRemoteAddOnCatalogue.GetAddOn

\* Faulty variant: the versions are in the order of the registry.
LastListed(versions, version) == IF version = NoVersion THEN Last(versions) ELSE version

\* getIndex, in the versions in ascending order.
Chosen(versions, version) ==
    IF version = NoVersion THEN Last(SortVersions(versions)) ELSE version

\* The last tag has been looked at.
Validated(r) == req[r].pc = "validate" /\ req[r].todo = <<>>

\* getIndex found the version, or there is any.
IsAvailable(versions, version) ==
    IF version = NoVersion THEN versions # <<>> ELSE \E i \in DOMAIN versions : versions[i] = version

VersionNotFound(r) ==
    /\ Validated(r) /\ ~ IsAvailable(req[r].valid, req[r].version)
    /\ Fail(r)
    /\ UNCHANGED <<facade, cache, dir, open, installed, imported, asked>>

\* Between the removal of the directory and the reading of the manifest.
Unpacking(r) == Active(r) /\ req[r].use = "unpack"

\* What follows the removal: the version is pulled into the directory.
Unpack(r) ==
    req' = [q \in Requests |->
        CASE q = r -> [Call(req[r], "resolve", "unpack") EXCEPT
                          !.mixed = (\E o \in Requests : o # r /\ Unpacking(o)),
                          !.version = Chosen(req[r].valid, req[r].version), !.valid = <<>>, !.repo = None]
          [] q # r /\ Unpacking(q) -> [req[q] EXCEPT !.mixed = TRUE]
          [] OTHER -> req[q]]

RemoveDir(r) ==
    /\ Validated(r) /\ IsAvailable(req[r].valid, req[r].version)
    /\ dir' = "absent" /\ open' = {}
    /\ Unpack(r)
    /\ UNCHANGED <<facade, cache, installed, imported, asked>>

\* The layer with the manifest: a failure to fetch it is logged, and then there is
\* nothing to write.  Otherwise the file is created or truncated.
UcOf(r) == ImageManifest[req[r].package].uc
Fetch(r) == online \/ ArtifactOf[req[r].package].media = "manifest"
CanFetchUc(r) == Filter(UcOf(r)) /\ Fetch(r)

OpenManifest(r) ==
    /\ req[r].pc = "fetch" /\ req[r].use = "unpack"
    /\ IF CanFetchUc(r)
       THEN Go(r, "write") /\ dir' = "empty" /\ open' = open \cup {r}
       ELSE Go(r, "read") /\ UNCHANGED <<dir, open>>
    /\ UNCHANGED <<facade, cache, installed, imported, asked>>

\* The write may leave the end of a longer manifest that another request has written
\* to the same file; if the directory was removed, it goes to no file.
WriteManifest(r) ==
    /\ req[r].pc = "write"
    /\ dir' \in IF r \notin open THEN {dir}
                ELSE IF dir \in {"empty", req[r].package} THEN {req[r].package}
                ELSE {req[r].package, "mixed"}
    /\ open' = open \ {r}
    /\ Go(r, "read")
    /\ UNCHANGED <<facade, cache, installed, imported, asked>>

\* A list leaves out an add-on whose manifest is not valid.
ReadManifest(r) ==
    /\ req[r].pc = "read"
    /\ IF dir \in Packages /\ (req[r].op = "list" => Validate(dir)) THEN Reply(r, "OK", dir) ELSE Fail(r)
    /\ UNCHANGED <<facade, cache, dir, open, installed, imported, asked>>

--------------------------------------------------------------------------------
\* The routines of the service that go to the registry

\* ManifestVersionValidator and Capabilities.validateFeatures
Accepts(m) ==
    /\ m.manifestVersion = ValidManifestVersion
    /\ "root_access" \in m.features => RootAccess

\* Faulty variant: only what is installed is checked.
DeleteUnchecked(r) ==
    /\ req[r].pc = "fetch" /\ req[r].use = "check"
    /\ CanFetchUc(r)
    /\ req' = [req EXCEPT ![r] = [Call(@, "resolve", "pull") EXCEPT !.future = req[r].package]]
    /\ installed' = None /\ imported' = {}
    /\ UNCHANGED <<facade, cache, dir, open, asked>>

\* updateAction: FetchManifest into a directory of its own, the checks, and the
\* removal of the installed add-on.  The schema is none of these checks.
ReplaceOld(r) ==
    /\ req[r].pc = "fetch" /\ req[r].use = "check"
    /\ CanFetchUc(r) /\ Accepts(UcOf(r).manifest)
    /\ req' = [req EXCEPT ![r] = [Call(@, "resolve", "pull") EXCEPT !.future = req[r].package]]
    /\ installed' = None /\ imported' = {}
    /\ UNCHANGED <<facade, cache, dir, open, asked>>

RefuseFuture(r) ==
    /\ req[r].pc = "fetch" /\ req[r].use = "check"
    /\ ~ (CanFetchUc(r) /\ Accepts(UcOf(r).manifest))
    /\ IF CanFetchUc(r) THEN Reply(r, "InvalidArgument", req[r].package) ELSE Fail(r)
    /\ UNCHANGED <<facade, cache, dir, open, installed, imported, asked>>

\* PullAddOn: all layers are asked for, also one with a manifest of another schema
\* version.  Without the manifest there is no add-on to install; docker images that
\* cannot be fetched are passed over, one or several of them.  CheckDiskSpace, the
\* schema and the other checks of the manifest follow.
PullManifest(r) ==
    /\ req[r].pc = "fetch" /\ req[r].use = "pull"
    /\ LET s == req[r].package
       IN  IF UcOf(r) = Nil \/ ~ Fetch(r) THEN Fail(r)
           ELSE IF Space < InstallSize[s] THEN Answer(r, "ResourceExhausted")
           ELSE IF ~ Validate(s) THEN Reply(r, "FailedPrecondition", s)
           ELSE IF ~ Accepts(UcOf(r).manifest) THEN Reply(r, "InvalidArgument", s)
           ELSE \E fetched \in SUBSET (IF online THEN ImagesOf(s) ELSE {}) :
                   req' = [req EXCEPT ![r].pc = "import", ![r].fetched = fetched]
    /\ UNCHANGED <<facade, cache, dir, open, installed, imported, asked>>

\* Faulty variant: what has the tag now is imported.
ImportTagged(r) ==
    /\ req[r].pc = "import" /\ online
    /\ installed' = req[r].package
    /\ imported' = ImagesOf(tag[req[r].version])
    /\ Reply(r, "OK", req[r].package)
    /\ UNCHANGED <<facade, cache, dir, open, asked>>

\* ImportDockerImage reads each image that Pull has opened from the registry; Up
\* creates the stack with them and with what it gets from elsewhere.
ImportImages(r) ==
    /\ req[r].pc = "import" /\ (online \/ req[r].fetched = {})
    /\ installed' = req[r].package
    /\ imported' = req[r].fetched \cup Elsewhere(req[r].package, req[r].fetched)
    /\ Reply(r, "OK", req[r].package)
    /\ UNCHANGED <<facade, cache, dir, open, asked>>

\* The registry is gone while an image is read, or docker does not find one.
ImportFails(r) ==
    /\ req[r].pc = "import"
    /\ (~ online /\ req[r].fetched # {}) \/ Elsewhere(req[r].package, req[r].fetched) # {}
    /\ Fail(r)
    /\ UNCHANGED <<facade, cache, dir, open, installed, imported, asked>>

--------------------------------------------------------------------------------
\* The process ends, which Go also does when it notices two writes to a map at a
\* time.  Requests are broken off, what was in memory is gone.
Crash ==
    /\ \E q, r \in Requests : q # r /\ req[q].pc = "store" /\ req[r].pc = "store"
    /\ facade' = None /\ cache' = [r \in Requests |-> NoCache]
    /\ open' = {}
    /\ req' = [r \in Requests |-> Idle]
    /\ UNCHANGED <<dir, installed, imported, asked>>

RequestStep(r) ==
    \/ Repositories(r) \/ Retry(r) \/ StoreRepository(r)
    \/ ListTags(r) \/ onlyAddOnTags(r) \/ VersionNotFound(r) \/ DeserializeImageManifest(r)
    \/ RemoveDir(r) \/ OpenManifest(r) \/ WriteManifest(r) \/ ReadManifest(r)
    \/ ReplaceOld(r) \/ RefuseFuture(r) \/ PullManifest(r) \/ ImportImages(r) \/ ImportFails(r)

DeviceNext ==
    \/ \E r \in Requests : RequestStep(r) \/ ListAddOns(r)
    \/ \E r \in Requests, t \in Wanted : GetAddOn(r, t)
    \/ \E r \in Requests, t \in Tags, v \in Verdicts : CreateAddOn(r, t, v) \/ UpdateAddOn(r, t, v)
    \/ Crash
================================================================================
