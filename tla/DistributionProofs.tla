--------------------------- MODULE DistributionProofs ---------------------------
(***************************************************************************)
(* Theorems about Distribution, for every set of packages, tags, requests  *)
(* and layers: the files of an export, the replies of the device and what  *)
(* it installs are each of one package, and an update that is refused      *)
(* keeps the old add-on.                                                   *)
(*                                                                         *)
(* The inductive invariant says of every request where its call of the     *)
(* registry stands and what it is for (ControlInv, PurposeInv), and that   *)
(* the package it has come to is of the version that is asked for and was  *)
(* published meanwhile (PackageInv); of the requests together that one at  *)
(* a time changes the add-on, and that one which unpacks alone finds in    *)
(* the shared directory what it has written itself (TogetherInv).          *)
(***************************************************************************)
EXTENDS Distribution, TLAPS

\* The fields of a request.
Fields == {"pc", "op", "version", "next", "use", "tries", "repo", "todo", "valid", "package",
           "future", "fetched", "code", "mixed", "seen"}
IsRequest(q) == q = [f \in Fields |-> q[f]]

\* x is q but for some of its fields.
SameBut(x, q, changed) == IsRequest(x) /\ \A f \in Fields \ changed : x[f] = q[f]

\* The package that has been resolved is one of the version that is asked for and was
\* published during the request, unless it is one that is kept in memory.
IsTrue(q) ==
    /\ q.package \in Packages
    /\ TagOf(q.package) = q.version
    /\ q.package \in q.seen \/ ArtifactOf[q.package].media = "manifest"

IsActive(q) == q.pc \notin {"idle", "answered"}

\* Where a call of the registry stands, and what it is for.
ControlInv(q) ==
    /\ q.pc \in {"lookup", "store"} =>
           \/ q.next = "tags" /\ q.use = ""
           \/ q.next = "resolve" /\ q.use \in {"unpack", "check", "pull"}
    /\ q.pc \in {"names", "tags", "validate"} => q.use = ""
    /\ q.pc \in {"resolve", "fetch"} => q.use \in {"unpack", "check", "pull"}
    /\ q.pc \in {"write", "read"} => q.use = "unpack"
    /\ q.pc = "import" => q.use = "pull"
    /\ q.pc \in {"tags", "validate", "resolve"} => q.repo \in Requests

\* Which operation it belongs to.
PurposeInv(q) ==
    /\ q.use = "check" => q.op = "update"
    /\ q.use = "pull" => q.op \in {"create", "update"}
    /\ q.op \in {"create", "update"} => q.use \in {"check", "pull"}
    /\ q.code = ""

\* What is known of the packages it has come to.
PackageInv(q) ==
    /\ q.pc \in {"fetch", "write", "read", "import"} => IsTrue(q)
    /\ q.pc = "import" => q.fetched \subseteq ImagesOf(q.package)
    /\ q.op = "update" /\ q.use = "pull" =>
           q.future \in Packages /\ Accepts(ImageManifest[q.future].uc.manifest)

RequestInv(q) ==
    /\ IsRequest(q) /\ q.pc \in Labels
    /\ IsActive(q) => ControlInv(q) /\ PurposeInv(q) /\ PackageInv(q)
    /\ q.pc = "answered" /\ q.code = "OK" /\ ~ q.mixed => IsTrue(q)

RequestsInv ==
    /\ req = [r \in Requests |-> req[r]]
    /\ \A r \in Requests : RequestInv(req[r])

\* A tag and a migrated package belong to the version they are found under.
RegistryInv ==
    /\ tag \in [Tags -> Packages \cup {None}]
    /\ \A t \in Tags : tag[t] # None => TagOf(tag[t]) = t
    /\ job \in Packages \cup {None}

CacheInv ==
    /\ facade \in Requests \cup {None}
    /\ cache \in [Requests -> [Tags -> Packages \cup {None}]]
    /\ \A r \in Requests, t \in Tags : cache[r][t] # None =>
           TagOf(cache[r][t]) = t /\ ArtifactOf[cache[r][t]].media = "manifest"

ExportInv ==
    \/ export = NoExport
    \/ /\ export = [package |-> export.package, left |-> export.left,
                    exported |-> export.exported, skipped |-> export.skipped]
       /\ export.package \in Packages
       /\ export.left \subseteq PlatformsOf(export.package)
       /\ export.exported \subseteq PlatformsOf(export.package) \X {export.package}
       /\ ~ export.skipped =>
              \A p \in PlatformsOf(export.package) :
                  p \in export.left \/ <<p, export.package>> \in export.exported

\* What has a tag while a request is under way has been seen by it.
SeenInv == \A r \in Requests, t \in Tags : Active(r) => tag[t] \in req[r].seen

Changing(r) == Active(r) /\ req[r].op \in {"create", "update"}
OneChange == \A q, r \in Requests : Changing(q) /\ Changing(r) => q = r
CheckedIsThere == \A r \in Requests : Active(r) /\ req[r].use = "check" => installed # None

Alone(r) == Unpacking(r) /\ ~ req[r].mixed
DirInv ==
    \A r \in Requests : Alone(r) =>
        /\ \A o \in Requests : Unpacking(o) => o = r
        /\ req[r].pc \notin {"write", "read"} => dir = "absent"
        /\ req[r].pc = "write" => dir = "empty" /\ r \in open
        /\ req[r].pc = "read" => dir \in {"absent", req[r].package}

TogetherInv == SeenInv /\ OneChange /\ CheckedIsThere /\ DirInv

DistributionInv ==
    /\ RegistryInv /\ ExportInv /\ CacheInv /\ RequestsInv
    /\ TogetherInv /\ InstallIsOnePackage

\* The fields of a request that has not been made.
LEMMA IdleFacts ==
    /\ IsRequest(Idle) /\ Idle.pc = "idle" /\ Idle.op = "" /\ Idle.use = "" /\ Idle.code = ""
    /\ Idle.mixed = FALSE /\ Idle.future = None /\ Idle.seen = {} /\ Idle.package = None
BY DEF Idle, IsRequest, Fields

\* An answer about no package is not a success.
LEMMA AnswerFacts ==
    ASSUME NEW code, code # "OK"
    PROVE  LET x == [Idle EXCEPT !.pc = "answered", !.code = code]
           IN  RequestInv(x) /\ x.pc = "answered" /\ x.code = code
<1> DEFINE x == [Idle EXCEPT !.pc = "answered", !.code = code]
<1>1. IsRequest(x) /\ x.pc = "answered" /\ x.code = code
    BY IdleFacts DEF IsRequest, Fields
<1> HIDE DEF x
<1>2. RequestInv(x)
    BY <1>1 DEF RequestInv, IsActive, Labels
<1> QED
    BY <1>1, <1>2 DEF x

\* A reply keeps what the properties speak of.
Replied(q, code, s) ==
    [Idle EXCEPT !.pc = "answered", !.code = code, !.package = s, !.op = q.op,
        !.version = q.version, !.future = q.future, !.mixed = q.mixed, !.seen = q.seen]

\* The fields of a reply.
LEMMA ReplyFacts ==
    ASSUME NEW q, NEW code, NEW s
    PROVE  LET x == Replied(q, code, s)
           IN  /\ IsRequest(x) /\ x.pc = "answered" /\ x.code = code /\ x.package = s
               /\ x.op = q.op /\ x.version = q.version /\ x.future = q.future
               /\ x.mixed = q.mixed /\ x.seen = q.seen
BY IdleFacts DEF IsRequest, Replied, Fields

\* The invariant holds at first.
LEMMA InitInv == Init => DistributionInv
<1> SUFFICES ASSUME Init PROVE DistributionInv
    OBVIOUS
<1>1. RegistryInv
  <2>1. tag \in [Tags -> DOMAIN Legacy \cup {None}] /\ job = None
    BY DEF Init, PackagerInit
  <2>2. ASSUME NEW t \in Tags, tag[t] # None
        PROVE  tag[t] \in Packages /\ TagOf(tag[t]) = t
    BY <2>1, <2>2 DEF Init, PackagerInit, Packages
  <2> QED
    BY <2>1, <2>2 DEF RegistryInv
<1> USE DEF Init, PackagerInit, DeviceInit
<1>2. ExportInv
    BY DEF ExportInv
<1>3. CacheInv
    BY DEF CacheInv, NoCache
<1>4. RequestsInv
    BY IdleFacts DEF RequestsInv, RequestInv, IsActive, Labels
<1>5. TogetherInv
    BY IdleFacts DEF TogetherInv, SeenInv, OneChange, CheckedIsThere, DirInv, Changing, Alone,
        Unpacking, Active
<1>6. InstallIsOnePackage
  <2>1. CASE installed = None
    BY <2>1 DEF InstallIsOnePackage
  <2>2. CASE installed # None
    <3>1. imported = ImagesOf(installed) \cup Elsewhere(installed, ImagesOf(installed))
      BY <2>2
    <3>2. ImagesOf(installed) \in SUBSET ImagesOf(installed)
      OBVIOUS
    <3> QED
      BY <2>2, <3>1, <3>2 DEF InstallIsOnePackage
  <2> QED
    BY <2>1, <2>2
<1> QED
    BY <1>1, <1>2, <1>3, <1>4, <1>5, <1>6 DEF DistributionInv

--------------------------------------------------------------------------------
\* The requests that a step leaves alone.
OnlyRequest(r) ==
    /\ req' = [q \in Requests |-> req'[q]]
    /\ \A q \in Requests : q # r => req'[q] = req[q]

\* An assignment to one request leaves the others.
LEMMA OneRequest ==
    ASSUME RequestsInv, NEW r \in Requests, NEW x, req' = [req EXCEPT ![r] = x]
    PROVE  OnlyRequest(r) /\ req'[r] = x
BY DEF RequestsInv, OnlyRequest

\* A step of a request that shares nothing with the others: it goes on, or it is
\* answered.
GoesOn(q, x) ==
    /\ x.op = q.op /\ x.use = q.use /\ x.mixed = q.mixed /\ x.seen = q.seen
    /\ q.pc \notin {"write", "read"} /\ x.pc \notin {"write", "read"}

\* Such a step keeps the invariant.
LEMMA CalmStep ==
    ASSUME DistributionInv, NEW r \in Requests, Active(r),
           OnlyRequest(r), RequestInv(req'[r]),
           req'[r].pc = "answered" \/ GoesOn(req[r], req'[r]),
           CacheInv',
           UNCHANGED <<packagerVars, dir, open, installed, imported>>
    PROVE  DistributionInv'
<1> USE DEF DistributionInv
<1>1. RequestsInv'
    BY DEF RequestsInv, OnlyRequest
<1>2. RegistryInv' /\ ExportInv'
    BY DEF RegistryInv, ExportInv, packagerVars, registryVars
<1>3. InstallIsOnePackage'
    BY DEF InstallIsOnePackage
<1>4. \A q \in Requests : Active(q)' =>
          /\ Active(q) /\ req'[q].op = req[q].op /\ req'[q].use = req[q].use
          /\ req'[q].mixed = req[q].mixed /\ req'[q].seen = req[q].seen
    BY DEF Active, OnlyRequest, GoesOn
<1>5. tag' = tag
    BY DEF packagerVars, registryVars
<1>6. SeenInv' /\ OneChange' /\ CheckedIsThere'
    BY <1>4, <1>5 DEF TogetherInv, SeenInv, OneChange, CheckedIsThere, Changing
<1>7. DirInv'
  <2> SUFFICES ASSUME NEW q \in Requests, Alone(q)'
               PROVE  /\ \A o \in Requests : Unpacking(o)' => o = q
                      /\ req'[q].pc \notin {"write", "read"} => dir = "absent"
                      /\ req'[q].pc = "write" => dir = "empty" /\ q \in open
                      /\ req'[q].pc = "read" => dir \in {"absent", req'[q].package}
    BY DEF DirInv
  <2>1. Alone(q) /\ \A o \in Requests : Unpacking(o)' => Unpacking(o)
    BY <1>4 DEF Alone, Unpacking
  <2>2. CASE q # r
    BY <2>1, <2>2 DEF TogetherInv, DirInv, OnlyRequest
  <2>3. CASE q = r
    <3>1. GoesOn(req[q], req'[q])
      BY <2>3 DEF Alone, Unpacking, Active
    <3> QED
      BY <2>1, <3>1 DEF TogetherInv, DirInv, GoesOn
  <2> QED
    BY <2>2, <2>3
<1> QED
    BY <1>1, <1>2, <1>3, <1>6, <1>7 DEF TogetherInv

\* An answer that is no success.
LEMMA AnswerStep ==
    ASSUME DistributionInv, NEW r \in Requests, Active(r), NEW code, code # "OK",
           Answer(r, code), CacheInv',
           UNCHANGED <<packagerVars, dir, open, installed, imported>>
    PROVE  DistributionInv'
<1> DEFINE x == [Idle EXCEPT !.pc = "answered", !.code = code]
<1>1. RequestInv(x) /\ x.pc = "answered" /\ req' = [req EXCEPT ![r] = x]
    BY AnswerFacts DEF Answer
<1> HIDE DEF x
<1>2. OnlyRequest(r) /\ req'[r] = x
    BY <1>1, OneRequest DEF DistributionInv
<1> QED
    BY <1>1, <1>2, CalmStep

\* An error on the way.
LEMMA FailStep ==
    ASSUME DistributionInv, NEW r \in Requests, Active(r), Fail(r), CacheInv',
           UNCHANGED <<packagerVars, dir, open, installed, imported>>
    PROVE  DistributionInv'
<1>1. PICK code : Answer(r, code) /\ code # "OK"
    BY DEF Fail
<1> QED
    BY <1>1, AnswerStep

\* What is in memory stays.
LEMMA CacheKept ==
    ASSUME CacheInv, UNCHANGED <<facade, cache>>
    PROVE  CacheInv'
BY DEF CacheInv

\* The parts of the invariant of a request that is under way.
LEMMA RequestFacts ==
    ASSUME DistributionInv, NEW r \in Requests
    PROVE  /\ RequestsInv /\ CacheInv /\ IsRequest(req[r]) /\ req[r].pc \in Labels
           /\ Active(r) => /\ ControlInv(req[r]) /\ PurposeInv(req[r]) /\ PackageInv(req[r])
BY DEF DistributionInv, RequestsInv, RequestInv, IsActive, Active

\* A step of a request that is still under way after it.
LEMMA GoesOnStep ==
    ASSUME DistributionInv, NEW r \in Requests, Active(r), CacheInv',
           NEW x, req' = [req EXCEPT ![r] = x],
           IsRequest(x), GoesOn(req[r], x), x.code = req[r].code, x.future = req[r].future,
           x.pc \in Labels \ {"idle", "answered"}, ControlInv(x),
           x.pc \in {"fetch", "import"} => IsTrue(x),
           x.pc = "import" => x.fetched \subseteq ImagesOf(x.package),
           UNCHANGED <<packagerVars, dir, open, installed, imported>>
    PROVE  DistributionInv'
<1>1. RequestsInv /\ PurposeInv(req[r]) /\ PackageInv(req[r])
    BY RequestFacts
<1>2. OnlyRequest(r) /\ req'[r] = x
    BY <1>1, OneRequest
<1>3. RequestInv(x)
    BY <1>1 DEF RequestInv, PurposeInv, PackageInv, GoesOn, IsActive
<1> QED
    BY <1>2, <1>3, CalmStep

\* Repositories keeps the invariant.
LEMMA RepositoriesStep ==
    ASSUME DistributionInv, NEW r \in Requests, Repositories(r), UNCHANGED packagerVars
    PROVE  DistributionInv'
<1> DEFINE q == req[r]
<1>1. Active(r) /\ CacheInv' /\ UNCHANGED <<dir, open, installed, imported>>
    BY CacheKept DEF DistributionInv, Repositories, Active
<1>2. IsRequest(q) /\ ControlInv(q)
    BY <1>1, RequestFacts
<1>3. CASE q.pc = "names"
  <2> DEFINE x == Call(q, "tags", "")
  <2>1. req' = [req EXCEPT ![r] = x]
    BY <1>3 DEF Repositories
  <2>2. SameBut(x, q, {"pc", "next", "use", "tries"}) /\ x.pc = "lookup" /\ x.next = "tags" /\ x.use = ""
    BY <1>2 DEF IsRequest, Call, SameBut, Fields
  <2> HIDE DEF x
  <2>3. IsRequest(x) /\ GoesOn(q, x) /\ x.code = q.code /\ x.future = q.future /\ ControlInv(x)
    BY <1>2, <1>3, <2>2 DEF SameBut, Fields, GoesOn, ControlInv
  <2> QED
    BY <1>1, <2>1, <2>2, <2>3, GoesOnStep DEF Labels
<1>4. CASE q.pc = "lookup" /\ facade = None
  <2> DEFINE x == [q EXCEPT !.pc = "store"]
  <2>1. req' = [req EXCEPT ![r] = x]
    BY <1>4 DEF Repositories, Go
  <2>2. SameBut(x, q, {"pc"}) /\ x.pc = "store"
    BY <1>2 DEF IsRequest, SameBut, Fields
  <2> HIDE DEF x
  <2>3. IsRequest(x) /\ GoesOn(q, x) /\ x.code = q.code /\ x.future = q.future /\ ControlInv(x)
    BY <1>2, <1>4, <2>2 DEF SameBut, Fields, GoesOn, ControlInv
  <2> QED
    BY <1>1, <2>1, <2>2, <2>3, GoesOnStep DEF Labels
<1>5. CASE q.pc = "lookup" /\ facade # None
  <2> DEFINE x == [q EXCEPT !.repo = facade, !.pc = q.next]
  <2>1. req' = [req EXCEPT ![r] = x]
    BY <1>5 DEF Repositories
  <2>2. SameBut(x, q, {"pc", "repo"}) /\ x.pc = q.next /\ x.repo = facade
    BY <1>2 DEF IsRequest, SameBut, Fields
  <2> HIDE DEF x
  <2>3. \/ x.pc = "tags" /\ q.use = ""
        \/ x.pc = "resolve" /\ q.use \in {"unpack", "check", "pull"}
    BY <1>2, <1>5, <2>2 DEF ControlInv
  <2>4. facade \in Requests
    BY <1>5 DEF DistributionInv, CacheInv
  <2>5. IsRequest(x) /\ GoesOn(q, x) /\ x.code = q.code /\ x.future = q.future /\ ControlInv(x)
    BY <1>5, <2>2, <2>3, <2>4 DEF SameBut, Fields, GoesOn, ControlInv
  <2> QED
    BY <1>1, <2>1, <2>3, <2>5, GoesOnStep DEF Labels
<1> QED
    BY <1>3, <1>4, <1>5 DEF Repositories

\* Retry keeps the invariant.
LEMMA RetryStep ==
    ASSUME DistributionInv, NEW r \in Requests, Retry(r), UNCHANGED packagerVars
    PROVE  DistributionInv'
<1> DEFINE q == req[r]
           x == [q EXCEPT !.tries = @ + 1]
<1>1. Active(r) /\ CacheInv' /\ UNCHANGED <<dir, open, installed, imported>>
    BY CacheKept DEF DistributionInv, Retry, Active
<1>2. IsRequest(q) /\ ControlInv(q)
    BY <1>1, RequestFacts
<1>3. CASE req' = [req EXCEPT ![r] = x]
  <2>1. SameBut(x, q, {"tries"})
    BY <1>2 DEF IsRequest, SameBut, Fields
  <2> HIDE DEF x
  <2>2. /\ IsRequest(x) /\ GoesOn(q, x) /\ x.code = q.code /\ x.future = q.future /\ ControlInv(x)
        /\ x.pc \in {"names", "lookup"}
    BY <1>2, <2>1 DEF Retry, SameBut, Fields, GoesOn, ControlInv
  <2> QED
    BY <1>1, <1>3, <2>2, GoesOnStep DEF Labels
<1>4. CASE Answer(r, "RegistryConnection")
    BY <1>1, <1>4, AnswerStep
<1>5. CASE Fail(r)
    BY <1>1, <1>5, FailStep
<1> QED
    BY <1>3, <1>4, <1>5 DEF Retry

\* StoreRepository keeps the invariant.
LEMMA StoreRepositoryStep ==
    ASSUME DistributionInv, NEW r \in Requests, StoreRepository(r), UNCHANGED packagerVars
    PROVE  DistributionInv'
<1> DEFINE q == req[r]
           x == [q EXCEPT !.repo = r, !.pc = q.next]
<1>1. CacheInv'
  <2>1. NoCache \in [Tags -> Packages \cup {None}] /\ \A t \in Tags : NoCache[t] = None
    BY DEF NoCache
  <2> QED
    BY <2>1 DEF DistributionInv, CacheInv, StoreRepository
<1>2. Active(r) /\ UNCHANGED <<dir, open, installed, imported>> /\ q.pc = "store"
    BY DEF StoreRepository, Active
<1>3. IsRequest(q) /\ ControlInv(q)
    BY <1>2, RequestFacts
<1>4. req' = [req EXCEPT ![r] = x]
    BY DEF StoreRepository
<1>5. SameBut(x, q, {"pc", "repo"}) /\ x.pc = q.next /\ x.repo = r
    BY <1>3 DEF IsRequest, SameBut, Fields
<1> HIDE DEF x
<1>6. \/ x.pc = "tags" /\ q.use = ""
      \/ x.pc = "resolve" /\ q.use \in {"unpack", "check", "pull"}
    BY <1>2, <1>3, <1>5 DEF ControlInv
<1>7. IsRequest(x) /\ GoesOn(q, x) /\ x.code = q.code /\ x.future = q.future /\ ControlInv(x)
    BY <1>2, <1>5, <1>6 DEF SameBut, Fields, GoesOn, ControlInv
<1> QED
    BY <1>1, <1>2, <1>4, <1>6, <1>7, GoesOnStep DEF Labels

\* ListTags keeps the invariant.
LEMMA ListTagsStep ==
    ASSUME DistributionInv, NEW r \in Requests, ListTags(r), UNCHANGED packagerVars
    PROVE  DistributionInv'
<1> DEFINE q == req[r]
<1>1. Active(r) /\ CacheInv' /\ UNCHANGED <<dir, open, installed, imported>>
    BY CacheKept DEF DistributionInv, ListTags, Active
<1>2. IsRequest(q) /\ ControlInv(q) /\ q.pc = "tags"
    BY <1>1, RequestFacts DEF ListTags
<1>3. CASE online
  <2>1. PICK todo : req' = [req EXCEPT ![r] = [q EXCEPT !.pc = "validate", !.valid = <<>>, !.todo = todo]]
    BY <1>3 DEF ListTags
  <2> DEFINE x == [q EXCEPT !.pc = "validate", !.valid = <<>>, !.todo = todo]
  <2>2. SameBut(x, q, {"pc", "valid", "todo"}) /\ x.pc = "validate"
    BY <1>2 DEF IsRequest, SameBut, Fields
  <2>3. req' = [req EXCEPT ![r] = x]
    BY <2>1
  <2> HIDE DEF x
  <2>4. IsRequest(x) /\ GoesOn(q, x) /\ x.code = q.code /\ x.future = q.future /\ ControlInv(x)
    BY <1>2, <2>2 DEF SameBut, Fields, GoesOn, ControlInv
  <2> QED
    BY <1>1, <2>2, <2>3, <2>4, GoesOnStep DEF Labels
<1>4. CASE ~ online
    BY <1>1, <1>4, FailStep DEF ListTags
<1> QED
    BY <1>3, <1>4

\* A package that is found under a tag is of that version, and has it now or is one
\* that is kept in memory.
LEMMA ResolveFacts ==
    ASSUME RegistryInv, CacheInv, NEW repo \in Requests, NEW t \in Tags, Resolve(repo, t) # None
    PROVE  /\ Resolve(repo, t) \in Packages /\ TagOf(Resolve(repo, t)) = t
           /\ \/ Resolve(repo, t) = tag[t]
              \/ ArtifactOf[Resolve(repo, t)].media = "manifest"
<1>1. CASE cache[repo][t] # None
    BY <1>1 DEF Resolve, CacheInv
<1>2. CASE cache[repo][t] = None
    BY <1>2 DEF Resolve, RegistryInv
<1> QED
    BY <1>1, <1>2

\* A migrated package is stored under its own version.
LEMMA CacheStep ==
    ASSUME RegistryInv, CacheInv, NEW repo \in Requests, NEW t,
           cache' = CacheAfter(repo, t), facade' = facade
    PROVE  CacheInv'
<1>1. CASE cache' = cache
    BY <1>1, CacheKept
<1>2. CASE cache' # cache
  <2> DEFINE s == Resolve(repo, t)
  <2>1. /\ s # None /\ ArtifactOf[s].media = "manifest"
        /\ cache' = [cache EXCEPT ![repo][t] = s]
    BY <1>2 DEF CacheAfter
  <2>2. t \in Tags
    BY <1>2, <2>1 DEF CacheInv
  <2>3. s \in Packages /\ TagOf(s) = t
    BY <2>1, <2>2, ResolveFacts
  <2> HIDE DEF s
  <2> QED
    BY <2>1, <2>2, <2>3 DEF CacheInv
<1> QED
    BY <1>1, <1>2

\* onlyAddOnTags keeps the invariant.
LEMMA onlyAddOnTagsStep ==
    ASSUME DistributionInv, NEW r \in Requests, onlyAddOnTags(r), UNCHANGED packagerVars
    PROVE  DistributionInv'
<1> DEFINE q == req[r]
<1>1. Active(r) /\ UNCHANGED <<dir, open, installed, imported>> /\ q.pc = "validate"
    BY DEF onlyAddOnTags, Active
<1>2. IsRequest(q) /\ ControlInv(q) /\ q.repo \in Requests
    BY <1>1, RequestFacts DEF ControlInv
<1>3. CacheInv'
    BY <1>2, CacheStep DEF onlyAddOnTags, DistributionInv
<1>4. PICK todo, valid : req' = [req EXCEPT ![r] = [q EXCEPT !.todo = todo, !.valid = valid]]
    BY DEF onlyAddOnTags
<1> DEFINE x == [q EXCEPT !.todo = todo, !.valid = valid]
<1>5. SameBut(x, q, {"todo", "valid"})
    BY <1>2 DEF IsRequest, SameBut, Fields
<1>6. req' = [req EXCEPT ![r] = x]
    BY <1>4
<1> HIDE DEF x
<1>7. /\ IsRequest(x) /\ GoesOn(q, x) /\ x.code = q.code /\ x.future = q.future /\ ControlInv(x)
      /\ x.pc = "validate"
    BY <1>1, <1>2, <1>5 DEF SameBut, Fields, GoesOn, ControlInv
<1> QED
    BY <1>1, <1>3, <1>6, <1>7, GoesOnStep DEF Labels

\* VersionNotFound keeps the invariant.
LEMMA VersionNotFoundStep ==
    ASSUME DistributionInv, NEW r \in Requests, VersionNotFound(r), UNCHANGED packagerVars
    PROVE  DistributionInv'
<1>1. Active(r) /\ CacheInv'
    BY CacheKept DEF DistributionInv, VersionNotFound, Validated, Active
<1> QED
    BY <1>1, FailStep DEF VersionNotFound

\* DeserializeImageManifest keeps the invariant.
LEMMA DeserializeImageManifestStep ==
    ASSUME DistributionInv, NEW r \in Requests, DeserializeImageManifest(r), UNCHANGED packagerVars
    PROVE  DistributionInv'
<1> DEFINE q == req[r]
           t == q.version
           s == Resolve(q.repo, t)
           x == [q EXCEPT !.pc = "fetch", !.package = s]
<1>1. Active(r) /\ UNCHANGED <<dir, open, installed, imported>> /\ q.pc = "resolve"
    BY DEF DeserializeImageManifest, Active
<1>2. IsRequest(q) /\ ControlInv(q) /\ q.repo \in Requests
    BY <1>1, RequestFacts DEF ControlInv
<1>3. CacheInv'
  <2>1. CASE t \in Tags
    BY <1>2, <2>1, CacheStep DEF DeserializeImageManifest, DistributionInv
  <2>2. CASE t \notin Tags
    BY <2>2, CacheKept DEF DeserializeImageManifest, DistributionInv
  <2> QED
    BY <2>1, <2>2
<1>4. CASE t \in Tags /\ Deserialize(q.repo, t) # Error
  <2>1. req' = [req EXCEPT ![r] = x]
    BY <1>4 DEF DeserializeImageManifest
  <2>2. SameBut(x, q, {"pc", "package"}) /\ x.pc = "fetch" /\ x.package = s
    BY <1>2 DEF IsRequest, SameBut, Fields
  <2>3. s # None
    BY <1>4 DEF Deserialize
  <2>4. s \in Packages /\ TagOf(s) = t /\ (s = tag[t] \/ ArtifactOf[s].media = "manifest")
    BY <1>2, <1>4, <2>3, ResolveFacts DEF DistributionInv
  <2>5. tag[t] \in q.seen
    BY <1>1, <1>4 DEF DistributionInv, TogetherInv, SeenInv
  <2> HIDE DEF x, s
  <2>6. /\ IsRequest(x) /\ GoesOn(q, x) /\ x.code = q.code /\ x.future = q.future /\ ControlInv(x)
    BY <1>1, <1>2, <2>2 DEF SameBut, Fields, GoesOn, ControlInv
  <2>7. x.version = t /\ x.seen = q.seen
    BY <2>2 DEF SameBut, Fields
  <2>8. IsTrue(x)
    BY <2>2, <2>4, <2>5, <2>7 DEF IsTrue
  <2> QED
    BY <1>1, <1>3, <2>1, <2>2, <2>6, <2>8, GoesOnStep DEF Labels
<1>5. CASE ~ (t \in Tags /\ Deserialize(q.repo, t) # Error)
    BY <1>1, <1>3, <1>5, FailStep DEF DeserializeImageManifest
<1> QED
    BY <1>4, <1>5

--------------------------------------------------------------------------------
\* A reply about a package: it must be true where it is a success.
LEMMA ReplyStep ==
    ASSUME DistributionInv, NEW r \in Requests, Active(r), NEW code, NEW s,
           req' = [req EXCEPT ![r] = Replied(req[r], code, s)], CacheInv',
           code = "OK" /\ ~ req[r].mixed => IsTrue(req[r]) /\ s = req[r].package,
           UNCHANGED <<packagerVars, dir, open, installed, imported>>
    PROVE  DistributionInv' /\ RequestInv(req'[r])
<1> DEFINE q == req[r]
           x == Replied(q, code, s)
<1>1. /\ IsRequest(x) /\ x.pc = "answered" /\ x.code = code /\ x.package = s
      /\ x.version = q.version /\ x.mixed = q.mixed /\ x.seen = q.seen
    BY ReplyFacts
<1>2. OnlyRequest(r) /\ req'[r] = x
    BY OneRequest DEF DistributionInv
<1> HIDE DEF x
<1>3. RequestInv(x)
    BY <1>1 DEF RequestInv, IsActive, IsTrue, Labels
<1> QED
    BY <1>1, <1>2, <1>3, CalmStep

\* ReadManifest keeps the invariant.
LEMMA ReadManifestStep ==
    ASSUME DistributionInv, NEW r \in Requests, ReadManifest(r), UNCHANGED packagerVars
    PROVE  DistributionInv'
<1>1. Active(r) /\ CacheInv' /\ req[r].pc = "read"
    BY CacheKept DEF DistributionInv, ReadManifest, Active
<1>2. CASE dir \in Packages /\ (req[r].op = "list" => Validate(dir))
  <2>1. IsTrue(req[r]) /\ req[r].use = "unpack"
    BY <1>1, RequestFacts DEF PackageInv, ControlInv
  <2>2. dir # "absent"
    BY <1>2, DistributionAssumption
  <2>3. ~ req[r].mixed => dir = req[r].package
    BY <1>1, <2>1, <2>2 DEF DistributionInv, TogetherInv, DirInv, Alone, Unpacking
  <2>4. req' = [req EXCEPT ![r] = Replied(req[r], "OK", dir)]
    BY <1>2 DEF ReadManifest, Reply, Replied
  <2> QED
    BY <1>1, <2>1, <2>3, <2>4, ReplyStep DEF ReadManifest
<1>3. CASE ~ (dir \in Packages /\ (req[r].op = "list" => Validate(dir)))
    BY <1>1, <1>3, FailStep DEF ReadManifest
<1> QED
    BY <1>2, <1>3

\* RefuseFuture keeps the invariant.
LEMMA RefuseFutureStep ==
    ASSUME DistributionInv, NEW r \in Requests, RefuseFuture(r), UNCHANGED packagerVars
    PROVE  DistributionInv'
<1>1. Active(r) /\ CacheInv'
    BY CacheKept DEF DistributionInv, RefuseFuture, Active
<1>2. CASE CanFetchUc(r)
  <2>1. req' = [req EXCEPT ![r] = Replied(req[r], "InvalidArgument", req[r].package)]
    BY <1>2 DEF RefuseFuture, Reply, Replied
  <2> QED
    BY <1>1, <2>1, ReplyStep DEF RefuseFuture
<1>3. CASE ~ CanFetchUc(r)
    BY <1>1, <1>3, FailStep DEF RefuseFuture
<1> QED
    BY <1>2, <1>3

\* PullManifest keeps the invariant.
LEMMA PullManifestStep ==
    ASSUME DistributionInv, NEW r \in Requests, PullManifest(r), UNCHANGED packagerVars
    PROVE  DistributionInv'
<1> DEFINE q == req[r]
<1>1. Active(r) /\ CacheInv' /\ q.pc = "fetch" /\ q.use = "pull"
    BY CacheKept DEF DistributionInv, PullManifest, Active
<1>2. UNCHANGED <<dir, open, installed, imported>>
    BY DEF PullManifest
<1>3. \/ Fail(r) \/ Answer(r, "ResourceExhausted")
      \/ \E code \in {"FailedPrecondition", "InvalidArgument"} : Reply(r, code, q.package)
      \/ \E fetched \in SUBSET ImagesOf(q.package) :
            req' = [req EXCEPT ![r] = [q EXCEPT !.pc = "import", !.fetched = fetched]]
  <2>1. CASE \E fetched \in SUBSET (IF online THEN ImagesOf(q.package) ELSE {}) :
                req' = [req EXCEPT ![r].pc = "import", ![r].fetched = fetched]
    <3>1. PICK fetched \in SUBSET (IF online THEN ImagesOf(q.package) ELSE {}) :
              req' = [req EXCEPT ![r].pc = "import", ![r].fetched = fetched]
      BY <2>1
    <3>2. fetched \in SUBSET ImagesOf(q.package)
      OBVIOUS
    <3>3. req' = [req EXCEPT ![r] = [q EXCEPT !.pc = "import", !.fetched = fetched]]
      BY <3>1 DEF DistributionInv, RequestsInv
    <3> QED
      BY <3>2, <3>3
  <2> QED
    BY <2>1 DEF PullManifest
<1>4. CASE Fail(r)
    BY <1>1, <1>2, <1>4, FailStep
<1>5. CASE Answer(r, "ResourceExhausted")
    BY <1>1, <1>2, <1>5, AnswerStep
<1>6. ASSUME NEW code \in {"FailedPrecondition", "InvalidArgument"}, Reply(r, code, q.package)
      PROVE  DistributionInv'
  <2>1. req' = [req EXCEPT ![r] = Replied(req[r], code, q.package)]
    BY <1>6 DEF Reply, Replied
  <2> QED
    BY <1>1, <1>2, <2>1, ReplyStep
<1>7. ASSUME NEW fetched \in SUBSET ImagesOf(q.package),
             req' = [req EXCEPT ![r] = [q EXCEPT !.pc = "import", !.fetched = fetched]]
      PROVE  DistributionInv'
  <2> DEFINE x == [q EXCEPT !.pc = "import", !.fetched = fetched]
  <2>1. IsRequest(q) /\ ControlInv(q) /\ IsTrue(q)
    BY <1>1, RequestFacts DEF PackageInv
  <2>2. req' = [req EXCEPT ![r] = x]
    BY <1>7
  <2>3. SameBut(x, q, {"pc", "fetched"}) /\ x.pc = "import" /\ x.fetched = fetched
    BY <2>1 DEF IsRequest, SameBut, Fields
  <2> HIDE DEF x
  <2>4. IsRequest(x) /\ GoesOn(q, x) /\ x.code = q.code /\ x.future = q.future /\ ControlInv(x)
    BY <1>1, <2>1, <2>3 DEF SameBut, Fields, GoesOn, ControlInv
  <2>5. x.version = q.version /\ x.seen = q.seen /\ x.package = q.package
    BY <2>3 DEF SameBut, Fields
  <2>6. IsTrue(x)
    BY <2>1, <2>5 DEF IsTrue
  <2>7. x.fetched \subseteq ImagesOf(x.package)
    BY <2>3, <2>5
  <2> QED
    BY <1>1, <1>2, <2>2, <2>3, <2>4, <2>6, <2>7, GoesOnStep DEF Labels
<1> QED
    BY <1>3, <1>4, <1>5, <1>6, <1>7

\* ImportFails keeps the invariant.
LEMMA ImportFailsStep ==
    ASSUME DistributionInv, NEW r \in Requests, ImportFails(r), UNCHANGED packagerVars
    PROVE  DistributionInv'
<1>1. Active(r) /\ CacheInv'
    BY CacheKept DEF DistributionInv, ImportFails, Active
<1> QED
    BY <1>1, FailStep DEF ImportFails

\* The registry and the packager stay as they are.
LEMMA PackagerKept ==
    ASSUME RegistryInv, ExportInv, UNCHANGED packagerVars
    PROVE  RegistryInv' /\ ExportInv' /\ tag' = tag
BY DEF RegistryInv, ExportInv, packagerVars, registryVars

\* The docker images are imported from the package that was pulled, as far as they
\* were fetched.
LEMMA ImportImagesStep ==
    ASSUME DistributionInv, NEW r \in Requests, ImportImages(r), UNCHANGED packagerVars
    PROVE  DistributionInv'
<1> DEFINE q == req[r]
           x == Replied(q, "OK", q.package)
<1>1. Active(r) /\ CacheInv' /\ q.pc = "import" /\ UNCHANGED <<dir, open>>
    BY CacheKept DEF DistributionInv, ImportImages, Active
<1>2. /\ installed' = q.package
      /\ imported' = q.fetched \cup Elsewhere(q.package, q.fetched)
      /\ req' = [req EXCEPT ![r] = x]
    BY DEF ImportImages, Reply, Replied
<1>3. IsTrue(q) /\ q.fetched \in SUBSET ImagesOf(q.package)
    BY <1>1, RequestFacts DEF PackageInv
<1>4. installed' # None
    BY <1>2, <1>3, DistributionAssumption DEF IsTrue
<1>5. InstallIsOnePackage'
  <2>1. \E own \in SUBSET ImagesOf(q.package) : imported' = own \cup Elsewhere(q.package, own)
    BY <1>2, <1>3
  <2> QED
    BY <1>2, <1>4, <2>1 DEF InstallIsOnePackage
<1>6. /\ IsRequest(x) /\ x.pc = "answered" /\ x.code = "OK" /\ x.package = q.package
      /\ x.version = q.version /\ x.mixed = q.mixed /\ x.seen = q.seen
    BY ReplyFacts
<1>7. OnlyRequest(r) /\ req'[r] = x
    BY <1>2, OneRequest DEF DistributionInv
<1> HIDE DEF x
<1>8. RequestInv(x)
    BY <1>3, <1>6 DEF RequestInv, IsActive, IsTrue, Labels
<1>9. RequestsInv'
    BY <1>7, <1>8 DEF DistributionInv, RequestsInv, OnlyRequest
<1>10. RegistryInv' /\ ExportInv' /\ tag' = tag
    BY PackagerKept DEF DistributionInv
<1>11. \A o \in Requests : Active(o)' => Active(o) /\ o # r /\ req'[o] = req[o]
    BY <1>6, <1>7 DEF OnlyRequest, Active
<1>12. SeenInv' /\ OneChange' /\ CheckedIsThere'
    BY <1>4, <1>10, <1>11 DEF DistributionInv, TogetherInv, SeenInv, OneChange, CheckedIsThere, Changing
<1>13. DirInv'
    BY <1>1, <1>11 DEF DistributionInv, TogetherInv, DirInv, Alone, Unpacking
<1> QED
    BY <1>1, <1>5, <1>9, <1>10, <1>12, <1>13 DEF DistributionInv, TogetherInv

\* The update takes the old add-on away; no other request relies on it.
LEMMA ReplaceOldStep ==
    ASSUME DistributionInv, NEW r \in Requests, ReplaceOld(r), UNCHANGED packagerVars
    PROVE  DistributionInv'
<1> DEFINE q == req[r]
           x == [Call(q, "resolve", "pull") EXCEPT !.future = q.package]
<1>1. Active(r) /\ CacheInv' /\ q.pc = "fetch" /\ q.use = "check" /\ UNCHANGED <<dir, open>>
    BY CacheKept DEF DistributionInv, ReplaceOld, Active
<1>2. IsRequest(q) /\ IsTrue(q) /\ PurposeInv(q)
    BY <1>1, RequestFacts DEF PackageInv
<1>3. /\ SameBut(x, q, {"pc", "next", "use", "tries", "future"}) /\ x.pc = "lookup"
      /\ x.next = "resolve" /\ x.use = "pull" /\ x.future = q.package
    BY <1>2 DEF Call, IsRequest, SameBut, Fields
<1>4. /\ req' = [req EXCEPT ![r] = x] /\ installed' = None /\ imported' = {}
      /\ Accepts(ImageManifest[q.package].uc.manifest)
    BY DEF ReplaceOld, UcOf
<1>5. OnlyRequest(r) /\ req'[r] = x
    BY <1>4, OneRequest DEF DistributionInv
<1> HIDE DEF x
<1>6. IsRequest(x) /\ x.op = q.op /\ x.code = q.code /\ x.seen = q.seen /\ x.mixed = q.mixed
    BY <1>3 DEF SameBut, Fields
<1>7. q.op = "update"
    BY <1>1, <1>2 DEF PurposeInv
<1>8. RequestInv(x)
    BY <1>2, <1>3, <1>4, <1>6, <1>7
       DEF RequestInv, IsActive, Labels, IsTrue, ControlInv, PurposeInv, PackageInv
<1>9. RequestsInv'
    BY <1>5, <1>8 DEF DistributionInv, RequestsInv, OnlyRequest
<1>10. RegistryInv' /\ ExportInv' /\ tag' = tag
    BY PackagerKept DEF DistributionInv
<1>11. InstallIsOnePackage'
    BY <1>4 DEF InstallIsOnePackage
<1>12. \A o \in Requests : /\ Active(o)' = Active(o) /\ req'[o].op = req[o].op
                           /\ req'[o].seen = req[o].seen
    BY <1>1, <1>3, <1>5, <1>6 DEF OnlyRequest, Active
<1>13. SeenInv' /\ OneChange'
    BY <1>10, <1>12 DEF DistributionInv, TogetherInv, SeenInv, OneChange, Changing
<1>14. CheckedIsThere'
  <2> SUFFICES ASSUME NEW o \in Requests, Active(o)', req'[o].use = "check"
               PROVE  FALSE
    BY DEF CheckedIsThere
  <2>1. o # r /\ req'[o] = req[o]
    BY <1>3, <1>5 DEF OnlyRequest
  <2>2. Active(o) /\ req[o].op = "update"
    BY <2>1, <1>12, RequestFacts DEF PurposeInv
  <2> QED
    BY <1>1, <1>7, <2>1, <2>2 DEF DistributionInv, TogetherInv, OneChange, Changing
<1>15. DirInv'
  <2>1. \A o \in Requests : Unpacking(o)' => Unpacking(o) /\ o # r /\ req'[o] = req[o]
    BY <1>3, <1>5, <1>12 DEF Unpacking, OnlyRequest
  <2> QED
    BY <1>1, <2>1 DEF DistributionInv, TogetherInv, DirInv, Alone
<1> QED
    BY <1>1, <1>9, <1>10, <1>11, <1>13, <1>14, <1>15 DEF DistributionInv, TogetherInv

--------------------------------------------------------------------------------
\* The directory of the catalogue

\* A step of a request that unpacks: it may write to the directory.
LEMMA UnpackingStep ==
    ASSUME DistributionInv, NEW r \in Requests, Unpacking(r), CacheInv',
           NEW label \in {"write", "read"}, Go(r, label), IsTrue(req[r]),
           Alone(r) /\ label = "write" => dir' = "empty" /\ r \in open',
           Alone(r) /\ label = "read" => dir' \in {"absent", req[r].package},
           UNCHANGED <<packagerVars, installed, imported>>
    PROVE  DistributionInv'
<1> DEFINE q == req[r]
           x == [q EXCEPT !.pc = label]
<1>1. IsRequest(q) /\ PurposeInv(q) /\ PackageInv(q) /\ q.use = "unpack" /\ Active(r)
    BY RequestFacts DEF Unpacking
<1>2. SameBut(x, q, {"pc"}) /\ x.pc = label
    BY <1>1 DEF IsRequest, SameBut, Fields
<1>3. OnlyRequest(r) /\ req'[r] = x
    BY OneRequest DEF DistributionInv, Go
<1> HIDE DEF x
<1>4. /\ IsRequest(x) /\ x.op = q.op /\ x.use = q.use /\ x.code = q.code /\ x.seen = q.seen
      /\ x.mixed = q.mixed /\ x.package = q.package /\ x.version = q.version
    BY <1>2 DEF SameBut, Fields
<1>5. RequestInv(x)
    BY <1>1, <1>2, <1>4 DEF RequestInv, IsActive, Labels, IsTrue, ControlInv, PurposeInv, PackageInv
<1>6. RequestsInv'
    BY <1>3, <1>5 DEF DistributionInv, RequestsInv, OnlyRequest
<1>7. RegistryInv' /\ ExportInv' /\ tag' = tag
    BY PackagerKept DEF DistributionInv
<1>8. InstallIsOnePackage'
    BY DEF InstallIsOnePackage, DistributionInv
<1>9. \A o \in Requests :
          /\ Active(o)' = Active(o) /\ req'[o].op = req[o].op /\ req'[o].use = req[o].use
          /\ req'[o].mixed = req[o].mixed /\ req'[o].seen = req[o].seen
    BY <1>1, <1>2, <1>3, <1>4 DEF OnlyRequest, Active
<1>10. SeenInv' /\ OneChange' /\ CheckedIsThere'
    BY <1>7, <1>9 DEF DistributionInv, TogetherInv, SeenInv, OneChange, Changing, CheckedIsThere
<1>11. \A o \in Requests : Unpacking(o)' = Unpacking(o) /\ Alone(o)' = Alone(o)
    BY <1>9 DEF Unpacking, Alone
<1>12. DirInv'
  <2> SUFFICES ASSUME NEW o \in Requests, Alone(o)'
               PROVE  /\ \A p \in Requests : Unpacking(p)' => p = o
                      /\ req'[o].pc \notin {"write", "read"} => dir' = "absent"
                      /\ req'[o].pc = "write" => dir' = "empty" /\ o \in open'
                      /\ req'[o].pc = "read" => dir' \in {"absent", req'[o].package}
    BY DEF DirInv
  <2>1. Alone(o) /\ (\A p \in Requests : Unpacking(p) => p = o)
    BY <1>11 DEF DistributionInv, TogetherInv, DirInv
  <2>2. o = r
    BY <2>1
  <2> QED
    BY <1>2, <1>3, <1>4, <1>11, <2>1, <2>2
<1> QED
    BY <1>6, <1>7, <1>8, <1>10, <1>12 DEF DistributionInv, TogetherInv

\* The manifest file is opened, or was not to be had.
LEMMA OpenManifestStep ==
    ASSUME DistributionInv, NEW r \in Requests, OpenManifest(r), UNCHANGED packagerVars
    PROVE  DistributionInv'
<1>1. CacheInv' /\ Unpacking(r) /\ Active(r) /\ req[r].pc = "fetch"
    BY CacheKept DEF DistributionInv, OpenManifest, Active, Unpacking
<1>2. IsTrue(req[r])
    BY <1>1, RequestFacts DEF PackageInv
<1>3. CASE CanFetchUc(r)
  <2>1. Go(r, "write") /\ dir' = "empty" /\ r \in open' /\ UNCHANGED <<installed, imported>>
    BY <1>3 DEF OpenManifest
  <2> QED
    BY <1>1, <1>2, <2>1, UnpackingStep
<1>4. CASE ~ CanFetchUc(r)
  <2>1. Go(r, "read") /\ dir' = dir /\ UNCHANGED <<installed, imported>>
    BY <1>4 DEF OpenManifest
  <2>2. Alone(r) => dir = "absent"
    BY <1>1 DEF DistributionInv, TogetherInv, DirInv
  <2> QED
    BY <1>1, <1>2, <2>1, <2>2, UnpackingStep
<1> QED
    BY <1>3, <1>4

\* The manifest is written to the directory.
LEMMA WriteManifestStep ==
    ASSUME DistributionInv, NEW r \in Requests, WriteManifest(r), UNCHANGED packagerVars
    PROVE  DistributionInv'
<1>1. CacheInv' /\ Active(r) /\ req[r].pc = "write" /\ Go(r, "read") /\ UNCHANGED <<installed, imported>>
    BY CacheKept DEF DistributionInv, WriteManifest, Active
<1>2. IsTrue(req[r]) /\ Unpacking(r)
    BY <1>1, RequestFacts DEF PackageInv, ControlInv, Unpacking
<1>3. Alone(r) => dir' = req[r].package
    BY <1>1 DEF WriteManifest, DistributionInv, TogetherInv, DirInv
<1> QED
    BY <1>1, <1>2, <1>3, UnpackingStep

\* The directory is removed: all that unpack at this time share it.
LEMMA RemoveDirStep ==
    ASSUME DistributionInv, NEW r \in Requests, RemoveDir(r), UNCHANGED packagerVars
    PROVE  DistributionInv'
<1> DEFINE q == req[r]
           others == \E o \in Requests : o # r /\ Unpacking(o)
           x == [Call(q, "resolve", "unpack") EXCEPT !.mixed = others,
                    !.version = Chosen(q.valid, q.version), !.valid = <<>>, !.repo = None]
<1>1. /\ CacheInv' /\ Active(r) /\ q.pc = "validate" /\ dir' = "absent"
      /\ UNCHANGED <<installed, imported>>
    BY CacheKept DEF DistributionInv, RemoveDir, Validated, Active
<1>2. IsRequest(q) /\ ControlInv(q) /\ PurposeInv(q)
    BY <1>1, RequestFacts
<1>3. q.use = "" /\ q.op \notin {"create", "update"}
    BY <1>1, <1>2 DEF ControlInv, PurposeInv
<1>4. /\ req' = [o \in Requests |-> req'[o]] /\ req'[r] = x
      /\ \A o \in Requests : o # r /\ Unpacking(o) => req'[o] = [req[o] EXCEPT !.mixed = TRUE]
      /\ \A o \in Requests : o # r /\ ~ Unpacking(o) => req'[o] = req[o]
    BY DEF RemoveDir, Unpack
<1>5. /\ SameBut(x, q, {"pc", "next", "use", "tries", "mixed", "version", "valid", "repo"})
      /\ x.pc = "lookup" /\ x.next = "resolve" /\ x.use = "unpack" /\ x.mixed = others
    BY <1>2 DEF Call, IsRequest, SameBut, Fields
<1> HIDE DEF x, others
<1>6. IsRequest(x) /\ x.op = q.op /\ x.code = q.code /\ x.seen = q.seen
    BY <1>5 DEF SameBut, Fields
<1>7. RequestInv(x)
    BY <1>2, <1>3, <1>5, <1>6 DEF RequestInv, IsActive, Labels, ControlInv, PurposeInv, PackageInv
<1>8. ASSUME NEW o \in Requests, o # r, Unpacking(o)
      PROVE  /\ SameBut(req'[o], req[o], {"mixed"}) /\ req'[o].mixed = TRUE
  <2>1. IsRequest(req[o]) /\ req'[o] = [req[o] EXCEPT !.mixed = TRUE]
    BY <1>4, <1>8, RequestFacts
  <2> QED
    BY <2>1 DEF IsRequest, SameBut, Fields
<1>9. ASSUME NEW o \in Requests, o # r
      PROVE  /\ RequestInv(req'[o])
             /\ req'[o].pc = req[o].pc /\ req'[o].op = req[o].op /\ req'[o].use = req[o].use
             /\ req'[o].seen = req[o].seen
             /\ Unpacking(o) => req'[o].mixed = TRUE
  <2>1. CASE Unpacking(o)
    <3> DEFINE y == req'[o]
               z == req[o]
    <3>1. SameBut(y, z, {"mixed"}) /\ y.mixed = TRUE
      BY <1>8, <1>9, <2>1
    <3>2. RequestInv(z)
      BY DEF DistributionInv, RequestsInv
    <3> HIDE DEF y, z
    <3>3. /\ IsRequest(y) /\ y.pc = z.pc /\ y.op = z.op /\ y.use = z.use /\ y.seen = z.seen
          /\ y.next = z.next /\ y.repo = z.repo /\ y.code = z.code /\ y.package = z.package
          /\ y.version = z.version /\ y.future = z.future /\ y.fetched = z.fetched
      BY <3>1 DEF SameBut, Fields
    <3>4. RequestInv(y)
      BY <3>1, <3>2, <3>3 DEF RequestInv, IsActive, IsTrue, ControlInv, PurposeInv, PackageInv
    <3> QED
      BY <3>1, <3>3, <3>4 DEF y, z
  <2>2. CASE ~ Unpacking(o)
    BY <1>4, <1>9, <2>2 DEF DistributionInv, RequestsInv
  <2> QED
    BY <2>1, <2>2
<1>10. RequestsInv'
    BY <1>4, <1>7, <1>9 DEF RequestsInv
<1>11. RegistryInv' /\ ExportInv' /\ tag' = tag
    BY PackagerKept DEF DistributionInv
<1>12. InstallIsOnePackage'
    BY <1>1 DEF InstallIsOnePackage, DistributionInv
<1>13. \A o \in Requests :
          /\ Active(o)' = Active(o) /\ req'[o].op = req[o].op /\ req'[o].seen = req[o].seen
          /\ req'[o].use = "check" => req[o].use = "check"
    BY <1>1, <1>4, <1>5, <1>6, <1>9 DEF Active
<1>14. SeenInv' /\ OneChange' /\ CheckedIsThere'
    BY <1>1, <1>11, <1>13 DEF DistributionInv, TogetherInv, SeenInv, OneChange, Changing, CheckedIsThere
<1>15. DirInv'
  <2> SUFFICES ASSUME NEW o \in Requests, Alone(o)'
               PROVE  /\ \A p \in Requests : Unpacking(p)' => p = o
                      /\ req'[o].pc = "lookup"
    BY <1>1 DEF DirInv
  <2>1. \A p \in Requests : p # r => Unpacking(p)' = Unpacking(p)
    BY <1>9 DEF Unpacking, Active
  <2>2. o = r
    BY <1>9, <2>1 DEF Alone
  <2>3. ~ others
    BY <1>4, <1>5, <2>2 DEF Alone
  <2> QED
    BY <1>4, <1>5, <2>1, <2>2, <2>3 DEF others
<1> QED
    BY <1>1, <1>10, <1>11, <1>12, <1>14, <1>15 DEF DistributionInv, TogetherInv

--------------------------------------------------------------------------------
\* New requests

\* A request takes its place among the others.
LEMMA AskStep ==
    ASSUME DistributionInv, NEW r \in Requests, Ask(r), UNCHANGED packagerVars,
           NEW x, req' = [req EXCEPT ![r] = x], RequestInv(x),
           IsActive(x) => /\ x.use # "unpack"
                          /\ \A t \in Tags : tag[t] \in x.seen
                          /\ x.use = "check" => installed # None
                          /\ x.op \in {"create", "update"} => ~ TransactionOpen
    PROVE  DistributionInv'
<1>1. OnlyRequest(r) /\ req'[r] = x
    BY OneRequest DEF DistributionInv
<1>2. CacheInv' /\ UNCHANGED <<dir, open, installed, imported>>
    BY CacheKept DEF Ask, DistributionInv
<1>3. RequestsInv'
    BY <1>1 DEF DistributionInv, RequestsInv, OnlyRequest
<1>4. RegistryInv' /\ ExportInv' /\ tag' = tag
    BY PackagerKept DEF DistributionInv
<1>5. InstallIsOnePackage'
    BY <1>2 DEF InstallIsOnePackage, DistributionInv
<1>6. \A o \in Requests : o # r => req'[o] = req[o]
    BY <1>1 DEF OnlyRequest
<1>7. Active(r)' = IsActive(x)
    BY <1>1 DEF Active, IsActive
<1>8. SeenInv' /\ CheckedIsThere'
    BY <1>1, <1>2, <1>4, <1>6, <1>7
       DEF DistributionInv, TogetherInv, SeenInv, CheckedIsThere, Active
<1>9. OneChange'
    BY <1>1, <1>6, <1>7 DEF DistributionInv, TogetherInv, OneChange, Changing, Active, TransactionOpen
<1>10. DirInv'
    BY <1>1, <1>2, <1>6, <1>7 DEF DistributionInv, TogetherInv, DirInv, Alone, Unpacking, Active
<1> QED
    BY <1>2, <1>3, <1>4, <1>5, <1>8, <1>9, <1>10 DEF DistributionInv, TogetherInv

\* The fields of a new request.
LEMMA AskedFacts ==
    ASSUME NEW op, NEW version
    PROVE  LET x == Asked(op, version)
           IN  /\ IsRequest(x) /\ x.pc = "idle" /\ x.op = op /\ x.use = "" /\ x.code = ""
               /\ \A t \in Tags : tag[t] \in x.seen
BY IdleFacts DEF Asked, IsRequest, Fields

\* What follows a request that goes to the registry.
LEMMA AskedCall ==
    ASSUME NEW op, NEW version, NEW next, NEW use,
           \/ op = "get" /\ next = "tags" /\ use = ""
           \/ op = "create" /\ next = "resolve" /\ use = "pull"
           \/ op = "update" /\ next = "resolve" /\ use = "check"
    PROVE  LET x == Call(Asked(op, version), next, use)
           IN  /\ RequestInv(x) /\ x.op = op /\ x.use = use /\ \A t \in Tags : tag[t] \in x.seen
<1> DEFINE q == Asked(op, version)
           x == Call(q, next, use)
<1>1. /\ IsRequest(q) /\ q.op = op /\ q.code = ""
      /\ \A t \in Tags : tag[t] \in q.seen
    BY AskedFacts
<1> HIDE DEF q
<1>2. /\ SameBut(x, q, {"pc", "next", "use", "tries"})
      /\ x.pc = "lookup" /\ x.next = next /\ x.use = use
    BY <1>1 DEF Call, IsRequest, SameBut, Fields
<1> HIDE DEF x
<1>3. IsRequest(x) /\ x.op = op /\ x.code = "" /\ x.seen = q.seen
    BY <1>1, <1>2 DEF SameBut, Fields
<1>4. RequestInv(x)
    BY <1>2, <1>3 DEF RequestInv, IsActive, Labels, ControlInv, PurposeInv, PackageInv
<1> QED
    BY <1>1, <1>2, <1>3, <1>4 DEF x, q

\* A request that is refused at once.
LEMMA AskAnswered ==
    ASSUME DistributionInv, NEW r \in Requests, Ask(r), UNCHANGED packagerVars,
           NEW code, code # "OK", Answer(r, code)
    PROVE  DistributionInv'
<1> DEFINE x == [Idle EXCEPT !.pc = "answered", !.code = code]
<1>1. RequestInv(x) /\ x.pc = "answered" /\ req' = [req EXCEPT ![r] = x]
    BY AnswerFacts DEF Answer
<1> HIDE DEF x
<1> QED
    BY <1>1, AskStep DEF IsActive

\* GetAddOn keeps the invariant.
LEMMA GetAddOnStep ==
    ASSUME DistributionInv, NEW r \in Requests, NEW version, GetAddOn(r, version),
           UNCHANGED packagerVars
    PROVE  DistributionInv'
<1> DEFINE x == Call(Asked("get", version), "tags", "")
<1>1. Ask(r) /\ req' = [req EXCEPT ![r] = x]
    BY DEF GetAddOn
<1>2. RequestInv(x) /\ x.op = "get" /\ x.use = "" /\ \A t \in Tags : tag[t] \in x.seen
    BY AskedCall
<1> HIDE DEF x
<1> QED
    BY <1>1, <1>2, AskStep

\* ListAddOns keeps the invariant.
LEMMA ListAddOnsStep ==
    ASSUME DistributionInv, NEW r \in Requests, ListAddOns(r), UNCHANGED packagerVars
    PROVE  DistributionInv'
<1> DEFINE q == Asked("list", NoVersion)
           x == [q EXCEPT !.pc = "names"]
<1>1. Ask(r) /\ req' = [req EXCEPT ![r] = x]
    BY DEF ListAddOns
<1>2. /\ IsRequest(q) /\ q.op = "list" /\ q.code = "" /\ q.use = ""
      /\ \A t \in Tags : tag[t] \in q.seen
    BY IdleFacts DEF Asked, IsRequest, Fields
<1> HIDE DEF q
<1>3. SameBut(x, q, {"pc"}) /\ x.pc = "names"
    BY <1>2 DEF IsRequest, SameBut, Fields
<1> HIDE DEF x
<1>4. IsRequest(x) /\ x.op = "list" /\ x.code = "" /\ x.use = "" /\ x.seen = q.seen
    BY <1>2, <1>3 DEF SameBut, Fields
<1>5. RequestInv(x)
    BY <1>3, <1>4 DEF RequestInv, IsActive, Labels, ControlInv, PurposeInv, PackageInv
<1> QED
    BY <1>1, <1>2, <1>4, <1>5, AskStep

\* CreateAddOn keeps the invariant.
LEMMA CreateAddOnStep ==
    ASSUME DistributionInv, NEW r \in Requests, NEW version, NEW verdict \in Verdicts,
           CreateAddOn(r, version, verdict), UNCHANGED packagerVars
    PROVE  DistributionInv'
<1> DEFINE x == Call(Asked("create", version), "resolve", "pull")
<1>1. /\ Ask(r)
      /\ \/ Answer(r, verdict) /\ verdict # "allowed"
         \/ Answer(r, "Unavailable") \/ Answer(r, "AlreadyExists")
         \/ ~ TransactionOpen /\ req' = [req EXCEPT ![r] = x]
    BY DEF CreateAddOn
<1>2. CASE Answer(r, verdict) /\ verdict # "allowed"
    BY <1>1, <1>2, AskAnswered DEF Verdicts
<1>3. CASE Answer(r, "Unavailable")
    BY <1>1, <1>3, AskAnswered
<1>4. CASE Answer(r, "AlreadyExists")
    BY <1>1, <1>4, AskAnswered
<1>5. CASE ~ TransactionOpen /\ req' = [req EXCEPT ![r] = x]
  <2>1. RequestInv(x) /\ x.op = "create" /\ x.use = "pull" /\ \A t \in Tags : tag[t] \in x.seen
    BY AskedCall
  <2> HIDE DEF x
  <2> QED
    BY <1>1, <1>5, <2>1, AskStep
<1> QED
    BY <1>1, <1>2, <1>3, <1>4, <1>5

\* UpdateAddOn keeps the invariant.
LEMMA UpdateAddOnStep ==
    ASSUME DistributionInv, NEW r \in Requests, NEW version, NEW verdict \in Verdicts,
           UpdateAddOn(r, version, verdict), UNCHANGED packagerVars
    PROVE  DistributionInv'
<1> DEFINE x == Call(Asked("update", version), "resolve", "check")
<1>1. /\ Ask(r)
      /\ \/ Answer(r, verdict) /\ verdict # "allowed"
         \/ Answer(r, "error") \/ Answer(r, "Downgrade")
         \/ Answer(r, "Unavailable") \/ Answer(r, "Configured")
         \/ installed # None /\ ~ TransactionOpen /\ req' = [req EXCEPT ![r] = x]
    BY DEF UpdateAddOn
<1>2. CASE Answer(r, verdict) /\ verdict # "allowed"
    BY <1>1, <1>2, AskAnswered DEF Verdicts
<1>3. CASE Answer(r, "error") \/ Answer(r, "Downgrade")
    BY <1>1, <1>3, AskAnswered
<1>4. CASE Answer(r, "Unavailable") \/ Answer(r, "Configured")
    BY <1>1, <1>4, AskAnswered
<1>5. CASE installed # None /\ ~ TransactionOpen /\ req' = [req EXCEPT ![r] = x]
  <2>1. RequestInv(x) /\ x.op = "update" /\ x.use = "check" /\ \A t \in Tags : tag[t] \in x.seen
    BY AskedCall
  <2> HIDE DEF x
  <2> QED
    BY <1>1, <1>5, <2>1, AskStep
<1> QED
    BY <1>1, <1>2, <1>3, <1>4, <1>5

\* A crash breaks off every request.
LEMMA CrashStep ==
    ASSUME DistributionInv, Crash, UNCHANGED packagerVars
    PROVE  DistributionInv'
<1>1. RegistryInv' /\ ExportInv'
    BY PackagerKept DEF DistributionInv
<1>2. CacheInv'
  <2>1. NoCache \in [Tags -> Packages \cup {None}] /\ \A t \in Tags : NoCache[t] = None
    BY DEF NoCache
  <2> QED
    BY <2>1 DEF Crash, CacheInv
<1>3. /\ req' = [r \in Requests |-> req'[r]] /\ \A r \in Requests : req'[r] = Idle
      /\ UNCHANGED <<installed, imported>>
    BY DEF Crash
<1>4. RequestsInv'
    BY <1>3, IdleFacts DEF RequestsInv, RequestInv, IsActive, Labels
<1>5. \A r \in Requests : ~ Active(r)'
    BY <1>3, IdleFacts DEF Active
<1>6. TogetherInv'
    BY <1>5 DEF TogetherInv, SeenInv, OneChange, CheckedIsThere, DirInv, Changing, Alone, Unpacking
<1>7. InstallIsOnePackage'
    BY <1>3 DEF InstallIsOnePackage, DistributionInv
<1> QED
    BY <1>1, <1>2, <1>4, <1>6, <1>7 DEF DistributionInv

--------------------------------------------------------------------------------
\* The packager and the registry

\* A tag is given to packages of its version only, and an export goes on with the
\* package it has resolved.
LEMMA ExportStep ==
    ASSUME RegistryInv, ExportInv, PackagerNext
    PROVE  RegistryInv' /\ ExportInv'
<1>1. ASSUME NEW s \in DOMAIN Submissions, Push(s) PROVE RegistryInv' /\ ExportInv'
    BY <1>1 DEF Push, RegistryInv, ExportInv, registryVars, Packages
<1>2. ASSUME NEW t \in Tags, Export(t) PROVE RegistryInv' /\ ExportInv'
  <2>1. RegistryInv'
    BY <1>2 DEF Export, RegistryInv
  <2>2. PICK left \in SUBSET PlatformsOf(tag[t]) :
           export' = [package |-> tag[t], left |-> left, exported |-> {},
                      skipped |-> left # PlatformsOf(tag[t])]
    BY <1>2 DEF Export
  <2>3. tag[t] \in Packages
    BY <1>2 DEF RegistryInv, Export
  <2>4. /\ export'.package = tag[t] /\ export'.left = left /\ export'.exported = {}
        /\ export'.skipped = (left # PlatformsOf(tag[t]))
        /\ export' = [package |-> export'.package, left |-> export'.left,
                      exported |-> export'.exported, skipped |-> export'.skipped]
    BY <2>2
  <2>5. ExportInv'
    BY <2>3, <2>4 DEF ExportInv
  <2> QED
    BY <2>1, <2>5
<1>3. CASE Copy
    BY <1>3, DistributionAssumption DEF Copy, RegistryInv, ExportInv
<1>4. CASE CopyFails
    BY <1>4 DEF CopyFails, RegistryInv, ExportInv, registryVars
<1>5. CASE ExportPlatform
  <2>1. RegistryInv'
    BY <1>5 DEF ExportPlatform, RegistryInv, registryVars
  <2>2. PICK p \in export.left :
           export' = [export EXCEPT !.left = @ \ {p}, !.exported = @ \cup {<<p, export.package>>}]
    BY <1>5 DEF ExportPlatform, capturedImageManifest
  <2>3. export # NoExport
    BY <2>2 DEF NoExport
  <2>4. /\ export'.package = export.package /\ export'.left = export.left \ {p}
        /\ export'.exported = export.exported \cup {<<p, export.package>>}
        /\ export'.skipped = export.skipped
        /\ export' = [package |-> export'.package, left |-> export'.left,
                      exported |-> export'.exported, skipped |-> export'.skipped]
    BY <2>2, <2>3 DEF ExportInv
  <2>5. ExportInv'
    BY <2>3, <2>4 DEF ExportInv
  <2> QED
    BY <2>1, <2>5
<1>6. CASE ExportReturns
    BY <1>6 DEF ExportReturns, RegistryInv, ExportInv, registryVars
<1>7. CASE GoOffline
    BY <1>7 DEF GoOffline, RegistryInv, ExportInv
<1>8. CASE GoOnline
    BY <1>8 DEF GoOnline, RegistryInv, ExportInv
<1> QED
    BY <1>1, <1>2, <1>3, <1>4, <1>5, <1>6, <1>7, <1>8 DEF PackagerNext

\* A step of the packager or the registry: requests under way witness it.
LEMMA PackagerStep ==
    ASSUME DistributionInv, PackagerNext, Witness,
           UNCHANGED <<facade, cache, dir, open, installed, imported, asked>>
    PROVE  DistributionInv'
<1>1. RegistryInv' /\ ExportInv'
    BY ExportStep DEF DistributionInv
<1>2. CacheInv'
    BY CacheKept DEF DistributionInv
<1>3. InstallIsOnePackage'
    BY DEF DistributionInv, InstallIsOnePackage
<1>4. req' = [r \in Requests |-> req'[r]]
    BY DEF Witness
<1>5. ASSUME NEW r \in Requests, Active(r)
      PROVE  /\ SameBut(req'[r], req[r], {"seen"})
             /\ req[r].seen \subseteq req'[r].seen /\ \A t \in Tags : tag'[t] \in req'[r].seen
  <2>1. IsRequest(req[r])
    BY RequestFacts
  <2>2. req'[r] = [req[r] EXCEPT !.seen = @ \cup {tag'[t] : t \in Tags}]
    BY <1>5 DEF Witness
  <2>3. /\ SameBut(req'[r], req[r], {"seen"})
        /\ req'[r].seen = req[r].seen \cup {tag'[t] : t \in Tags}
    BY <2>1, <2>2 DEF IsRequest, SameBut, Fields
  <2> QED
    BY <2>3
<1>6. ASSUME NEW r \in Requests
      PROVE  /\ RequestInv(req'[r])
             /\ req'[r].pc = req[r].pc /\ req'[r].op = req[r].op /\ req'[r].use = req[r].use
             /\ req'[r].mixed = req[r].mixed /\ req'[r].package = req[r].package
             /\ Active(r) => \A t \in Tags : tag'[t] \in req'[r].seen
  <2> DEFINE y == req'[r]
             z == req[r]
  <2>1. RequestInv(z)
    BY DEF DistributionInv, RequestsInv
  <2>2. CASE Active(r)
    <3>1. SameBut(y, z, {"seen"}) /\ z.seen \subseteq y.seen /\ IsActive(z)
      BY <1>5, <2>2 DEF Active, IsActive
    <3>2. \A t \in Tags : tag'[t] \in y.seen
      BY <1>5, <2>2
    <3> HIDE DEF y, z
    <3>3. /\ IsRequest(y) /\ y.pc = z.pc /\ y.op = z.op /\ y.use = z.use /\ y.mixed = z.mixed
          /\ y.next = z.next /\ y.repo = z.repo /\ y.code = z.code /\ y.package = z.package
          /\ y.version = z.version /\ y.future = z.future /\ y.fetched = z.fetched
      BY <3>1 DEF SameBut, Fields
    <3>4. RequestInv(y)
      BY <2>1, <3>1, <3>3 DEF RequestInv, IsActive, IsTrue, ControlInv, PurposeInv, PackageInv
    <3> QED
      BY <3>2, <3>3, <3>4 DEF y, z
  <2>3. CASE ~ Active(r)
    BY <2>1, <2>3 DEF Witness
  <2> QED
    BY <2>2, <2>3
<1>7. RequestsInv'
    BY <1>4, <1>6 DEF RequestsInv
<1>8. \A r \in Requests : Active(r)' = Active(r)
    BY <1>6 DEF Active
<1>9. SeenInv' /\ OneChange' /\ CheckedIsThere'
    BY <1>6, <1>8 DEF DistributionInv, TogetherInv, SeenInv, OneChange, CheckedIsThere, Changing
<1>10. DirInv'
    BY <1>6, <1>8 DEF DistributionInv, TogetherInv, DirInv, Alone, Unpacking
<1> QED
    BY <1>1, <1>2, <1>3, <1>7, <1>9, <1>10 DEF DistributionInv, TogetherInv

\* Every step of a request keeps the invariant.
LEMMA RequestStepInv ==
    ASSUME DistributionInv, NEW r \in Requests, RequestStep(r), UNCHANGED packagerVars
    PROVE  DistributionInv'
<1>1. CASE Repositories(r) \/ Retry(r) \/ StoreRepository(r) \/ ListTags(r)
    BY <1>1, RepositoriesStep, RetryStep, StoreRepositoryStep, ListTagsStep
<1>2. CASE onlyAddOnTags(r) \/ VersionNotFound(r) \/ DeserializeImageManifest(r)
    BY <1>2, onlyAddOnTagsStep, VersionNotFoundStep, DeserializeImageManifestStep
<1>3. CASE RemoveDir(r) \/ OpenManifest(r) \/ WriteManifest(r) \/ ReadManifest(r)
    BY <1>3, RemoveDirStep, OpenManifestStep, WriteManifestStep, ReadManifestStep
<1>4. CASE ReplaceOld(r) \/ RefuseFuture(r) \/ PullManifest(r) \/ ImportImages(r) \/ ImportFails(r)
    BY <1>4, ReplaceOldStep, RefuseFutureStep, PullManifestStep, ImportImagesStep, ImportFailsStep
<1> QED
    BY <1>1, <1>2, <1>3, <1>4 DEF RequestStep

\* Every step keeps the invariant.
LEMMA NextInv == DistributionInv /\ [Next]_vars => DistributionInv'
<1> SUFFICES ASSUME DistributionInv, [Next]_vars PROVE DistributionInv'
    OBVIOUS
<1>1. CASE UNCHANGED vars
  <2>1. UNCHANGED <<packagerVars, facade, cache, dir, open, req, installed, imported>>
    BY <1>1 DEF vars, deviceVars
  <2>2. RegistryInv' /\ ExportInv' /\ CacheInv' /\ tag' = tag
    BY <2>1, PackagerKept, CacheKept DEF DistributionInv
  <2>3. RequestsInv' /\ InstallIsOnePackage'
    BY <2>1 DEF DistributionInv, RequestsInv, InstallIsOnePackage
  <2>4. TogetherInv'
    BY <2>1, <2>2 DEF DistributionInv, TogetherInv, SeenInv, OneChange, CheckedIsThere, DirInv,
        Changing, Alone, Unpacking, Active
  <2> QED
    BY <2>2, <2>3, <2>4 DEF DistributionInv
<1>2. CASE /\ PackagerNext /\ Witness
           /\ UNCHANGED <<facade, cache, dir, open, installed, imported, asked>>
    BY <1>2, PackagerStep
<1>3. ASSUME DeviceNext, UNCHANGED packagerVars PROVE DistributionInv'
  <2>1. ASSUME NEW r \in Requests, RequestStep(r) PROVE DistributionInv'
    BY <1>3, <2>1, RequestStepInv
  <2>2. ASSUME NEW r \in Requests, ListAddOns(r) PROVE DistributionInv'
    BY <1>3, <2>2, ListAddOnsStep
  <2>3. ASSUME NEW r \in Requests, NEW t \in Wanted, GetAddOn(r, t) PROVE DistributionInv'
    BY <1>3, <2>3, GetAddOnStep
  <2>4. ASSUME NEW r \in Requests, NEW t \in Tags, NEW v \in Verdicts, CreateAddOn(r, t, v)
        PROVE  DistributionInv'
    BY <1>3, <2>4, CreateAddOnStep
  <2>5. ASSUME NEW r \in Requests, NEW t \in Tags, NEW v \in Verdicts, UpdateAddOn(r, t, v)
        PROVE  DistributionInv'
    BY <1>3, <2>5, UpdateAddOnStep
  <2>6. CASE Crash
    BY <1>3, <2>6, CrashStep
  <2> QED
    BY <1>3, <2>1, <2>2, <2>3, <2>4, <2>5, <2>6 DEF DeviceNext
<1> QED
    BY <1>1, <1>2, <1>3 DEF Next

\* The invariant of registry, packager and device holds in every reachable state.
THEOREM DistributionInvHolds == Spec => []DistributionInv
BY InitInv, NextInv, PTL DEF Spec

\* The files that one export writes (executeExportCommand) are of the package it has
\* resolved, and complete if no image manifest was skipped, however tags move.
THEOREM ExportIsOnePackageHolds == Spec => []ExportIsOnePackage
<1>1. DistributionInv => ExportIsOnePackage
  <2> SUFFICES ASSUME ExportInv PROVE ExportIsOnePackage
    BY DEF DistributionInv
  <2>1. CASE export = NoExport
    BY <2>1 DEF ExportIsOnePackage, NoExport
  <2>2. CASE export # NoExport
    <3>1. \A e \in export.exported :
              e[2] = export.package /\ e \in PlatformsOf(export.package) \X {export.package}
      BY <2>2 DEF ExportInv
    <3>2. ASSUME export.left = {}, ~ export.skipped
          PROVE  export.exported = PlatformsOf(export.package) \X {export.package}
      BY <2>2, <3>2 DEF ExportInv
    <3> QED
      BY <3>1, <3>2 DEF ExportIsOnePackage
  <2> QED
    BY <2>1, <2>2
<1> QED
    BY <1>1, DistributionInvHolds, PTL

\* A success is about the version that was asked for, and a package published during
\* the request or kept in memory, for every request that did not share the directory
\* of the catalogue (ORASRemoteAddOnCatalogue.GetAddOn).
THEOREM RepliesAreTrueHolds == Spec => []RepliesAreTrue
<1>1. DistributionInv => RepliesAreTrue
    BY DEF DistributionInv, RequestsInv, RequestInv, IsTrue, RepliesAreTrue, Succeeded
<1> QED
    BY <1>1, DistributionInvHolds, PTL

\* Every service of the installed add-on has its docker image, of the package the
\* manifest is from or, where that one's layer was passed over or is missing, from
\* elsewhere: never of another package (PullAddOn, ImportDockerImage, Up).
THEOREM InstallIsOnePackageHolds == Spec => []InstallIsOnePackage
<1>1. DistributionInv => InstallIsOnePackage
    BY DEF DistributionInv
<1> QED
    BY <1>1, DistributionInvHolds, PTL

--------------------------------------------------------------------------------
\* The refusal of an update

\* A step of a request that gives no code, or that of a success.
LEMMA OtherCode ==
    ASSUME DistributionInv, NEW q \in Requests, NEW r \in Requests, Active(r),
           NEW x, req' = [req EXCEPT ![q] = x], x.code = "" \/ x.code = "OK"
    PROVE  ~ Refuses(req'[r])
<1>1. OnlyRequest(q) /\ req'[q] = x
    BY OneRequest DEF DistributionInv
<1>2. req[r].code = ""
    BY RequestFacts DEF PurposeInv
<1> QED
    BY <1>1, <1>2 DEF OnlyRequest, Refuses

\* An answer about no package.
LEMMA OtherAnswer ==
    ASSUME DistributionInv, NEW q \in Requests, NEW r \in Requests, Active(r),
           NEW code, Answer(q, code)
    PROVE  ~ Refuses(req'[r])
<1> DEFINE x == [Idle EXCEPT !.pc = "answered", !.code = code]
<1>1. x.package = None /\ req' = [req EXCEPT ![q] = x]
    BY IdleFacts DEF Answer, IsRequest, Fields
<1> HIDE DEF x
<1>2. OnlyRequest(q) /\ req'[q] = x
    BY <1>1, OneRequest DEF DistributionInv
<1>3. req[r].code = ""
    BY RequestFacts DEF PurposeInv
<1> QED
    BY <1>1, <1>2, <1>3 DEF OnlyRequest, Refuses

\* An error on the way is no refusal of a manifest.
LEMMA OtherFailure ==
    ASSUME DistributionInv, NEW q \in Requests, NEW r \in Requests, Active(r), Fail(q)
    PROVE  ~ Refuses(req'[r])
<1>1. PICK code : Answer(q, code)
    BY DEF Fail
<1> QED
    BY <1>1, OtherAnswer

\* The steps that refuse a manifest.
LEMMA RefusedBy ==
    ASSUME DistributionInv, NEW q \in Requests, RequestStep(q),
           NEW r \in Requests, Active(r), Refuses(req'[r])
    PROVE  q = r /\ (RefuseFuture(r) \/ PullManifest(r))
<1> DEFINE z == req[q]
<1>1. IsRequest(z) /\ (Active(q) => z.code = "")
    BY RequestFacts DEF PurposeInv
<1>2. q = r \/ RemoveDir(q)
  <2> SUFFICES ASSUME q # r, ~ RemoveDir(q) PROVE FALSE
    OBVIOUS
  <2>1. req[r].code = "" /\ req = [o \in Requests |-> req[o]]
    BY RequestFacts DEF PurposeInv, RequestsInv
  <2>2. req'[r] = req[r]
    BY <2>1 DEF RequestStep, Repositories, Retry, StoreRepository, ListTags, onlyAddOnTags,
        VersionNotFound, DeserializeImageManifest, OpenManifest, WriteManifest, ReadManifest,
        ReplaceOld, RefuseFuture, PullManifest, ImportImages, ImportFails, Go, Reply, Answer, Fail
  <2> QED
    BY <2>1, <2>2 DEF Refuses
<1>3. ~ RemoveDir(q)
  <2> SUFFICES ASSUME RemoveDir(q) PROVE FALSE
    OBVIOUS
  <2>1. IsRequest(req[r]) /\ req[r].code = ""
    BY RequestFacts DEF PurposeInv
  <2>2. CASE r # q
    <3>1. req'[r] = [req[r] EXCEPT !.mixed = TRUE] \/ req'[r] = req[r]
      BY <2>2 DEF RemoveDir, Unpack
    <3> QED
      BY <2>1, <3>1 DEF IsRequest, Fields, Refuses
  <2>3. CASE r = q
    <3>1. PICK mixed, version :
            req'[r] = [Call(req[r], "resolve", "unpack") EXCEPT !.mixed = mixed,
                          !.version = version, !.valid = <<>>, !.repo = None]
      BY <2>3 DEF RemoveDir, Unpack
    <3> QED
      BY <2>1, <3>1 DEF Call, IsRequest, Fields, Refuses
  <2> QED
    BY <2>2, <2>3
<1>4. q = r /\ z.code = ""
    BY <1>1, <1>2, <1>3
<1>5. ~ Fail(q) /\ \A code : ~ Answer(q, code)
    BY OtherFailure, OtherAnswer
<1>6. \A x : x.code = "" \/ x.code = "OK" => req' # [req EXCEPT ![q] = x]
    BY OtherCode
<1>7. CASE Repositories(q)
  <2>1. \/ req' = [req EXCEPT ![q] = Call(z, "tags", "")]
        \/ req' = [req EXCEPT ![q] = [z EXCEPT !.pc = "store"]]
        \/ req' = [req EXCEPT ![q] = [z EXCEPT !.repo = facade, !.pc = z.next]]
    BY <1>7 DEF Repositories, Go
  <2>2. /\ Call(z, "tags", "").code = "" /\ [z EXCEPT !.pc = "store"].code = ""
        /\ [z EXCEPT !.repo = facade, !.pc = z.next].code = ""
    BY <1>1, <1>4 DEF Call, IsRequest, Fields
  <2> QED
    BY <1>6, <2>1, <2>2
<1>8. CASE Retry(q)
  <2>1. req' = [req EXCEPT ![q] = [z EXCEPT !.tries = @ + 1]]
    BY <1>5, <1>8 DEF Retry
  <2>2. [z EXCEPT !.tries = @ + 1].code = ""
    BY <1>1, <1>4 DEF IsRequest, Fields
  <2> QED
    BY <1>6, <2>1, <2>2
<1>9. CASE StoreRepository(q)
  <2>1. req' = [req EXCEPT ![q] = [z EXCEPT !.repo = q, !.pc = z.next]]
    BY <1>9 DEF StoreRepository
  <2>2. [z EXCEPT !.repo = q, !.pc = z.next].code = ""
    BY <1>1, <1>4 DEF IsRequest, Fields
  <2> QED
    BY <1>6, <2>1, <2>2
<1>10. CASE ListTags(q)
  <2>1. PICK todo : req' = [req EXCEPT ![q] = [z EXCEPT !.pc = "validate", !.valid = <<>>, !.todo = todo]]
    BY <1>5, <1>10 DEF ListTags
  <2>2. [z EXCEPT !.pc = "validate", !.valid = <<>>, !.todo = todo].code = ""
    BY <1>1, <1>4 DEF IsRequest, Fields
  <2> QED
    BY <1>6, <2>1, <2>2
<1>11. CASE onlyAddOnTags(q)
  <2>1. PICK todo, valid : req' = [req EXCEPT ![q] = [z EXCEPT !.todo = todo, !.valid = valid]]
    BY <1>11 DEF onlyAddOnTags
  <2>2. [z EXCEPT !.todo = todo, !.valid = valid].code = ""
    BY <1>1, <1>4 DEF IsRequest, Fields
  <2> QED
    BY <1>6, <2>1, <2>2
<1>12. CASE VersionNotFound(q) \/ ImportFails(q)
    BY <1>5, <1>12 DEF VersionNotFound, ImportFails
<1>13. CASE DeserializeImageManifest(q)
  <2>1. PICK s : req' = [req EXCEPT ![q] = [z EXCEPT !.pc = "fetch", !.package = s]]
    BY <1>5, <1>13 DEF DeserializeImageManifest
  <2>2. [z EXCEPT !.pc = "fetch", !.package = s].code = ""
    BY <1>1, <1>4 DEF IsRequest, Fields
  <2> QED
    BY <1>6, <2>1, <2>2
<1>14. CASE OpenManifest(q) \/ WriteManifest(q)
  <2>1. PICK label : req' = [req EXCEPT ![q] = [z EXCEPT !.pc = label]]
    BY <1>14 DEF OpenManifest, WriteManifest, Go
  <2>2. [z EXCEPT !.pc = label].code = ""
    BY <1>1, <1>4 DEF IsRequest, Fields
  <2> QED
    BY <1>6, <2>1, <2>2
<1>15. CASE ReadManifest(q) \/ ImportImages(q)
  <2>1. PICK s : req' = [req EXCEPT ![q] = Replied(z, "OK", s)]
    BY <1>5, <1>15 DEF ReadManifest, ImportImages, Reply, Replied
  <2>2. Replied(z, "OK", s).code = "OK"
    BY ReplyFacts
  <2> QED
    BY <1>6, <2>1, <2>2
<1>16. CASE ReplaceOld(q)
  <2>1. req' = [req EXCEPT ![q] = [Call(z, "resolve", "pull") EXCEPT !.future = z.package]]
    BY <1>16 DEF ReplaceOld
  <2>2. [Call(z, "resolve", "pull") EXCEPT !.future = z.package].code = ""
    BY <1>1, <1>4 DEF Call, IsRequest, Fields
  <2> QED
    BY <1>6, <2>1, <2>2
<1>17. CASE RefuseFuture(q) \/ PullManifest(q)
    BY <1>4, <1>17
<1> QED
    BY <1>3, <1>7, <1>8, <1>9, <1>10, <1>11, <1>12, <1>13, <1>14, <1>15, <1>16, <1>17 DEF RequestStep

\* A step that refuses the manifest of an update: the old add-on is still there, as
\* nobody else may change it, or another manifest than the checked one was pulled, or
\* it is the schema that the manifest does not conform to.
LEMMA RefusedStep ==
    ASSUME DistributionInv, Next, NEW r \in Requests,
           req[r].op = "update", Active(r), Refuses(req'[r])
    PROVE  \/ installed' # None
           \/ req'[r].future # req'[r].package
           \/ ~ Validate(req'[r].package)
<1> DEFINE q == req[r]
<1>1. /\ IsRequest(q) /\ q.code = "" /\ PurposeInv(q) /\ PackageInv(q) /\ RequestsInv
    BY RequestFacts DEF PurposeInv
<1>2. ~ (PackagerNext /\ Witness)
  <2> SUFFICES ASSUME Witness PROVE FALSE
    OBVIOUS
  <2>1. req'[r] = [q EXCEPT !.seen = @ \cup {tag'[t] : t \in Tags}]
    BY DEF Witness
  <2> QED
    BY <1>1, <2>1 DEF IsRequest, Fields, Refuses
<1>3. PICK o \in Requests : RequestStep(o)
  <2> SUFFICES ASSUME ~ \E o \in Requests : RequestStep(o) PROVE FALSE
    OBVIOUS
  <2>1. ASSUME NEW o \in Requests, NEW x, x.code = ""
        PROVE  req' # [req EXCEPT ![o] = x]
    BY <2>1, OtherCode
  <2>2. ASSUME NEW o \in Requests, NEW code
        PROVE  ~ Answer(o, code)
    BY <2>2, OtherAnswer
  <2>3. ASSUME NEW op, NEW version, NEW next, NEW use
        PROVE  Call(Asked(op, version), next, use).code = ""
    BY IdleFacts DEF Asked, Call, IsRequest, Fields
  <2>4. ASSUME NEW version PROVE [Asked("list", version) EXCEPT !.pc = "names"].code = ""
    BY IdleFacts DEF Asked, IsRequest, Fields
  <2>5. ~ \E o \in Requests : ListAddOns(o)
    BY <2>1, <2>4 DEF ListAddOns
  <2>6. ASSUME NEW o \in Requests, NEW t \in Wanted, GetAddOn(o, t)
        PROVE  FALSE
    <3> DEFINE x == Call(Asked("get", t), "tags", "")
    <3>1. req' = [req EXCEPT ![o] = x]
      BY <2>6 DEF GetAddOn
    <3>2. x.code = ""
      BY IdleFacts DEF Asked, Call, IsRequest, Fields
    <3> HIDE DEF x
    <3> QED
      BY <2>1, <3>1, <3>2
  <2>7. ASSUME NEW o \in Requests, NEW t \in Tags, NEW v \in Verdicts, CreateAddOn(o, t, v)
        PROVE  FALSE
    <3>1. ~ Answer(o, "Unavailable") /\ ~ Answer(o, "AlreadyExists") /\ ~ Answer(o, v)
      BY <2>2
    <3> DEFINE x == Call(Asked("create", t), "resolve", "pull")
    <3>2. req' = [req EXCEPT ![o] = x]
      BY <2>7, <3>1 DEF CreateAddOn
    <3>3. x.code = ""
      BY <2>3
    <3> HIDE DEF x
    <3> QED
      BY <2>1, <3>2, <3>3
  <2>8. ASSUME NEW o \in Requests, NEW t \in Tags, NEW v \in Verdicts, UpdateAddOn(o, t, v)
        PROVE  FALSE
    <3>1. /\ ~ Answer(o, "Unavailable") /\ ~ Answer(o, "error") /\ ~ Answer(o, v)
          /\ ~ Answer(o, "Downgrade") /\ ~ Answer(o, "Configured")
      BY <2>2
    <3> DEFINE x == Call(Asked("update", t), "resolve", "check")
    <3>2. req' = [req EXCEPT ![o] = x]
      BY <2>8, <3>1 DEF UpdateAddOn
    <3>3. x.code = ""
      BY <2>3
    <3> HIDE DEF x
    <3> QED
      BY <2>1, <3>2, <3>3
  <2>9. ~ Crash
    BY IdleFacts DEF Crash, Refuses
  <2> QED
    BY <1>2, <2>5, <2>6, <2>7, <2>8, <2>9 DEF Next, DeviceNext
<1>4. RefuseFuture(r) \/ PullManifest(r)
    BY <1>3, RefusedBy
<1>5. CASE RefuseFuture(r)
    BY <1>5 DEF RefuseFuture, DistributionInv, TogetherInv, CheckedIsThere
<1>6. CASE PullManifest(r)
  <2>1. ~ Fail(r) /\ ~ Answer(r, "ResourceExhausted")
    BY OtherFailure, OtherAnswer
  <2>2. ASSUME NEW fetched
        PROVE  req' # [req EXCEPT ![r] = [q EXCEPT !.pc = "import", !.fetched = fetched]]
    <3>1. [q EXCEPT !.pc = "import", !.fetched = fetched].code = ""
      BY <1>1 DEF IsRequest, Fields
    <3> QED
      BY <3>1, OtherCode
  <2>3. PICK code : /\ Reply(r, code, q.package)
                    /\ ~ Validate(q.package) \/ ~ Accepts(ImageManifest[q.package].uc.manifest)
    BY <1>6, <2>1, <2>2 DEF PullManifest, UcOf
  <2>4. req'[r].future = q.future /\ req'[r].package = q.package
    <3>1. req'[r] = Replied(q, code, q.package)
      BY <1>1, <2>3, OneRequest DEF Reply, Replied
    <3> QED
      BY <3>1, ReplyFacts
  <2>5. Accepts(ImageManifest[q.future].uc.manifest)
    BY <1>1, <1>6 DEF PackageInv, PullManifest
  <2> QED
    BY <2>3, <2>4, <2>5
<1> QED
    BY <1>4, <1>5, <1>6

\* An update that is refused because of its manifest (updateAction) leaves the installed
\* add-on, unless the tag has moved between the two times the registry is asked or the
\* manifest does not conform to the schema.
THEOREM RefusedUpdateKeepsOldHolds == Spec => RefusedUpdateKeepsOld
<1>1. DistributionInv /\ [Next]_vars =>
        [\A r \in Requests :
            req[r].op = "update" /\ Active(r) /\ Refuses(req'[r]) =>
                \/ installed' # None
                \/ req'[r].future # req'[r].package
                \/ ~ Validate(req'[r].package)]_vars
    BY RefusedStep
<1> QED
    BY <1>1, DistributionInvHolds, PTL DEF Spec, RefusedUpdateKeepsOld
=================================================================================
