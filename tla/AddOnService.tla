------------------------------ MODULE AddOnService ------------------------------
(***************************************************************************)
(* internal/aom/service and the operations of internal/aom/server that     *)
(* change add-ons: CreateAddOn, UpdateAddOn and DeleteAddOn, the routines  *)
(* they run inside a transaction, step by step, and the rollback hooks     *)
(* those routines leave behind.                                            *)
(*                                                                         *)
(* Every call to docker, the registry, the file system or systemd may      *)
(* fail, before or after it took effect, and the process may crash at any  *)
(* step; the resources of AddOnResources outlive it.                       *)
(*                                                                         *)
(* The transaction is taken at the grain of UndoLog, which Transaction is  *)
(* shown to implement: one transaction is open at a time, but the hooks of *)
(* a transaction that is being undone may run while the next one is open.  *)
(***************************************************************************)
EXTENDS AddOnResources

CONSTANTS
    Clients,        \* goroutines that serve requests
    Codesys         \* the add-ons isCodesys recognises

ASSUME CodesysAssumption == Codesys \subseteq AddOns

VARIABLES
    pc,             \* where each goroutine is
    req,            \* its request: operation, add-on and version
    old,            \* the version GetAddOn found when the routine began
    todo,           \* what the loop at hand has still to work on
    tx,             \* its transaction
    hooks,          \* Tx.rollbackHooks
    affected,       \* Tx.affected.Operation
    \* history, read by no action
    overlap,        \* did a transaction begin during the rollback of another?
    leaked          \* add-ons of which a rollback hook could not remove a part

control == <<pc, req, old, todo, tx, hooks, affected, overlap, leaked>>
vars == <<resources, control>>

Requests ==
    [op : {"Create", "Update"}, addOn : AddOns, version : Versions]
        \cup [op : {"Delete"}, addOn : AddOns]
NoRequest == [op |-> "none"]
HookNames == {"manifest", "images", "stack", "iam", "routes"}
Operations == {"none", "Installing", "Deleting", "Updating", "Configuring"}
Points == {"idle", "validate", "begin",
           "create", "remove", "fetch", "write", "check", "capable", "import",
           "deploy", "up", "permit", "publish", "prune", "reply", "commit",
           "replace", "future", "configure", "reup",
           "delete", "down", "unload", "unmount", "unpublish", "revoke",
           "forget", "rollback"}

TypeOK ==
    /\ ResourcesTypeOK
    /\ pc \in [Clients -> Points]
    /\ req \in [Clients -> Requests \cup {NoRequest}]
    /\ old \in [Clients -> 0 .. MaxVersion]
    /\ todo \in [Clients -> SUBSET (Images \cup RouteIds)]
    /\ tx \in [Clients -> {"none", "open", "undoing"}]
    /\ hooks \in [Clients -> Seq(HookNames)]
    /\ affected \in [Clients -> Operations]
    /\ overlap \in BOOLEAN
    /\ leaked \in SUBSET AddOns

Init ==
    /\ ResourcesInit
    /\ pc = [c \in Clients |-> "idle"]
    /\ req = [c \in Clients |-> NoRequest]
    /\ old = [c \in Clients |-> Absent]
    /\ todo = [c \in Clients |-> {}]
    /\ tx = [c \in Clients |-> "none"]
    /\ hooks = [c \in Clients |-> <<>>]
    /\ affected = [c \in Clients |-> "none"]
    /\ overlap = FALSE
    /\ leaked = {}

A(c) == req[c].addOn
V(c) == req[c].version

-------------------------------------------------------------------------------
(* How a goroutine moves.  A step that goes on keeps its transaction; an   *)
(* error makes the handler return, and its deferred Rollback begin.        *)

At(c, p) == pc[c] = p
Goto(c, p) == pc' = [pc EXCEPT ![c] = p]
Subscribe(c, h) == hooks' = [hooks EXCEPT ![c] = Append(@, h)]
Todo(c, s) == todo' = [todo EXCEPT ![c] = s]

Continue(c, p) ==
    /\ Goto(c, p)
    /\ UNCHANGED <<req, old, tx, affected, overlap, leaked>>

Proceed(c, p) == Continue(c, p) /\ UNCHANGED <<todo, hooks>>

Fail(c) ==
    /\ Goto(c, "rollback")
    /\ tx' = [tx EXCEPT ![c] = "undoing"]
    /\ Todo(c, {})
    /\ UNCHANGED <<req, old, hooks, affected, overlap, leaked>>

Return(c) ==
    /\ Goto(c, "idle")
    /\ req' = [req EXCEPT ![c] = NoRequest]
    /\ old' = [old EXCEPT ![c] = Absent]
    /\ Todo(c, {})
    /\ tx' = [tx EXCEPT ![c] = "none"]
    /\ hooks' = [hooks EXCEPT ![c] = <<>>]
    /\ affected' = [affected EXCEPT ![c] = "none"]
    /\ UNCHANGED <<overlap, leaked>>

\* Faulty variant: the last one to set it wins.
OverwriteAddOnContext(c, o) == affected' = [affected EXCEPT ![c] = o]

\* setAddOnContext: the first one to set it wins.
SetAddOnContext(c, o) ==
    affected' = [affected EXCEPT ![c] = IF @ = "none" THEN o ELSE @]

-------------------------------------------------------------------------------
(* The handlers up to the open transaction *)

Request(c, r) ==
    /\ At(c, "idle")
    /\ req' = [req EXCEPT ![c] = r]
    /\ Goto(c, IF r.op = "Update" THEN "validate" ELSE "begin")
    /\ UNCHANGED <<resources, old, todo, tx, hooks, affected, overlap, leaked>>

\* UpdateAddOn looks at the current version before it has a transaction.
IsValidUpdate(c) ==
    /\ At(c, "validate")
    /\ \/ /\ Readable(A(c)) /\ V(c) >= manifest[A(c)]
          /\ Proceed(c, "begin")
       \/ /\ ~(Readable(A(c)) /\ V(c) >= manifest[A(c)])
          /\ Return(c)
    /\ UNCHANGED resources

TransactionOpen == \E d \in Clients : tx[d] = "open"

\* Faulty variant: the request waits until the transaction is over.
QueueForTransaction(c) == FALSE /\ UNCHANGED vars

RefuseTransaction(c) ==
    /\ At(c, "begin")
    /\ TransactionOpen
    /\ Return(c)
    /\ UNCHANGED resources

\* Faulty variant: an open transaction is no obstacle.
InitializeAnyway(c) ==
    /\ At(c, "begin")
    /\ tx' = [tx EXCEPT ![c] = "open"]
    /\ overlap' = (overlap \/ \E d \in Clients : tx[d] = "undoing")
    /\ Goto(c, CASE req[c].op = "Create" -> "create"
                 [] req[c].op = "Update" -> "replace"
                 [] req[c].op = "Delete" -> "delete")
    /\ UNCHANGED <<resources, req, old, todo, hooks, affected, leaked>>

InitializeTransaction(c) ==
    /\ At(c, "begin")
    /\ ~TransactionOpen
    /\ tx' = [tx EXCEPT ![c] = "open"]
    /\ overlap' = (overlap \/ \E d \in Clients : tx[d] = "undoing")
    /\ Goto(c, CASE req[c].op = "Create" -> "create"
                 [] req[c].op = "Update" -> "replace"
                 [] req[c].op = "Delete" -> "delete")
    /\ UNCHANGED <<resources, req, old, todo, hooks, affected, leaked>>

-------------------------------------------------------------------------------
(* CreateAddOnRoutine *)

IsAddOnInstalled(c) ==
    /\ At(c, "create")
    /\ \/ /\ manifest[A(c)] = Absent
          /\ Subscribe(c, "manifest")
          /\ Continue(c, "remove") /\ UNCHANGED todo
       \/ /\ manifest[A(c)] # Absent
          /\ Fail(c)
    /\ UNCHANGED resources

\* PullAddOn: the directory is emptied, the manifest layer is fetched and its
\* file written, which takes a while, and then GetAddOn reads it back.
PullRemovesOld(c) ==
    /\ At(c, "remove")
    /\ \/ DeleteAddOnDir(A(c)) /\ Proceed(c, "fetch")
       \/ UNCHANGED manifest /\ Fail(c)
    /\ UNCHANGED <<stack, images, volumes, iam, routes>>

PullFetches(c) ==
    /\ At(c, "fetch")
    /\ \/ SetManifest(A(c), Corrupt) /\ Proceed(c, "write")
       \/ UNCHANGED manifest /\ Fail(c)
    /\ UNCHANGED <<stack, images, volumes, iam, routes>>

\* A layer that cannot be fetched is skipped: any part of the images is there.
PullWrites(c) ==
    /\ At(c, "write")
    /\ \/ /\ SetManifest(A(c), V(c))
          /\ \E fetched \in SUBSET ImagesOf[A(c)][V(c)] : Todo(c, fetched)
          /\ Continue(c, "check") /\ UNCHANGED hooks
       \/ (DeleteAddOnDir(A(c)) \/ UNCHANGED manifest) /\ Fail(c)
    /\ UNCHANGED <<stack, images, volumes, iam, routes>>

\* Disk space, manifest schema and manifest version.
CheckAddOn(c) ==
    /\ At(c, "check")
    /\ \/ /\ SetAddOnContext(c, "Installing")
          /\ Goto(c, "capable")
          /\ UNCHANGED <<req, old, todo, tx, hooks, overlap, leaked>>
       \/ Fail(c)
    /\ UNCHANGED resources

CheckCapabilities(c) ==
    /\ At(c, "capable")
    /\ \/ /\ Subscribe(c, "images")
          /\ Continue(c, "import") /\ UNCHANGED todo
       \/ Fail(c)
    /\ UNCHANGED resources

ImportImages(c) ==
    /\ At(c, "import")
    /\ \/ \E i \in todo[c] :
             /\ ImportDockerImage(i)
             /\ Todo(c, todo[c] \ {i})
             /\ Continue(c, "import") /\ UNCHANGED hooks
       \/ \E i \in todo[c] :
             (ImportDockerImage(i) \/ UNCHANGED images) /\ Fail(c)
       \/ /\ todo[c] = {}
          /\ Proceed(c, "deploy") /\ UNCHANGED images
    /\ UNCHANGED <<manifest, stack, volumes, iam, routes>>

\* adaptFeaturesToSystem and GetDockerComposeFromManifest
Deploy(c) ==
    /\ At(c, "deploy")
    /\ \/ /\ Subscribe(c, "stack")
          /\ Continue(c, "up") /\ UNCHANGED todo
       \/ Fail(c)
    /\ UNCHANGED resources

StackUp(c) ==
    /\ At(c, "up")
    /\ \/ /\ CreateStackWithDockerCompose(A(c), V(c))
          /\ Subscribe(c, "iam")
          /\ Continue(c, "permit") /\ UNCHANGED todo
       \/ FailToCreateStack(A(c), V(c)) /\ Fail(c)
    /\ UNCHANGED <<manifest, iam, routes>>

\* Faulty variant: the publish section is not taken from the manifest.
PermitWithoutRoutes(c) ==
    /\ At(c, "permit")
    /\ \/ /\ WritePermission(A(c))
          /\ Subscribe(c, "routes")
          /\ Continue(c, "publish") /\ UNCHANGED todo
       \/ (WritePermission(A(c)) \/ UNCHANGED iam) /\ Fail(c)
    /\ UNCHANGED <<manifest, stack, images, volumes, routes>>

CreateIamPermission(c) ==
    /\ At(c, "permit")
    /\ \/ /\ WritePermission(A(c))
          /\ Subscribe(c, "routes")
          /\ Todo(c, RoutesOf[A(c)][V(c)])
          /\ Continue(c, "publish")
       \/ (WritePermission(A(c)) \/ UNCHANGED iam) /\ Fail(c)
    /\ UNCHANGED <<manifest, stack, images, volumes, routes>>

CreateProxyRoutes(c) ==
    /\ At(c, "publish")
    /\ \/ \E id \in todo[c] :
             /\ CreateRoute(A(c), id)
             /\ Todo(c, todo[c] \ {id})
             /\ Continue(c, "publish") /\ UNCHANGED hooks
       \/ \E id \in todo[c] :
             (CreateRoute(A(c), id) \/ UNCHANGED routes) /\ Fail(c)
       \/ /\ todo[c] = {}
          /\ Proceed(c, IF req[c].op = "Update" THEN "prune" ELSE "commit")
          /\ UNCHANGED routes
    /\ UNCHANGED <<manifest, stack, images, volumes, iam>>

-------------------------------------------------------------------------------
(* ReplaceAddOnRoutine, updateAction and configureAction *)

Refused(c) == A(c) \in Codesys \/ ~Readable(A(c))

ReplaceAddOn(c) ==
    /\ At(c, "replace")
    /\ \/ Refused(c) /\ Fail(c)
       \/ /\ ~Refused(c)
          /\ old' = [old EXCEPT ![c] = manifest[A(c)]]
          /\ \/ /\ manifest[A(c)] = V(c)
                /\ SetAddOnContext(c, "Configuring")
                /\ Goto(c, "configure")
             \/ /\ manifest[A(c)] # V(c)
                /\ SetAddOnContext(c, "Updating")
                /\ Goto(c, "future")
          /\ UNCHANGED <<req, todo, tx, hooks, overlap, leaked>>
    /\ UNCHANGED resources

\* The manifest of the new version is fetched and checked, and the settings
\* taken over, before anything is deleted.
FetchFutureManifest(c) ==
    /\ At(c, "future")
    /\ Proceed(c, "down") \/ Fail(c)
    /\ UNCHANGED resources

Configure(c) ==
    /\ At(c, "configure")
    /\ \/ /\ DeleteAddOnStack(A(c))
          /\ Subscribe(c, "stack")
          /\ Continue(c, "reup") /\ UNCHANGED todo
       \/ (DeleteAddOnStack(A(c)) \/ UNCHANGED stack) /\ Fail(c)
    /\ UNCHANGED <<manifest, images, volumes, iam, routes>>

ConfigureUp(c) ==
    /\ At(c, "reup")
    /\ \/ CreateStackWithDockerCompose(A(c), V(c)) /\ Proceed(c, "reply")
       \/ FailToCreateStack(A(c), V(c)) /\ Fail(c)
    /\ UNCHANGED <<manifest, iam, routes>>

\* The volumes only the old version has.
RemoveOldVolumes(c) ==
    /\ At(c, "prune")
    /\ UNCHANGED <<manifest, stack, images, iam, routes>>
    /\ \/ RemoveUnusedVolumes(A(c), old[c]) /\ Proceed(c, "reply")
       \/ FailToRemoveVolumes(A(c), old[c]) /\ Fail(c)

\* UpdateAddOn reads the add-on, its status and its environment for the
\* answer; an error there still rolls the finished update back.
Reply(c) ==
    /\ At(c, "reply")
    /\ \/ Readable(A(c)) /\ Proceed(c, "commit")
       \/ Fail(c)
    /\ UNCHANGED resources

-------------------------------------------------------------------------------
(* DeleteAddOnRoutine and deleteAddOnResources, the latter with the old    *)
(* version's manifest for an update as well.                               *)

DeleteAddOn(c) ==
    /\ At(c, "delete")
    /\ \/ Refused(c) /\ Fail(c)
       \/ /\ ~Refused(c)
          /\ old' = [old EXCEPT ![c] = manifest[A(c)]]
          /\ SetAddOnContext(c, "Deleting")
          /\ Goto(c, "down")
          /\ UNCHANGED <<req, todo, tx, hooks, overlap, leaked>>
    /\ UNCHANGED resources

StackDown(c) ==
    /\ At(c, "down")
    /\ \/ /\ DeleteAddOnStack(A(c))
          /\ Todo(c, ImagesOf[A(c)][old[c]])
          /\ Continue(c, "unload") /\ UNCHANGED hooks
       \/ (DeleteAddOnStack(A(c)) \/ UNCHANGED stack) /\ Fail(c)
    /\ UNCHANGED <<manifest, images, volumes, iam, routes>>

\* Faulty variant: an update deletes the volumes as well.
DeleteImagesThenVolumes(c) ==
    /\ At(c, "unload")
    /\ \/ \E i \in todo[c] :
             /\ DeleteDockerImage(i)
             /\ Todo(c, todo[c] \ {i})
             /\ Continue(c, "unload") /\ UNCHANGED hooks
       \/ /\ todo[c] = {}
          /\ Proceed(c, "unmount") /\ UNCHANGED images
    /\ UNCHANGED <<manifest, stack, volumes, iam, routes>>

DeleteImages(c) ==
    /\ At(c, "unload")
    /\ \/ \E i \in todo[c] :
             /\ DeleteDockerImage(i)
             /\ Todo(c, todo[c] \ {i})
             /\ Continue(c, "unload") /\ UNCHANGED hooks
       \/ \E i \in todo[c] :
             (DeleteDockerImage(i) \/ UNCHANGED images) /\ Fail(c)
       \/ /\ todo[c] = {}
          /\ \/ /\ req[c].op = "Delete"
                /\ Proceed(c, "unmount")
             \/ /\ req[c].op = "Update"
                /\ Todo(c, RoutesOf[A(c)][old[c]])
                /\ Continue(c, "unpublish") /\ UNCHANGED hooks
          /\ UNCHANGED images
    /\ UNCHANGED <<manifest, stack, volumes, iam, routes>>

DeleteVolumes(c) ==
    /\ At(c, "unmount")
    /\ UNCHANGED <<manifest, stack, images, iam, routes>>
    /\ \/ /\ RemoveUnusedVolumes(A(c), old[c])
          /\ Todo(c, RoutesOf[A(c)][old[c]])
          /\ Continue(c, "unpublish") /\ UNCHANGED hooks
       \/ FailToRemoveVolumes(A(c), old[c]) /\ Fail(c)

DeleteProxyRoutes(c) ==
    /\ At(c, "unpublish")
    /\ \/ \E id \in todo[c] :
             /\ DeleteRoute(A(c), id)
             /\ Todo(c, todo[c] \ {id})
             /\ Continue(c, "unpublish") /\ UNCHANGED hooks
       \/ \E id \in todo[c] :
             (DeleteRoute(A(c), id) \/ UNCHANGED routes) /\ Fail(c)
       \/ /\ todo[c] = {}
          /\ Proceed(c, "revoke") /\ UNCHANGED routes
    /\ UNCHANGED <<manifest, stack, images, volumes, iam>>

DeleteIamPermission(c) ==
    /\ At(c, "revoke")
    /\ \/ DeletePermission(A(c)) /\ Proceed(c, "forget")
       \/ (DeletePermission(A(c)) \/ UNCHANGED iam) /\ Fail(c)
    /\ UNCHANGED <<manifest, stack, images, volumes, routes>>

DeleteManifest(c) ==
    /\ At(c, "forget")
    /\ \/ /\ DeleteAddOnDir(A(c))
          /\ Proceed(c, IF req[c].op = "Update" THEN "create" ELSE "commit")
       \/ (DeleteAddOnDir(A(c)) \/ UNCHANGED manifest) /\ Fail(c)
    /\ UNCHANGED <<stack, images, volumes, iam, routes>>

-------------------------------------------------------------------------------
(* The end of a transaction, and of the process *)

Commit(c) ==
    /\ At(c, "commit")
    /\ Return(c)
    /\ UNCHANGED resources

\* Hooks ignore the errors of the calls they make.
Leak(a) == leaked' = leaked \cup {a}

UndoRoutes(a, v) ==
    /\ \/ /\ routes' = [routes EXCEPT ![a] = @ \ RoutesOf[a][v]]
          /\ UNCHANGED leaked
       \/ /\ \E ids \in SUBSET RoutesOf[a][v] :
                routes' = [routes EXCEPT ![a] = @ \ ids]
          /\ Leak(a)
    /\ UNCHANGED <<manifest, stack, images, volumes, iam>>

UndoPermission(a) ==
    /\ \/ DeletePermission(a) /\ UNCHANGED leaked
       \/ UNCHANGED iam /\ Leak(a)
    /\ UNCHANGED <<manifest, stack, images, volumes, routes>>

\* The volumes are tried even when the stack could not be taken down.
UndoStack(a, v) ==
    /\ \/ DeleteAddOnStack(a) /\ UNCHANGED leaked
       \/ UNCHANGED stack /\ Leak(a)
    /\ FailToRemoveVolumes(a, v)
    /\ UNCHANGED <<manifest, images, iam, routes>>

\* DeleteDockerImages gives up at the first image it cannot remove.
UndoImages(a, v) ==
    /\ \/ /\ \A i \in ImagesOf[a][v] \cap images : ~InUse(i)
          /\ images' = images \ ImagesOf[a][v]
          /\ UNCHANGED leaked
       \/ /\ \E removed \in SUBSET {i \in ImagesOf[a][v] : ~InUse(i)} :
                images' = images \ removed
          /\ Leak(a)
    /\ UNCHANGED <<manifest, stack, volumes, iam, routes>>

UndoManifest(a) ==
    /\ \/ DeleteAddOnDir(a) /\ UNCHANGED leaked
       \/ UNCHANGED manifest /\ Leak(a)
    /\ UNCHANGED <<stack, images, volumes, iam, routes>>

Undo(h, a, v) ==
    \/ h = "routes" /\ UndoRoutes(a, v)
    \/ h = "iam" /\ UndoPermission(a)
    \/ h = "stack" /\ UndoStack(a, v)
    \/ h = "images" /\ UndoImages(a, v)
    \/ h = "manifest" /\ UndoManifest(a)

\* Faulty variant: the oldest hook first.
RunOldestHook(c) ==
    LET n == Len(hooks[c]) IN
    /\ At(c, "rollback")
    /\ n > 0
    /\ Undo(hooks[c][1], A(c), V(c))
    /\ hooks' = [hooks EXCEPT ![c] = SubSeq(@, 2, n)]
    /\ UNCHANGED <<pc, req, old, todo, tx, affected, overlap>>

RunHook(c) ==
    LET n == Len(hooks[c]) IN
    /\ At(c, "rollback")
    /\ n > 0
    /\ Undo(hooks[c][n], A(c), V(c))
    /\ hooks' = [hooks EXCEPT ![c] = SubSeq(@, 1, n - 1)]
    /\ UNCHANGED <<pc, req, old, todo, tx, affected, overlap>>

RollbackReturns(c) ==
    /\ At(c, "rollback")
    /\ hooks[c] = <<>>
    /\ Return(c)
    /\ UNCHANGED resources

\* The process dies and is started again: nothing of a transaction is kept.
Crash ==
    /\ \E c \in Clients : tx[c] # "none"
    /\ pc' = [c \in Clients |-> "idle"]
    /\ req' = [c \in Clients |-> NoRequest]
    /\ old' = [c \in Clients |-> Absent]
    /\ todo' = [c \in Clients |-> {}]
    /\ tx' = [c \in Clients |-> "none"]
    /\ hooks' = [c \in Clients |-> <<>>]
    /\ affected' = [c \in Clients |-> "none"]
    /\ UNCHANGED <<resources, overlap, leaked>>

-------------------------------------------------------------------------------

CreateAddOnRoutine(c) ==
    \/ IsAddOnInstalled(c) \/ PullRemovesOld(c) \/ PullFetches(c)
    \/ PullWrites(c) \/ CheckAddOn(c) \/ CheckCapabilities(c)
    \/ ImportImages(c) \/ Deploy(c)
    \/ StackUp(c) \/ CreateIamPermission(c) \/ CreateProxyRoutes(c)

ReplaceAddOnRoutine(c) ==
    \/ ReplaceAddOn(c) \/ FetchFutureManifest(c) \/ Configure(c)
    \/ ConfigureUp(c) \/ RemoveOldVolumes(c) \/ Reply(c)

DeleteAddOnRoutine(c) ==
    \/ DeleteAddOn(c) \/ StackDown(c) \/ DeleteImages(c) \/ DeleteVolumes(c)
    \/ DeleteProxyRoutes(c) \/ DeleteIamPermission(c) \/ DeleteManifest(c)

Handler(c) ==
    \/ IsValidUpdate(c) \/ RefuseTransaction(c) \/ InitializeTransaction(c)
    \/ CreateAddOnRoutine(c) \/ ReplaceAddOnRoutine(c) \/ DeleteAddOnRoutine(c)
    \/ Commit(c) \/ RunHook(c) \/ RollbackReturns(c)

Next ==
    \/ \E c \in Clients : (\E r \in Requests : Request(c, r)) \/ Handler(c)
    \/ Crash

Spec == Init /\ [][Next]_vars

-------------------------------------------------------------------------------
(* Safety *)

Owns(a, i) == Readable(a) /\ i \in ImagesOf[a][manifest[a]]
LeftBy(a, i) == a \in leaked /\ \E v \in Versions : i \in ImagesOf[a][v]

\* Whatever of an add-on exists on the device belongs to the manifest that is
\* in the local catalogue: containers, routes and permission of no other
\* version, and no image nobody refers to.  The routines write the manifest
\* first and delete it last, hooks run in reverse, and so the add-on can still
\* be listed and deleted after a failure or a crash at any step.  The only
\* ways out are a hook whose call fails, and a transaction that begins while
\* the rollback of the last one is running.
NoOrphans ==
    ~overlap =>
        /\ \A a \in AddOns \ leaked :
              /\ stack[a] # Absent => manifest[a] = stack[a]
              /\ a \in iam => Readable(a)
              /\ \A id \in routes[a] :
                    Readable(a) /\ id \in RoutesOf[a][manifest[a]]
        /\ \A i \in images : \E a \in AddOns : Owns(a, i) \/ LeftBy(a, i)

Deployed(a, v) ==
    /\ manifest[a] = v
    /\ stack[a] = v
    /\ VolumesOf[a][v] \subseteq volumes[a]
    /\ ImagesOf[a][v] \subseteq images

Gone(a, v) ==
    /\ manifest[a] = Absent
    /\ stack[a] = Absent
    /\ a \notin iam
    /\ routes[a] \cap RoutesOf[a][v] = {}
    /\ volumes[a] \cap VolumesOf[a][v] = {}
    /\ ImagesOf[a][v] \cap images = {}

\* An operation that is about to commit has done all of its work, also when it
\* took up what an earlier failure or crash had left half done.
CommitMeansDone ==
    ~overlap =>
        \A c \in Clients :
            At(c, "commit") =>
                CASE affected[c] = "Deleting" -> Gone(A(c), old[c])
                  [] affected[c] = "Configuring" -> Deployed(A(c), V(c))
                  [] OTHER -> /\ Deployed(A(c), V(c))
                              /\ A(c) \in iam
                              /\ RoutesOf[A(c)][V(c)] \subseteq routes[A(c)]

\* An update deletes the add-on "except volumes" and prunes the volumes of the
\* old version afterwards: while its transaction is open it removes no volume
\* that the new version declares.
UpdateKeepsData ==
    [][~overlap =>
         \A c \in Clients :
            tx[c] = "open" /\ req[c].op = "Update" =>
                VolumesOf[A(c)][V(c)] \cap volumes[A(c)] \subseteq volumes'[A(c)]]_vars

\* Tx.affected is "a lazy immutable property": the routine that an update
\* shares with an installation does not turn UPDATING into INSTALLING.
StatusOfWholeOperation ==
    \A c \in Clients : affected[c] = "Installing" => req[c].op = "Create"

\* "Requested version needs to be greater than or equal to the current
\* version": no add-on is replaced by an older version of it.
NoDowngrade ==
    [][\A c \in Clients :
         At(c, "replace") /\ pc'[c] = "future" => V(c) >= manifest[A(c)]]_vars

\* A handler that has a request can always take its next step, whatever the
\* other handlers are doing and wherever they failed: a request that finds a
\* transaction open is refused and not queued, and a rollback waits for nobody.
NoHandlerWaits == \A c \in Clients : ~At(c, "idle") => ENABLED Handler(c)
================================================================================
