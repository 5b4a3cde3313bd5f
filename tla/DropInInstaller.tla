---------------------------- MODULE DropInInstaller ----------------------------
(***************************************************************************)
(* internal/aom/fileserver: InstallAllDropInAddOns, which installs the     *)
(* packages somebody has copied into the drop-in directory (the registry   *)
(* of registry/drop_in_addon_registry.go) and then deletes them.           *)
(*                                                                         *)
(* It runs at startup, before the server accepts requests, and later on    *)
(* whenever SWUpdateWatcher reads SUCCESS, side by side with the clients   *)
(* of the server.  They share the scheduler, which AddOnService models in  *)
(* detail: here an operation holds the transaction, changes the manifest   *)
(* of its add-on while it does, and may go on undoing once it has let go.  *)
(***************************************************************************)
EXTENDS Naturals, Sequences

CONSTANTS
    AddOns,         \* repositories of the drop-in directory
    MaxVersion,     \* versions, ordered as GreaterThan does
    Clients,        \* goroutines that serve requests
    Nobody,         \* no transaction is open
    Installer,      \* the goroutine of the file server
    MaxCrashes      \* bound on how often the process dies

ASSUME DropInAssumption ==
    /\ MaxVersion \in Nat
    /\ MaxCrashes \in Nat
    /\ Installer \notin Clients
    /\ Nobody \notin Clients \cup {Installer}

Versions == 1 .. MaxVersion
Absent == 0

VARIABLES
    package,        \* package[a][v]: what the drop-in directory has of it
    repositories,   \* the directories there, empty ones included
    installed,      \* version in the local catalogue, or Absent
    owner,          \* who has the open transaction
    client,         \* what each client is doing, and to which add-on
    serving,        \* does the server accept requests?
    pc,             \* where the installer is
    left,           \* repositories it has still to look at
    current,        \* <<repository, version>> at hand
    deferred,       \* its deferred calls of Delete
    crashes,        \* how often the process has died
    \* history, read by no action
    failed,         \* add-ons whose routine failed in this run
    refused,        \* add-ons for which it got no transaction
    touched,        \* add-ons a client has changed since the run began
    read            \* the tags the run has found in a repository

disk == <<package, repositories>>
loop == <<pc, left, current, deferred>>
history == <<failed, refused, touched, read>>
vars == <<disk, installed, owner, client, serving, loop, crashes, history>>

Nothing == <<>>
Idle == [st |-> "idle"]

TypeOK ==
    /\ package \in [AddOns -> [Versions -> {"none", "partial", "complete"}]]
    /\ repositories \in SUBSET AddOns
    /\ installed \in [AddOns -> 0 .. MaxVersion]
    /\ owner \in Clients \cup {Nobody, Installer}
    /\ client \in [Clients ->
          {Idle} \cup [st : {"working", "undoing"}, addOn : AddOns]]
    /\ serving \in BOOLEAN
    /\ pc \in {"idle", "list", "next", "create", "creating", "check",
               "update", "updating", "undo", "delete"}
    /\ left \in SUBSET AddOns
    /\ current \in {Nothing} \cup (AddOns \X Versions)
    /\ deferred \in Seq(AddOns)
    /\ crashes \in 0 .. MaxCrashes
    /\ failed \in SUBSET AddOns
    /\ refused \in SUBSET AddOns
    /\ touched \in SUBSET AddOns
    /\ read \in [AddOns -> SUBSET Versions]

Init ==
    /\ package = [a \in AddOns |-> [v \in Versions |-> "none"]]
    /\ repositories = {}
    /\ installed = [a \in AddOns |-> Absent]
    /\ owner = Nobody
    /\ client = [c \in Clients |-> Idle]
    /\ serving = FALSE
    /\ pc = "list"
    /\ left = {}
    /\ current = Nothing
    /\ deferred = <<>>
    /\ crashes = 0
    /\ failed = {}
    /\ refused = {}
    /\ touched = {}
    /\ read = [a \in AddOns |-> {}]

A == current[1]
V == current[2]
SetInstalled(a, v) == installed' = [installed EXCEPT ![a] = v]

-------------------------------------------------------------------------------
(* The drop-in directory.  Copying a package takes a while. *)

Tags(a) == {v \in Versions : package[a][v] # "none"}

\* Pull finds a descriptor for this device and every layer it names.
Pullable(a, v) == package[a][v] = "complete"

Latest(tags) == CHOOSE v \in tags : \A w \in tags : v >= w

MakeDirectory(a) ==
    /\ a \notin repositories
    /\ repositories' = repositories \cup {a}
    /\ UNCHANGED <<package, installed, owner, client, serving, loop, history>>

StartCopy(a, v) ==
    /\ a \in repositories
    /\ package[a][v] = "none"
    /\ package' = [package EXCEPT ![a][v] = "partial"]
    /\ UNCHANGED <<repositories, installed, owner, client, serving, loop,
                   history>>

FinishCopy(a, v) ==
    /\ package[a][v] = "partial"
    /\ package' = [package EXCEPT ![a][v] = "complete"]
    /\ UNCHANGED <<repositories, installed, owner, client, serving, loop,
                   history>>

-------------------------------------------------------------------------------
(* Clients of the server *)

ClientBegins(c, a) ==
    /\ serving
    /\ client[c] = Idle
    /\ owner = Nobody
    /\ owner' = c
    /\ client' = [client EXCEPT ![c] = [st |-> "working", addOn |-> a]]
    /\ UNCHANGED <<disk, installed, serving, loop, history>>

ClientWorks(c, v) ==
    /\ owner = c
    /\ SetInstalled(client[c].addOn, v)
    /\ touched' = touched \cup {client[c].addOn}
    /\ UNCHANGED <<disk, owner, client, serving, loop, failed, refused,
                   read>>

ClientCommits(c) ==
    /\ owner = c
    /\ owner' = Nobody
    /\ client' = [client EXCEPT ![c] = Idle]
    /\ UNCHANGED <<disk, installed, serving, loop, history>>

\* done is set before the hooks run.
ClientFails(c) ==
    /\ owner = c
    /\ owner' = Nobody
    /\ client' = [client EXCEPT ![c].st = "undoing"]
    /\ UNCHANGED <<disk, installed, serving, loop, history>>

ClientUndoes(c) ==
    /\ client[c] # Idle
    /\ client[c].st = "undoing"
    /\ \/ SetInstalled(client[c].addOn, Absent)
       \/ UNCHANGED installed
    /\ touched' = touched \cup {client[c].addOn}
    /\ client' = [client EXCEPT ![c] = Idle]
    /\ UNCHANGED <<disk, owner, serving, loop, failed, refused,
                   read>>

-------------------------------------------------------------------------------
(* InstallAllDropInAddOns *)

\* SWUpdateWatcher has read SUCCESS.
Success ==
    /\ pc = "idle"
    /\ pc' = "list"
    /\ UNCHANGED <<disk, installed, owner, client, serving, left, current,
                   deferred, history>>

\* The run is over; at startup the server begins to serve.
RunReturns ==
    /\ pc' = "idle"
    /\ serving' = TRUE
    /\ left' = {}
    /\ current' = Nothing
    /\ deferred' = <<>>

ListRepositories ==
    /\ pc = "list"
    /\ failed' = {}
    /\ refused' = {}
    /\ touched' = {}
    /\ read' = [a \in AddOns |-> {}]
    /\ \/ /\ repositories # {}
          /\ left' = repositories
          /\ pc' = "next"
          /\ UNCHANGED <<current, deferred, serving>>
       \/ repositories = {} /\ RunReturns
    /\ UNCHANGED <<disk, installed, owner, client>>

\* os.ReadDir on the root fails: at startup the process gives up (see Crash).
ListFails ==
    /\ pc = "list"
    /\ serving
    /\ RunReturns
    /\ UNCHANGED <<disk, installed, owner, client, history>>

\* The tags of a repository cannot be read, or there are none.
SkipRepository(a) ==
    /\ pc = "next"
    /\ a \in left
    /\ left' = left \ {a}
    /\ UNCHANGED <<disk, installed, owner, client, serving, pc, current,
                   deferred, history>>

\* Faulty variant: Delete is called at once instead of deferred.
TakeAndDelete(a) ==
    /\ pc = "next"
    /\ a \in left
    /\ Tags(a) # {}
    /\ left' = left \ {a}
    /\ current' = <<a, Latest(Tags(a))>>
    /\ repositories' = repositories \ {a}
    /\ package' = [package EXCEPT ![a] = [v \in Versions |-> "none"]]
    /\ pc' = "create"
    /\ UNCHANGED <<installed, owner, client, serving, deferred, history>>

TakeLatest(a) ==
    /\ pc = "next"
    /\ a \in left
    /\ Tags(a) # {}
    /\ left' = left \ {a}
    /\ current' = <<a, Latest(Tags(a))>>
    /\ deferred' = Append(deferred, a)
    /\ read' = [read EXCEPT ![a] = Tags(a)]
    /\ pc' = "create"
    /\ UNCHANGED <<disk, installed, owner, client, serving, failed, refused,
                   touched>>

AllTaken ==
    /\ pc = "next"
    /\ left = {}
    /\ pc' = "delete"
    /\ UNCHANGED <<disk, installed, owner, client, serving, left, current,
                   deferred, history>>

\* An error is logged, and the loop goes on with the next repository.
LogError ==
    /\ pc' = "next"
    /\ failed' = failed \cup {A}
    /\ UNCHANGED <<disk, client, serving, left, current, deferred, refused,
                   touched, read>>

LogRefusal ==
    /\ pc' = "next"
    /\ refused' = refused \cup {A}
    /\ UNCHANGED <<disk, client, serving, left, current, deferred, failed,
                   touched, read>>

\* Faulty variant: it waits until the transaction of the client is over.
WaitForTransaction(from, to) ==
    /\ pc = from
    /\ owner = Nobody
    /\ owner' = Installer
    /\ pc' = to
    /\ UNCHANGED <<disk, installed, client, serving, left, current, deferred,
                   history>>

CreateTransaction(from, to) ==
    /\ pc = from
    /\ \/ /\ owner = Nobody
          /\ owner' = Installer
          /\ pc' = to
          /\ UNCHANGED <<disk, client, serving, left, current, deferred,
                         history>>
       \/ owner # Nobody /\ UNCHANGED owner /\ LogRefusal
    /\ UNCHANGED installed

CreateAddOnBegins == CreateTransaction("create", "creating")

\* Faulty variant: an add-on that is installed needs no update.
KeepInstalled ==
    /\ pc = "creating"
    /\ owner' = Nobody
    /\ pc' = "next"
    /\ SetInstalled(A, IF installed[A] = Absent THEN V ELSE installed[A])
    /\ UNCHANGED <<disk, client, serving, left, current, deferred, history>>

\* done is set, and the hooks are still to run.
RollbackBegins ==
    /\ pc' = "undo"
    /\ UNCHANGED <<disk, client, serving, left, current, deferred, history>>

\* The hook of the manifest has run or has failed.
RollbackReturns ==
    /\ pc = "undo"
    /\ SetInstalled(A, Absent) \/ UNCHANGED installed
    /\ LogError
    /\ UNCHANGED owner

\* Pull reads the package; what is not there yet makes it fail.
CreateAddOnRoutine ==
    /\ pc = "creating"
    /\ owner' = Nobody
    /\ \/ /\ installed[A] # Absent
          /\ pc' = "check"
          /\ UNCHANGED <<disk, installed, client, serving, left, current,
                         deferred, history>>
       \/ /\ installed[A] = Absent
          /\ Pullable(A, V)
          /\ SetInstalled(A, V)
          /\ pc' = "next"
          /\ UNCHANGED <<disk, client, serving, left, current, deferred,
                         history>>
       \/ /\ installed[A] = Absent
          /\ \E v \in {Absent, V} : SetInstalled(A, v)
          /\ RollbackBegins

IsValidUpdate ==
    /\ pc = "check"
    /\ \/ /\ installed[A] # Absent /\ V > installed[A]
          /\ pc' = "update"
          /\ UNCHANGED failed
       \/ /\ installed[A] # Absent /\ V <= installed[A]
          /\ pc' = "next"
          /\ UNCHANGED failed
       \/ /\ installed[A] = Absent
          /\ pc' = "next"
          /\ failed' = failed \cup {A}
    /\ UNCHANGED <<disk, installed, owner, client, serving, left, current,
                   deferred, refused, touched, read>>

UpdateAddOnBegins == CreateTransaction("update", "updating")

\* ReplaceAddOnRoutine: an update that fails leaves the old version, when it
\* fails early (that is how it refuses codesys add-ons), or none.  It compares
\* for equality only, and then configures.
UpdateAddOnRoutine ==
    /\ pc = "updating"
    /\ owner' = Nobody
    /\ \/ /\ installed[A] # Absent
          /\ Pullable(A, V) \/ installed[A] = V
          /\ SetInstalled(A, V)
          /\ pc' = "next"
          /\ UNCHANGED <<disk, client, serving, left, current, deferred,
                         history>>
       \/ /\ \/ \E v \in {Absent, V} : SetInstalled(A, v)
             \/ UNCHANGED installed
          /\ RollbackBegins

\* The deferred calls run in reverse; RemoveAll takes all tags, and its error
\* is ignored.
Delete ==
    LET n == Len(deferred) IN
    /\ pc = "delete"
    /\ n > 0
    /\ deferred' = SubSeq(deferred, 1, n - 1)
    /\ \/ /\ repositories' = repositories \ {deferred[n]}
          /\ package' = [package EXCEPT ![deferred[n]] =
                            [v \in Versions |-> "none"]]
       \/ UNCHANGED disk
    /\ UNCHANGED <<installed, owner, client, serving, pc, left, current,
                   history>>

InstallReturns ==
    /\ pc = "delete"
    /\ deferred = <<>>
    /\ RunReturns
    /\ UNCHANGED <<disk, installed, owner, client, history>>

\* The process dies, at any step, and is started again.  What an open
\* transaction was doing stays as it is.
Crash ==
    /\ crashes < MaxCrashes
    /\ crashes' = crashes + 1
    /\ \/ pc \in {"creating", "updating"} /\ \E v \in {Absent, V} : SetInstalled(A, v)
       \/ UNCHANGED installed
    /\ owner' = Nobody
    /\ client' = [c \in Clients |-> Idle]
    /\ serving' = FALSE
    /\ pc' = "list"
    /\ left' = {}
    /\ current' = Nothing
    /\ deferred' = <<>>
    /\ UNCHANGED <<disk, history>>

-------------------------------------------------------------------------------

InstallAllDropInAddOns ==
    \/ ListRepositories \/ ListFails
    \/ \E a \in AddOns : SkipRepository(a) \/ TakeLatest(a)
    \/ AllTaken
    \/ CreateAddOnBegins \/ CreateAddOnRoutine
    \/ IsValidUpdate
    \/ UpdateAddOnBegins \/ UpdateAddOnRoutine
    \/ RollbackReturns
    \/ Delete \/ InstallReturns

Copy ==
    \E a \in AddOns :
        MakeDirectory(a) \/ \E v \in Versions : StartCopy(a, v) \/ FinishCopy(a, v)

ClientSteps ==
    \E c \in Clients :
        \/ \E a \in AddOns : ClientBegins(c, a)
        \/ \E v \in 0 .. MaxVersion : ClientWorks(c, v)
        \/ ClientCommits(c) \/ ClientFails(c) \/ ClientUndoes(c)

Installing == InstallAllDropInAddOns /\ UNCHANGED crashes

Next ==
    \/ Copy /\ UNCHANGED crashes
    \/ ClientSteps /\ UNCHANGED crashes
    \/ Success /\ UNCHANGED crashes
    \/ Installing
    \/ Crash

Spec == Init /\ [][Next]_vars

\* Nobody has to copy anything, but the installer keeps going.
FairSpec == Spec /\ WF_vars(Installing)

-------------------------------------------------------------------------------
(* Properties *)

Removed(a, v) == package[a][v] # "none" /\ package'[a][v] = "none"

\* A package the run has read, when it took the latest tag of the repository, is
\* deleted only when its add-on is installed in that version or a newer one, the
\* attempt failed or was refused, or a client has changed the add-on since: a
\* crash, at whatever step, makes the next run deal with the package again, and a
\* package that is older than the installed add-on is not mistaken for a new one.
\* It is not said of a version that is copied between TakeLatest and Delete: Delete
\* removes the whole repository (RemoveAll, drop_in_addon_registry.go:106), and with
\* it what nobody has read.  CopiedAppsAreTried speaks of those.
HandledBeforeDeleted ==
    [][\A a \in AddOns, v \in Versions :
         Removed(a, v) /\ v \in read[a] =>
            a \in failed \cup refused \cup touched \/ installed[a] >= v]_vars

\* While the installer holds the transaction nobody else has it, and the
\* package it works on is there: a run deletes what it has taken only when it
\* is through with all of it.
PackageThereWhileInstalling ==
    pc \in {"creating", "updating"} =>
        /\ owner = Installer
        /\ package[A][V] # "none"

\* "Reading a 'SUCCESS' message from the socket start the installation of all
\* drop-in add-ons": no complete package is deleted that no attempt was made to
\* install.
CopiedAppsAreTried ==
    [][\A a \in AddOns, v \in Versions :
         Removed(a, v) /\ package[a][v] = "complete" =>
            a \in touched \/ a \in failed \/ installed[a] >= v]_vars

\* A run comes to its end, whoever holds the transaction.
EveryRunEnds == pc # "idle" ~> pc = "idle"
================================================================================
