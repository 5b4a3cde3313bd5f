------------------------------ MODULE VolumeDriver ------------------------------
(***************************************************************************)
(* internal/aom/docker: the volume plugins localPublicDriver and           *)
(* localPublicAccessDriver.  Docker sends them requests over a socket,     *)
(* each of which is served by a goroutine of its own.  They share a map of *)
(* volumes and a mutex, and save the map to a state file, from which it is *)
(* restored when the process starts again.                                 *)
(*                                                                         *)
(* The two drivers differ in one thing: a volume of localPublicDriver has  *)
(* a directory of its own, which is made and removed with it.              *)
(***************************************************************************)
EXTENDS Naturals

CONSTANTS
    Workers,            \* goroutines that serve requests
    Names,              \* names of volumes
    Nobody,             \* the mutex is free
    OwnDirectory        \* TRUE for localPublicDriver

ASSUME VolumeDriverAssumption ==
    /\ Nobody \notin Workers
    /\ OwnDirectory \in BOOLEAN

VARIABLES
    volumes,        \* names in driver.volumes; the mountpoint follows from it
    dirs,           \* names whose directory exists
    file,           \* names in the state file
    torn,           \* is it cut off, so that it cannot be parsed?
    mutex,          \* who holds driver.mutex
    pc,             \* where each goroutine is
    name,           \* the volume its request is about
    removing,       \* is the request a Remove?
    \* history, read by no action
    unsaved,        \* has the last saveState failed?
    ghosts          \* volumes a restart has found without a directory

request == <<pc, name, removing>>
vars == <<volumes, dirs, file, torn, mutex, request, unsaved, ghosts>>

\* The points at which a goroutine is about to read, or to write, the map.
Reading == {"get", "getvolume", "lookup", "list", "find", "exists", "rmdir",
            "save"}
Writing == {"insert", "delete"}
Points == Reading \cup Writing \cup {"idle", "lock", "mkdir", "chown", "write"}

TypeOK ==
    /\ volumes \in SUBSET Names
    /\ dirs \in SUBSET Names
    /\ file \in SUBSET Names
    /\ torn \in BOOLEAN
    /\ mutex \in Workers \cup {Nobody}
    /\ pc \in [Workers -> Points]
    /\ name \in [Workers -> Names]
    /\ removing \in [Workers -> BOOLEAN]
    /\ unsaved \in BOOLEAN
    /\ ghosts \in SUBSET Names

Init ==
    /\ volumes = {}
    /\ dirs = {}
    /\ file = {}
    /\ torn = FALSE
    /\ mutex = Nobody
    /\ pc = [w \in Workers |-> "idle"]
    /\ name \in [Workers -> Names]
    /\ removing = [w \in Workers |-> FALSE]
    /\ unsaved = FALSE
    /\ ghosts = {}

Goto(w, from, to) == pc[w] = from /\ pc' = [pc EXCEPT ![w] = to]
Keep == UNCHANGED <<name, removing>>
history == <<unsaved, ghosts>>

\* The deferred Unlock, on every way out of the critical section.
Return(w, from) == Goto(w, from, "idle") /\ mutex' = Nobody /\ Keep

-------------------------------------------------------------------------------
(* Requests *)

FirstPoint == [Get |-> "get", List |-> "list", Mount |-> "lookup",
               Create |-> "lock", Remove |-> "find"]

Request(w, op, n) ==
    /\ Goto(w, "idle", FirstPoint[op])
    /\ name' = [name EXCEPT ![w] = n]
    /\ removing' = [removing EXCEPT ![w] = (op = "Remove")]
    /\ UNCHANGED <<volumes, dirs, file, torn, mutex, history>>

\* exists and getVolume are two lookups, neither of them under the mutex.
Get(w) ==
    /\ IF name[w] \in volumes THEN Goto(w, "get", "getvolume")
                              ELSE Goto(w, "get", "idle")
    /\ UNCHANGED <<volumes, dirs, file, torn, mutex, name, removing, history>>

\* getVolume, List, and Mount and Path, which look the mountpoint up.
Read(w) ==
    /\ \E p \in {"getvolume", "list", "lookup"} : Goto(w, p, "idle")
    /\ UNCHANGED <<volumes, dirs, file, torn, mutex, name, removing, history>>

\* Remove looks for the volume before it takes the mutex.
FindVolume(w) ==
    /\ IF name[w] \in volumes THEN Goto(w, "find", "lock")
                              ELSE Goto(w, "find", "idle")
    /\ UNCHANGED <<volumes, dirs, file, torn, mutex, name, removing, history>>

Lock(w) ==
    /\ mutex = Nobody
    /\ mutex' = w
    /\ Goto(w, "lock", IF ~removing[w] THEN "exists"
                       ELSE IF OwnDirectory THEN "rmdir" ELSE "delete")
    /\ UNCHANGED <<volumes, dirs, file, torn, name, removing, history>>

-------------------------------------------------------------------------------
(* Create *)

\* Faulty variant: an early return without Unlock.
ReturnLocked(w) ==
    /\ name[w] \in volumes
    /\ Goto(w, "exists", "idle")
    /\ UNCHANGED <<volumes, dirs, file, torn, mutex, name, removing, history>>

VolumeExists(w) ==
    /\ name[w] \in volumes
    /\ Return(w, "exists")
    /\ UNCHANGED <<volumes, dirs, file, torn, history>>

VolumeIsNew(w) ==
    /\ name[w] \notin volumes
    /\ Goto(w, "exists", IF OwnDirectory THEN "mkdir" ELSE "insert")
    /\ UNCHANGED <<volumes, dirs, file, torn, mutex, name, removing, history>>

MakeDirectory(w) ==
    /\ \/ /\ Goto(w, "mkdir", "chown")
          /\ dirs' = dirs \cup {name[w]}
          /\ UNCHANGED <<mutex, name, removing>>
       \/ Return(w, "mkdir") /\ UNCHANGED dirs
    /\ UNCHANGED <<volumes, file, torn, history>>

ChangeOwner(w) ==
    /\ \/ Goto(w, "chown", "insert") /\ UNCHANGED <<mutex, name, removing>>
       \/ Return(w, "chown")
    /\ UNCHANGED <<volumes, dirs, file, torn, history>>

Insert(w) ==
    /\ Goto(w, "insert", "save")
    /\ volumes' = volumes \cup {name[w]}
    /\ ghosts' = ghosts \ {name[w]}
    /\ UNCHANGED <<dirs, file, torn, mutex, name, removing, unsaved>>

-------------------------------------------------------------------------------
(* Remove *)

\* RemoveAll of the mountpoint in the map; when another Remove came first that
\* is the empty path, which RemoveAll ignores.  Its error is logged.
RemoveDirectory(w) ==
    /\ Goto(w, "rmdir", "delete")
    /\ dirs' \in IF name[w] \in volumes THEN {dirs, dirs \ {name[w]}} ELSE {dirs}
    /\ UNCHANGED <<volumes, file, torn, mutex, name, removing, history>>

\* Faulty variant: the directory is gone and the entry stays.
DeleteNothing(w) ==
    /\ Goto(w, "delete", "save")
    /\ UNCHANGED <<volumes, dirs, file, torn, mutex, name, removing, history>>

Delete(w) ==
    /\ Goto(w, "delete", "save")
    /\ volumes' = volumes \ {name[w]}
    /\ ghosts' = ghosts \ {name[w]}
    /\ UNCHANGED <<dirs, file, torn, mutex, name, removing, unsaved>>

-------------------------------------------------------------------------------
(* saveState: the file is truncated, then written.  An error is logged; the *)
(* Remove of localPublicDriver returns it.                                  *)

\* Faulty variant: the mutex is given back before the file is written.
UnlockThenSave(w) ==
    /\ Goto(w, "save", "write")
    /\ torn' = TRUE
    /\ mutex' = Nobody
    /\ UNCHANGED <<volumes, dirs, file, name, removing, history>>

Truncate(w) ==
    /\ Goto(w, "save", "write")
    /\ torn' = TRUE
    /\ UNCHANGED <<volumes, dirs, file, mutex, name, removing, history>>

WriteFile(w) ==
    /\ Return(w, "write")
    /\ file' = volumes
    /\ torn' = FALSE
    /\ unsaved' = FALSE
    /\ UNCHANGED <<volumes, dirs, ghosts>>

SaveFails(w) ==
    /\ Return(w, "save") \/ Return(w, "write")
    /\ unsaved' = TRUE
    /\ UNCHANGED <<volumes, dirs, file, torn, ghosts>>

-------------------------------------------------------------------------------

\* The process dies and comes back; a file that is not there or cannot be
\* parsed is an empty map.
Restart ==
    /\ volumes' = IF torn THEN {} ELSE file
    /\ ghosts' = volumes' \ dirs
    /\ mutex' = Nobody
    /\ pc' = [w \in Workers |-> "idle"]
    /\ unsaved' = torn
    /\ UNCHANGED <<dirs, file, torn, name, removing>>

Serve(w) ==
    \/ Get(w) \/ Read(w) \/ FindVolume(w)
    \/ VolumeExists(w) \/ VolumeIsNew(w) \/ MakeDirectory(w) \/ ChangeOwner(w)
    \/ Insert(w) \/ RemoveDirectory(w) \/ Delete(w)
    \/ Truncate(w) \/ WriteFile(w) \/ SaveFails(w)

Next ==
    \/ \E w \in Workers :
          \/ \E op \in DOMAIN FirstPoint, n \in Names : Request(w, op, n)
          \/ Lock(w)
          \/ Serve(w)
    \/ Restart

Spec == Init /\ [][Next]_vars

\* A goroutine keeps going, and Go's mutex lets everyone in who waits.
FairSpec == Spec /\ \A w \in Workers : WF_vars(Serve(w)) /\ SF_vars(Lock(w))

-------------------------------------------------------------------------------
(* Properties *)

\* While nobody is inside, and unless the last write of it failed, the state
\* file lists what the map does: a restart forgets nothing and brings nothing
\* back, however many goroutines create and remove volumes.
FileIsCurrent == mutex = Nobody /\ ~unsaved => ~torn /\ file = volumes

\* Docker is not given a mountpoint that does not exist: a volume of
\* localPublicDriver has its directory, but for the one that is being removed
\* and those which a restart brings back because the process died, or the state
\* file could not be written, between their removal and its save.
KnownHasDirectory ==
    OwnDirectory =>
        \A n \in volumes :
            \/ n \in dirs \cup ghosts
            \/ \E w \in Workers :
                  mutex = w /\ pc[w] = "delete" /\ name[w] = n

\* Every request is answered: there is no way out of Create and Remove that
\* keeps the mutex.
EveryRequestIsAnswered == \A w \in Workers : pc[w] # "idle" ~> pc[w] = "idle"
================================================================================
