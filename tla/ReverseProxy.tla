------------------------------ MODULE ReverseProxy ------------------------------
(***************************************************************************)
(* The routes of the reverse proxy (internal/aom/routes/reverse_proxy.go), *)
(* with the file operations that cmd/aom.go gives it and the reload of     *)
(* nginx over D-Bus (internal/aom/dbus).                                   *)
(*                                                                         *)
(* A route has two files, a site and a map of permissions, and a link to   *)
(* each; nginx reads what is linked when it reloads.                       *)
(*                                                                         *)
(* A caller is a goroutine with one transaction of the service after the   *)
(* other: its routine deletes routes and then creates some, and when it    *)
(* fails the rollback hook deletes the routes it publishes.  Only one      *)
(* transaction is open, but the hooks run after it has been closed, so     *)
(* they and the next routine work at the same time, on the same route too: *)
(* nothing locks the files.                                                *)
(***************************************************************************)
EXTENDS Naturals, FiniteSets

CONSTANTS
    Callers,    \* goroutines that run transactions
    Ids,        \* ids of routes, with the name of the add-on as prefix
    Versions,   \* what a route may be to look like, by the length of its files
    MaxCalls,   \* bound: calls of Create and Delete by routines
    MaxFaults   \* bound: file and D-Bus operations that fail, and crashes

ASSUME ReverseProxyAssumption ==
    /\ Versions \subseteq Nat \ {0}
    /\ MaxCalls \in Nat /\ MaxFaults \in Nat
    /\ "late" \notin Callers

Kinds == {"conf", "map"}
Idle == <<"idle", "">>
Wait == <<"reload", "wait">>
Connect == <<"reload", "connect">>
NoCall == [step |-> Idle, op |-> "none", id |-> "none", ver |-> 0]
NoFile == [version |-> 0, length |-> 0, clean |-> TRUE]

VARIABLES
    file,       \* file[id][k]: content of the file of a kind, or NoFile
    link,       \* link[id][k]: whether there is a link to it
    served,     \* served[id][k]: version that nginx has loaded, 0 for none
    jobs,       \* reload jobs of systemd: whose they are, "late" if nobody waits
    call,       \* call[c]: the call a caller is in: next step, operation ("create",
                \* "delete", or "rollback" for the hook), route, version to create
    tx,         \* tx[c]: "open"; "failed" until the deferred Rollback; "hooks"; or "none"
    made,       \* made[c]: routes of the hook, of Create calls first, then all published
    todo,       \* todo[c]: routes the running hook has still to delete
    absent,     \* routes of no installed add-on, as the service sees it
    calls,      \* counts calls of routines
    faults,     \* counts failures
    settled,    \* history: settled[id]: version {v} of the last call if it succeeded,
                \* {0} for Delete, {} since a call that has not
    disturbed,  \* history: routes of which a failed deletion may have left something
    overlapped, \* history: routes that two calls have been at work on at once
    refused     \* history: nginx has not loaded what it was last asked to

disk == <<file, link>>
work == <<tx, made, todo, absent, calls>>
history == <<settled, disturbed, overlapped, refused>>
vars == <<disk, served, jobs, call, work, faults, history>>

Init ==
    /\ file = [id \in Ids |-> [k \in Kinds |-> NoFile]]
    /\ link = [id \in Ids |-> [k \in Kinds |-> FALSE]]
    /\ served = [id \in Ids |-> [k \in Kinds |-> 0]]
    /\ jobs = {}
    /\ call = [c \in Callers |-> NoCall]
    /\ tx = [c \in Callers |-> "none"]
    /\ made = [c \in Callers |-> {}]
    /\ todo = [c \in Callers |-> {}]
    /\ absent = Ids
    /\ calls = 0
    /\ faults = 0
    /\ settled = [id \in Ids |-> {0}]
    /\ disturbed = {}
    /\ overlapped = {}
    /\ refused = FALSE

Busy(c) == call[c].step # Idle
At(c, verb) == call[c].step[1] = verb
Fault == faults < MaxFaults /\ faults' = faults + 1

\* The order of the steps in Create and in Delete.
After(step) ==
    CASE step = <<"write", "conf">>    -> <<"link", "conf">>
      [] step = <<"link", "conf">>     -> <<"write", "map">>
      [] step = <<"write", "map">>     -> <<"link", "map">>
      [] step = <<"statlink", "conf">> -> <<"statfile", "conf">>
      [] step = <<"unlink", "conf">>   -> <<"statfile", "conf">>
      [] step = <<"statfile", "conf">> -> <<"statlink", "map">>
      [] step = <<"remove", "conf">>   -> <<"statlink", "map">>
      [] step = <<"statlink", "map">>  -> <<"statfile", "map">>
      [] step = <<"unlink", "map">>    -> <<"statfile", "map">>
      [] OTHER                         -> Connect

GoOn(c) == call' = [call EXCEPT ![c].step = After(@)]

--------------------------------------------------------------------------------
\* Transactions and their calls

\* Only one transaction is open; hooks of others may be running.
Begin(c) ==
    /\ tx[c] = "none"
    /\ \A d \in Callers : tx[d] \notin {"open", "failed"}
    /\ tx' = [tx EXCEPT ![c] = "open"]
    /\ UNCHANGED <<disk, served, jobs, call, made, todo, absent, calls, faults, history>>

\* A call begins, beside those that are at work.
Start(c, operation, id, v, step) ==
    /\ ~ Busy(c)
    /\ call' = [call EXCEPT ![c] = [step |-> step, op |-> operation, id |-> id, ver |-> v]]
    /\ settled' = [settled EXCEPT ![id] = {}]
    /\ overlapped' = IF \E d \in Callers \ {c} : Busy(d) /\ call[d].id = id
                     THEN overlapped \cup {id} ELSE overlapped
    /\ UNCHANGED <<disk, served, jobs, faults, disturbed, refused>>

\* The hook is subscribed before the first route is created, and an add-on is created
\* only when there is none of its name.
Create(c, id, v) ==
    /\ tx[c] = "open"
    /\ calls < MaxCalls /\ calls' = calls + 1
    /\ id \in absent
    /\ absent' = absent \ {id}
    /\ made' = [made EXCEPT ![c] = @ \cup {id}]
    /\ Start(c, "create", id, v, <<"write", "conf">>)
    /\ UNCHANGED <<tx, todo>>

\* An update deletes the old add-on before it creates the new one.
Delete(c, id) ==
    /\ tx[c] = "open"
    /\ calls < MaxCalls /\ calls' = calls + 1
    /\ made[c] = {}
    /\ Start(c, "delete", id, 0, <<"statlink", "conf">>)
    /\ UNCHANGED <<tx, made, todo, absent>>

Commit(c) ==
    /\ tx[c] = "open" /\ ~ Busy(c)
    /\ tx' = [tx EXCEPT ![c] = "none"]
    /\ made' = [made EXCEPT ![c] = {}]
    /\ UNCHANGED <<disk, served, jobs, call, todo, absent, calls, faults, history>>

\* Rollback, after an error of a call or of something else.  The hook is for all routes
\* that the add-on publishes, those not come to included.
Rollback(c) ==
    /\ tx[c] \in {"open", "failed"} /\ ~ Busy(c)
    /\ tx' = [tx EXCEPT ![c] = "hooks"]
    /\ \E more \in SUBSET absent :
          made' = [made EXCEPT ![c] = IF @ = {} THEN {} ELSE @ \cup more]
    /\ todo' = [todo EXCEPT ![c] = made'[c]]
    /\ UNCHANGED <<disk, served, jobs, call, absent, calls, faults, history>>

\* The hook deletes the next route.
DeleteProxyRoute(c, id) ==
    /\ tx[c] = "hooks" /\ id \in todo[c]
    /\ todo' = [todo EXCEPT ![c] = @ \ {id}]
    /\ Start(c, "rollback", id, 0, <<"statlink", "conf">>)
    /\ UNCHANGED <<tx, made, absent, calls>>

\* The last of the hooks deletes the manifest: no route is any add-on's then, whatever
\* the next transaction has created meanwhile.
LastHook(c) ==
    /\ tx[c] = "hooks" /\ ~ Busy(c) /\ todo[c] = {}
    /\ tx' = [tx EXCEPT ![c] = "none"]
    /\ made' = [made EXCEPT ![c] = {}]
    /\ absent' = absent \cup made[c]
    /\ disturbed' = disturbed \cup (made[c] \ absent)
    /\ UNCHANGED <<disk, served, jobs, call, todo, calls, faults, settled, overlapped, refused>>

\* The call returns an error and may have left a route in part.  A routine ends with it;
\* a hook leaves its other routes as they are, and nobody looks at its error.
Fail(c, left) ==
    /\ call' = [call EXCEPT ![c] = NoCall]
    /\ tx' = [tx EXCEPT ![c] = IF @ = "open" THEN "failed" ELSE @]
    /\ todo' = [todo EXCEPT ![c] = {}]
    /\ disturbed' = disturbed \cup left \cup todo[c]
    /\ UNCHANGED <<made, absent, calls, overlapped>>

--------------------------------------------------------------------------------
\* Files and links

\* writeToFile opens without O_TRUNC: what is longer keeps its end.
Written(old, v) ==
    [version |-> v,
     length  |-> IF old.length > v THEN old.length ELSE v,
     clean   |-> old.length <= v]

WriteToFile(c) ==
    /\ At(c, "write")
    /\ file' = [file EXCEPT ![call[c].id][call[c].step[2]] = Written(@, call[c].ver)]
    /\ GoOn(c)
    /\ UNCHANGED <<link, served, jobs, work, faults, history>>

\* Before anything is written, or in the middle.
WriteFails(c) ==
    /\ At(c, "write")
    /\ Fault
    /\ \/ UNCHANGED file
       \/ file' = [file EXCEPT ![call[c].id][call[c].step[2]] =
                      [Written(@, call[c].ver) EXCEPT !.clean = FALSE]]
    /\ Fail(c, {})
    /\ UNCHANGED <<link, served, jobs, settled, refused>>

CreateSymbolicLink(c) ==
    /\ At(c, "link")
    /\ ~ link[call[c].id][call[c].step[2]]
    /\ link' = [link EXCEPT ![call[c].id][call[c].step[2]] = TRUE]
    /\ GoOn(c)
    /\ UNCHANGED <<file, served, jobs, work, faults, history>>

\* os.Symlink does not replace a link that is there.
LinkFails(c) ==
    /\ At(c, "link")
    /\ \/ link[call[c].id][call[c].step[2]] /\ UNCHANGED faults
       \/ Fault
    /\ Fail(c, {})
    /\ UNCHANGED <<disk, served, jobs, settled, refused>>

\* What os.Stat finds.  It follows a link: one to nothing is not there.
Found(id, verb, k) == file[id][k] # NoFile /\ (verb = "statlink" => link[id][k])

\* With the map, or the finding that there is none, all of the route is gone.
Forget(c) ==
    disturbed' = IF call[c].step \in {<<"statfile", "map">>, <<"remove", "map">>}
                 THEN disturbed \ {call[c].id} ELSE disturbed

\* deleteFile looks, and removes what it has found.
StatFinds(c) ==
    /\ At(c, "statlink") \/ At(c, "statfile")
    /\ Found(call[c].id, call[c].step[1], call[c].step[2])
    /\ call' = [call EXCEPT ![c].step =
                   <<IF @[1] = "statlink" THEN "unlink" ELSE "remove", @[2]>>]
    /\ UNCHANGED <<disk, served, jobs, work, faults, history>>

StatFindsNothing(c) ==
    /\ At(c, "statlink") \/ At(c, "statfile")
    /\ ~ Found(call[c].id, call[c].step[1], call[c].step[2])
    /\ Forget(c)
    /\ GoOn(c)
    /\ UNCHANGED <<disk, served, jobs, work, faults, settled, overlapped, refused>>

RemoveSymbolicLink(c) ==
    /\ At(c, "unlink")
    /\ link[call[c].id][call[c].step[2]]
    /\ link' = [link EXCEPT ![call[c].id][call[c].step[2]] = FALSE]
    /\ GoOn(c)
    /\ UNCHANGED <<file, served, jobs, work, faults, history>>

\* Faulty variant: the map is not removed.
KeepMap(c) ==
    /\ At(c, "remove")
    /\ file[call[c].id][call[c].step[2]] # NoFile
    /\ file' = IF call[c].step[2] = "map" THEN file
               ELSE [file EXCEPT ![call[c].id][call[c].step[2]] = NoFile]
    /\ Forget(c)
    /\ GoOn(c)
    /\ UNCHANGED <<link, served, jobs, work, faults, settled, overlapped, refused>>

DeleteFile(c) ==
    /\ At(c, "remove")
    /\ file[call[c].id][call[c].step[2]] # NoFile
    /\ file' = [file EXCEPT ![call[c].id][call[c].step[2]] = NoFile]
    /\ Forget(c)
    /\ GoOn(c)
    /\ UNCHANGED <<link, served, jobs, work, faults, settled, overlapped, refused>>

\* os.Remove fails, also because what was found is gone.
GoneMeanwhile(c) ==
    IF At(c, "unlink") THEN ~ link[call[c].id][call[c].step[2]]
                       ELSE file[call[c].id][call[c].step[2]] = NoFile
RemoveFails(c) ==
    /\ At(c, "unlink") \/ At(c, "remove")
    /\ Fault \/ (GoneMeanwhile(c) /\ UNCHANGED faults)
    /\ Fail(c, {call[c].id})
    /\ UNCHANGED <<disk, served, jobs, settled, refused>>

--------------------------------------------------------------------------------
\* The reload

\* Faulty variant: the rollback hook finds an error and asks for no reload.
NoReloadAfterRollback(c) ==
    /\ call[c].step = Connect
    /\ jobs' = IF call[c].op = "rollback" THEN jobs ELSE jobs \cup {c}
    /\ call' = [call EXCEPT ![c] = IF @.op = "rollback" THEN NoCall ELSE [@ EXCEPT !.step = Wait]]
    /\ UNCHANGED <<disk, served, work, faults, history>>

\* The connection to D-Bus is made and the job is queued.
ReloadUnitContext(c) ==
    /\ call[c].step = Connect
    /\ jobs' = jobs \cup {c}
    /\ call' = [call EXCEPT ![c].step = Wait]
    /\ UNCHANGED <<disk, served, work, faults, history>>

ReloadFails(c) ==
    /\ call[c].step = Connect
    /\ Fault
    /\ refused' = TRUE
    /\ Fail(c, {})
    /\ UNCHANGED <<disk, served, jobs, settled>>

\* What nginx finds behind the links.  A link to nothing is an error; a file with
\* a stale end may be one.
Snapshot ==
    [id \in Ids |-> [k \in Kinds |-> IF link[id][k] THEN file[id][k].version ELSE 0]]
Dangling == \E id \in Ids, k \in Kinds : link[id][k] /\ file[id][k] = NoFile
Unclean == \E id \in Ids, k \in Kinds : link[id][k] /\ ~ file[id][k].clean

\* The call of c returns without an error: what was asked for is there, or gone.
Succeed(c) ==
    /\ call' = [call EXCEPT ![c] = NoCall]
    /\ settled' = [settled EXCEPT ![call[c].id] =
          IF call[c].op = "rollback" THEN {} ELSE {call[c].ver}]
    /\ absent' = IF call[c].op = "create" THEN absent ELSE absent \cup {call[c].id}

\* A job runs; whoever waits for it reads the result "done".
NginxReloads(j) ==
    /\ j \in jobs
    /\ ~ Dangling
    /\ served' = Snapshot
    /\ jobs' = jobs \ {j}
    /\ refused' = FALSE
    /\ IF j = "late" THEN UNCHANGED <<call, settled, absent>> ELSE Succeed(j)
    /\ UNCHANGED <<disk, tx, made, todo, calls, faults, disturbed, overlapped>>

\* nginx keeps what it has loaded; the result is not "done".
NginxRefuses(j) ==
    /\ j \in jobs
    /\ Dangling \/ Unclean
    /\ jobs' = jobs \ {j}
    /\ refused' = TRUE
    /\ IF j = "late" THEN UNCHANGED <<call, work, disturbed, overlapped>> ELSE Fail(j, {})
    /\ UNCHANGED <<disk, served, faults, settled>>

\* Faulty variant: the goroutine waits for the result alone.
NoTimeout(c) == FALSE /\ UNCHANGED vars

\* Faulty variant: a reload that does not answer in time is taken for done.
TimeoutIsDone(c) ==
    /\ call[c].step = Wait
    /\ jobs' = (jobs \ {c}) \cup {"late"}
    /\ Succeed(c)
    /\ UNCHANGED <<disk, served, tx, made, todo, calls, faults, disturbed, overlapped, refused>>

\* The context is done first; the job is still there.
ReloadTimeout(c) ==
    /\ call[c].step = Wait
    /\ jobs' = (jobs \ {c}) \cup {"late"}
    /\ Fail(c, {})
    /\ UNCHANGED <<disk, served, faults, settled, refused>>

\* The process ends.  Jobs are systemd's, files and links stay, hooks are lost, and the
\* manifest of the add-on that was at work is there.
Crash ==
    /\ Fault
    /\ \E c \in Callers : tx[c] # "none"
    /\ refused' = TRUE
    /\ jobs' = IF jobs = {} THEN {} ELSE {"late"}
    /\ call' = [c \in Callers |-> NoCall]
    /\ tx' = [c \in Callers |-> "none"]
    /\ made' = [c \in Callers |-> {}]
    /\ todo' = [c \in Callers |-> {}]
    /\ UNCHANGED <<disk, served, absent, calls, settled, disturbed, overlapped>>

Step(c) ==
    \/ WriteToFile(c) \/ WriteFails(c) \/ CreateSymbolicLink(c) \/ LinkFails(c)
    \/ StatFinds(c) \/ StatFindsNothing(c)
    \/ RemoveSymbolicLink(c) \/ DeleteFile(c) \/ RemoveFails(c)
    \/ ReloadUnitContext(c) \/ ReloadFails(c) \/ ReloadTimeout(c)

\* What follows the failure of a routine.
Undo(c) == Rollback(c) \/ LastHook(c) \/ \E id \in Ids : DeleteProxyRoute(c, id)

Next ==
    \/ \E c \in Callers :
          \/ Begin(c) \/ Commit(c) \/ Step(c) \/ Undo(c)
          \/ \E id \in Ids : Delete(c, id) \/ \E v \in Versions : Create(c, id, v)
    \/ \E j \in Callers \cup {"late"} : NginxReloads(j) \/ NginxRefuses(j)
    \/ Crash

\* A goroutine goes on.  Nothing is asked of systemd and nginx.
Spec == Init /\ [][Next]_vars /\ \A c \in Callers : WF_vars(Step(c)) /\ WF_vars(Undo(c))

--------------------------------------------------------------------------------
Verbs == {"write", "link", "statlink", "unlink", "statfile", "remove"}
Steps == {Wait, Connect} \cup (Verbs \X Kinds)
Files == [version : Versions \cup {0}, length : Versions \cup {0}, clean : BOOLEAN]
Calls == [step : Steps, op : {"create", "delete", "rollback"}, id : Ids, ver : Versions \cup {0}]

\* Type invariant of routes, jobs, transactions and calls.
TypeOK ==
    /\ file \in [Ids -> [Kinds -> Files]]
    /\ link \in [Ids -> [Kinds -> BOOLEAN]]
    /\ served \in [Ids -> [Kinds -> Versions \cup {0}]]
    /\ jobs \in SUBSET (Callers \cup {"late"})
    /\ call \in [Callers -> Calls \cup {NoCall}]
    /\ tx \in [Callers -> {"none", "open", "failed", "hooks"}]
    /\ made \in [Callers -> SUBSET Ids] /\ todo \in [Callers -> SUBSET Ids]
    /\ absent \in SUBSET Ids
    /\ calls \in 0 .. MaxCalls /\ faults \in 0 .. MaxFaults
    /\ settled \in [Ids -> SUBSET (Versions \cup {0})]
    /\ disturbed \in SUBSET Ids /\ overlapped \in SUBSET Ids /\ refused \in BOOLEAN

\* Behind every link is a file, whichever calls and hooks failed and wherever the
\* process ended: Create writes before it links, Delete unlinks before it removes.  A
\* link to nothing would stop every reload, for all add-ons.  And the file holds what
\* was written last and nothing else, unless a failed hook has left one behind, which
\* is not truncated.  This is said of routes that no two calls have been at work on at
\* once: a hook that has unlinked and then removes the file, while the next transaction
\* links it, leaves a link to nothing.
LinkedIsWhole ==
    \A id \in Ids \ overlapped, k \in Kinds : link[id][k] =>
        /\ file[id][k] # NoFile
        /\ id \notin disturbed => file[id][k].clean

\* A call that returned without an error is what nginx serves, until the next call
\* for that route begins, a hook's included: not one that timed out, and no late job
\* takes it back.  Of routes that two calls have been at work on at once it is not said.
SuccessMeansServed ==
    \A id \in Ids \ overlapped, k \in Kinds : \A v \in settled[id] : served[id][k] = v

\* When no call is under way and no hook is due, nginx serves what is linked, or a job
\* for it is still queued, or it was refused: a reload that was given up is not
\* forgotten, also when calls for the same route overlapped.
ServesWhatIsLinked ==
    /\ \A c \in Callers : ~ Busy(c) /\ tx[c] \in {"none", "open"}
    /\ ~ refused /\ jobs = {} /\ disturbed = {}
    => served = Snapshot

\* Every call returns and every failed routine is rolled back, also when systemd never
\* answers (the timeout of reload).
EveryCallReturns ==
    \A c \in Callers :
        (Busy(c) \/ tx[c] \in {"failed", "hooks"}) ~> (~ Busy(c) /\ tx[c] \in {"none", "open"})
================================================================================
