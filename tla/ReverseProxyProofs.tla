--------------------------- MODULE ReverseProxyProofs ---------------------------
(***************************************************************************)
(* The files and links of routes, and what nginx serves of them, for any   *)
(* number of callers, routes, versions, calls and failures.                *)
(***************************************************************************)
EXTENDS ReverseProxy, TLAPS

\* The places of a call, by name.
WriteConf == <<"write", "conf">>
LinkConf == <<"link", "conf">>
WriteMap == <<"write", "map">>
LinkMap == <<"link", "map">>
StatLinkConf == <<"statlink", "conf">>
UnlinkConf == <<"unlink", "conf">>
StatFileConf == <<"statfile", "conf">>
RemoveConf == <<"remove", "conf">>
StatLinkMap == <<"statlink", "map">>
UnlinkMap == <<"unlink", "map">>
StatFileMap == <<"statfile", "map">>
RemoveMap == <<"remove", "map">>

Creating == {WriteConf, LinkConf, WriteMap, LinkMap}
Deleting == {StatLinkConf, UnlinkConf, StatFileConf, RemoveConf,
             StatLinkMap, UnlinkMap, StatFileMap, RemoveMap}
Reloading == {Connect, Wait}

\* A kind of file of a route is not there, or is what the call of c has written.
Gone(id, k) == ~ link[id][k] /\ file[id][k] = NoFile
Made(c, id, k) ==
    /\ file[id][k].version = call[c].ver
    /\ file[id][k] # NoFile
    /\ id \notin disturbed => file[id][k].clean

\* Who may be where: files are written by Create and removed by Delete or the hook,
\* routines are in an open transaction, hooks in one that has failed, and a job that
\* somebody waits for is of a call that waits.
CallInv(c) ==
    /\ call[c].step \in Creating => call[c].op = "create"
    /\ call[c].step \in Deleting => call[c].op # "create"
    /\ Busy(c) /\ call[c].op = "create" =>
          tx[c] = "open" /\ call[c].id \in made[c] /\ call[c].ver \in Versions
    /\ Busy(c) /\ call[c].op # "create" =>
          call[c].ver = 0 /\ tx[c] = IF call[c].op = "delete" THEN "open" ELSE "hooks"
    /\ c \in jobs => call[c].step = Wait
    /\ todo[c] # {} => tx[c] = "hooks"

\* Two calls at work on a route are remembered.
Alone(c, d) ==
    Busy(c) /\ Busy(d) /\ c # d /\ call[c].id = call[d].id => call[c].id \in overlapped

\* How far a call of Create has come.
CreateInv(c, id) ==
    /\ Busy(c) /\ call[c].op = "create" /\ id \in absent => id \in disturbed
    /\ call[c].step = WriteConf /\ id \notin disturbed => Gone(id, "conf") /\ Gone(id, "map")
    /\ call[c].step = LinkConf => Made(c, id, "conf") /\ (id \notin disturbed => Gone(id, "map"))
    /\ call[c].step = WriteMap =>
          Made(c, id, "conf") /\ link[id]["conf"] /\ (id \notin disturbed => Gone(id, "map"))
    /\ call[c].step = LinkMap => Made(c, id, "conf") /\ link[id]["conf"] /\ Made(c, id, "map")
    /\ call[c].step \in Reloading /\ call[c].op = "create" =>
          /\ Made(c, id, "conf") /\ link[id]["conf"]
          /\ Made(c, id, "map") /\ link[id]["map"]

\* How far a call of Delete, or the hook, has come.
DeleteInv(c, id) ==
    /\ call[c].step \in {StatFileConf, RemoveConf} => ~ link[id]["conf"]
    /\ call[c].step \in {StatLinkMap, UnlinkMap} => Gone(id, "conf")
    /\ call[c].step \in {StatFileMap, RemoveMap} => Gone(id, "conf") /\ ~ link[id]["map"]
    /\ call[c].step \in Reloading /\ call[c].op # "create" => Gone(id, "conf") /\ Gone(id, "map")

\* A call that is alone at its route.
HereInv(c, id) ==
    Busy(c) /\ call[c].id = id /\ id \notin overlapped =>
        CreateInv(c, id) /\ DeleteInv(c, id) /\ settled[id] = {}

\* LinkedIsWhole of a single file.
Whole(id, k) ==
    link[id][k] => file[id][k] # NoFile /\ (id \notin disturbed => file[id][k].clean)

\* What calls have left behind: of a route that is no add-on's nothing, but for failed
\* hooks, and of the last call that succeeded what it was asked for.
LeftInv(id) ==
    /\ id \in absent /\ id \notin disturbed => Gone(id, "conf") /\ Gone(id, "map")
    /\ 0 \in settled[id] => Gone(id, "conf") /\ Gone(id, "map")
    /\ \A v \in settled[id] \ {0} :
          /\ link[id]["conf"] /\ file[id]["conf"].version = v
          /\ link[id]["map"] /\ file[id]["map"].version = v
    /\ Whole(id, "conf") /\ Whole(id, "map")

RouteInv(id) == id \notin overlapped => LeftInv(id)

FilesInv ==
    /\ TypeOK
    /\ \A c \in Callers : CallInv(c)
    /\ \A c, d \in Callers : Alone(c, d)
    /\ \A c \in Callers, id \in Ids : HereInv(c, id)
    /\ \A id \in Ids : RouteInv(id)

--------------------------------------------------------------------------------
\* Places

LEMMA Distinct ==
    /\ Idle \notin Creating \cup Deleting \cup Reloading
    /\ Wait \notin Creating \cup Deleting \cup {Connect}
    /\ Connect \notin Creating \cup Deleting
    /\ WriteConf \notin {LinkConf, WriteMap, LinkMap} \cup Deleting
    /\ LinkConf \notin {WriteMap, LinkMap} \cup Deleting
    /\ WriteMap \notin {LinkMap} \cup Deleting
    /\ LinkMap \notin Deleting
    /\ StatLinkConf \notin Deleting \ {StatLinkConf}
    /\ UnlinkConf \notin {StatFileConf, RemoveConf, StatLinkMap, UnlinkMap, StatFileMap, RemoveMap}
    /\ StatFileConf \notin {RemoveConf, StatLinkMap, UnlinkMap, StatFileMap, RemoveMap}
    /\ RemoveConf \notin {StatLinkMap, UnlinkMap, StatFileMap, RemoveMap}
    /\ StatLinkMap \notin {UnlinkMap, StatFileMap, RemoveMap}
    /\ UnlinkMap \notin {StatFileMap, RemoveMap}
    /\ StatFileMap # RemoveMap
    /\ StatLinkConf \notin {UnlinkConf, StatFileConf, RemoveConf, StatLinkMap, UnlinkMap,
                            StatFileMap, RemoveMap}
  BY DEF Creating, Deleting, Reloading, Idle, Wait, Connect, WriteConf, LinkConf, WriteMap,
         LinkMap, StatLinkConf, UnlinkConf, StatFileConf, RemoveConf, StatLinkMap, UnlinkMap,
         StatFileMap, RemoveMap

LEMMA Known == {Wait, Connect} \cup Creating \cup Deleting \subseteq Steps
  BY DEF Steps, Verbs, Kinds, Creating, Deleting, WriteConf, LinkConf, WriteMap, LinkMap,
         StatLinkConf, UnlinkConf, StatFileConf, RemoveConf, StatLinkMap, UnlinkMap,
         StatFileMap, RemoveMap

\* What the guards of the actions mean.
LEMMA Places ==
    ASSUME NEW s \in Steps
    PROVE  /\ s # Idle
           /\ s[1] = "write" => (s = WriteConf /\ s[2] = "conf") \/ (s = WriteMap /\ s[2] = "map")
           /\ s[1] = "link" => (s = LinkConf /\ s[2] = "conf") \/ (s = LinkMap /\ s[2] = "map")
           /\ s[1] = "statlink" =>
                (s = StatLinkConf /\ s[2] = "conf") \/ (s = StatLinkMap /\ s[2] = "map")
           /\ s[1] = "unlink" => (s = UnlinkConf /\ s[2] = "conf") \/ (s = UnlinkMap /\ s[2] = "map")
           /\ s[1] = "statfile" =>
                (s = StatFileConf /\ s[2] = "conf") \/ (s = StatFileMap /\ s[2] = "map")
           /\ s[1] = "remove" => (s = RemoveConf /\ s[2] = "conf") \/ (s = RemoveMap /\ s[2] = "map")
  <1>1. CASE s \in {Wait, Connect}
    <2>1. Idle[1] = "idle" /\ Wait[1] = "reload" /\ Connect[1] = "reload"
      BY DEF Idle, Wait, Connect
    <2> QED
      BY <1>1, <2>1
  <1>2. CASE s \in Verbs \X Kinds
    <2>1. PICK a \in Verbs, k \in Kinds : s = <<a, k>>
      BY <1>2
    <2>2. s[1] = a /\ s[2] = k
      BY <2>1
    <2>3. k = "conf" \/ k = "map"
      BY DEF Kinds
    <2>4. s # Idle
      <3>1. Idle[1] = "idle" /\ a # "idle"
        BY DEF Idle, Verbs
      <3> QED
        BY <2>2, <3>1
    <2> QED
      BY <2>1, <2>2, <2>3, <2>4 DEF WriteConf, LinkConf, WriteMap, LinkMap, StatLinkConf,
         UnlinkConf, StatFileConf, RemoveConf, StatLinkMap, UnlinkMap, StatFileMap, RemoveMap
  <1> QED
    BY <1>1, <1>2 DEF Steps

\* The place in Creating or Deleting by the verb of the guard.
LEMMA Verbal ==
    /\ \A s \in {WriteConf, WriteMap} : s[1] = "write"
    /\ \A s \in {LinkConf, LinkMap} : s[1] = "link"
    /\ \A s \in {StatLinkConf, StatLinkMap} : s[1] = "statlink"
    /\ \A s \in {UnlinkConf, UnlinkMap} : s[1] = "unlink"
    /\ \A s \in {StatFileConf, StatFileMap} : s[1] = "statfile"
    /\ \A s \in {RemoveConf, RemoveMap} : s[1] = "remove"
    /\ Connect[1] = "reload" /\ Wait[1] = "reload" /\ Idle[1] = "idle"
  BY DEF Idle, Wait, Connect, WriteConf, LinkConf, WriteMap, LinkMap, StatLinkConf, UnlinkConf,
         StatFileConf, RemoveConf, StatLinkMap, UnlinkMap, StatFileMap, RemoveMap

\* The order of the steps.
LEMMA AfterPlaces ==
    /\ After(WriteConf) = LinkConf /\ After(LinkConf) = WriteMap
    /\ After(WriteMap) = LinkMap /\ After(LinkMap) = Connect
    /\ After(StatLinkConf) = StatFileConf /\ After(UnlinkConf) = StatFileConf
    /\ After(StatFileConf) = StatLinkMap /\ After(RemoveConf) = StatLinkMap
    /\ After(StatLinkMap) = StatFileMap /\ After(UnlinkMap) = StatFileMap
    /\ After(StatFileMap) = Connect /\ After(RemoveMap) = Connect
  BY DEF After, WriteConf, LinkConf, WriteMap, LinkMap, StatLinkConf, UnlinkConf, StatFileConf,
         RemoveConf, StatLinkMap, UnlinkMap, StatFileMap, RemoveMap

\* Written is what was asked for, and nothing else where there was no file.
LEMMA WrittenFile ==
    ASSUME NEW old \in Files, NEW v \in Versions
    PROVE  /\ Written(old, v) \in Files
           /\ [Written(old, v) EXCEPT !.clean = FALSE] \in Files
           /\ Written(old, v).version = v
           /\ Written(old, v) # NoFile
           /\ [Written(old, v) EXCEPT !.clean = FALSE] # NoFile
           /\ old = NoFile => Written(old, v).clean
  <1>0. Versions \subseteq Nat \ {0}
    BY ReverseProxyAssumption
  <1>1. old.length \in Versions \cup {0}
    BY DEF Files
  <1>2. v \in Nat /\ v # 0
    BY <1>0
  <1>3. \A n \in Versions \cup {0} : n \in Nat
    BY <1>0
  <1>4. old.length \in Nat
    BY <1>1, <1>3, Zenon
  <1>5. /\ old.length \in Versions \cup {0} /\ old.length \in Nat
        /\ v \in Nat /\ v # 0
    BY <1>1, <1>2, <1>4, Zenon
  <1>6. Written(old, v).version = v /\ Written(old, v).length \in Versions \cup {0}
        /\ Written(old, v).clean = (old.length <= v)
    BY <1>5 DEF Written
  <1>7. (old.length <= v) \in BOOLEAN
    BY <1>5
  <1>8. Written(old, v) \in Files /\ [Written(old, v) EXCEPT !.clean = FALSE] \in Files
    BY <1>5, <1>7 DEF Written, Files
  <1>9. NoFile.version = 0 /\ NoFile.length = 0
    BY DEF NoFile
  <1>10. [Written(old, v) EXCEPT !.clean = FALSE].version = v
    BY DEF Written
  <1>11. old = NoFile => Written(old, v).clean
    <2>1. old = NoFile => old.length <= v
      BY <1>5, <1>9
    <2>2. Written(old, v).clean \in BOOLEAN
      BY <1>6, <1>7
    <2> QED
      BY <1>6, <2>1, <2>2
  <1> QED
    BY <1>5, <1>6, <1>8, <1>9, <1>10, <1>11

--------------------------------------------------------------------------------
\* Calls

\* A call that is under way is a call of the service.
LEMMA BusyCall ==
    ASSUME TypeOK, NEW c \in Callers, Busy(c)
    PROVE  /\ call[c] \in Calls /\ call[c].step \in Steps /\ call[c].id \in Ids
           /\ call[c].op \in {"create", "delete", "rollback"}
           /\ call[c].ver \in Versions \cup {0}
  <1>1. call[c] \in Calls \cup {NoCall} /\ NoCall.step = Idle
    BY DEF TypeOK, NoCall
  <1>2. call[c] \in Calls
    BY <1>1 DEF Busy
  <1> QED
    BY <1>2 DEF Calls

\* A step of a call.
LEMMA MovedCall ==
    ASSUME TypeOK, NEW c \in Callers, Busy(c), NEW s \in Steps,
           call' = [call EXCEPT ![c].step = s]
    PROVE  /\ call' \in [Callers -> Calls \cup {NoCall}]
           /\ call'[c].step = s /\ call'[c].op = call[c].op
           /\ call'[c].id = call[c].id /\ call'[c].ver = call[c].ver
           /\ \A d \in Callers : d # c => call'[d] = call[d]
           /\ Busy(c)' /\ \A d \in Callers : d # c => (Busy(d)' <=> Busy(d))
  <1>1. call[c] \in Calls
    BY BusyCall
  <1>2. call'[c] = [call[c] EXCEPT !.step = s] /\ \A d \in Callers : d # c => call'[d] = call[d]
    BY DEF TypeOK
  <1>3. /\ call'[c].step = s /\ call'[c].op = call[c].op
        /\ call'[c].id = call[c].id /\ call'[c].ver = call[c].ver
    BY <1>1, <1>2 DEF Calls
  <1>4. [call[c] EXCEPT !.step = s] \in Calls
    BY <1>1 DEF Calls
  <1>5. call' \in [Callers -> Calls \cup {NoCall}]
    BY <1>4 DEF TypeOK
  <1>6. s # Idle
    BY Places
  <1> QED
    BY <1>2, <1>3, <1>5, <1>6 DEF Busy

LEMMA WentOn ==
    ASSUME TypeOK, NEW c \in Callers, Busy(c), GoOn(c), NEW s \in Steps, After(call[c].step) = s
    PROVE  /\ call' \in [Callers -> Calls \cup {NoCall}]
           /\ call'[c].step = s /\ call'[c].op = call[c].op
           /\ call'[c].id = call[c].id /\ call'[c].ver = call[c].ver
           /\ \A d \in Callers : d # c => call'[d] = call[d]
           /\ Busy(c)' /\ \A d \in Callers : d # c => (Busy(d)' <=> Busy(d))
  <1>1. call' = [call EXCEPT ![c].step = s]
    BY DEF GoOn
  <1> QED
    BY <1>1, MovedCall

\* A call has returned.
LEMMA Returned ==
    ASSUME TypeOK, NEW c \in Callers, call' = [call EXCEPT ![c] = NoCall]
    PROVE  /\ call' \in [Callers -> Calls \cup {NoCall}]
           /\ call'[c] = NoCall /\ ~ Busy(c)' /\ call'[c].step = Idle
           /\ \A d \in Callers : d # c => call'[d] = call[d]
           /\ \A d \in Callers : d # c => (Busy(d)' <=> Busy(d))
  <1>1. call'[c] = NoCall /\ \A d \in Callers : d # c => call'[d] = call[d]
    BY DEF TypeOK
  <1>2. call' \in [Callers -> Calls \cup {NoCall}]
    BY DEF TypeOK
  <1> QED
    BY <1>1, <1>2 DEF Busy, NoCall

\* An error.
LEMMA Failed ==
    ASSUME TypeOK, NEW c \in Callers, NEW left \in SUBSET Ids, Fail(c, left)
    PROVE  /\ call' \in [Callers -> Calls \cup {NoCall}]
           /\ tx' \in [Callers -> {"none", "open", "failed", "hooks"}]
           /\ todo' \in [Callers -> SUBSET Ids] /\ disturbed' \in SUBSET Ids
           /\ call'[c] = NoCall /\ ~ Busy(c)' /\ call'[c].step = Idle
           /\ tx[c] = "open" => tx'[c] = "failed"
           /\ tx[c] # "open" => tx'[c] = tx[c]
           /\ todo'[c] = {}
           /\ disturbed' = disturbed \cup left \cup todo[c]
           /\ UNCHANGED <<made, absent, calls, overlapped>>
           /\ \A d \in Callers : d # c =>
                 call'[d] = call[d] /\ tx'[d] = tx[d] /\ todo'[d] = todo[d] /\ (Busy(d)' <=> Busy(d))
  <1>1. call' = [call EXCEPT ![c] = NoCall]
    BY DEF Fail
  <1>2. /\ call' \in [Callers -> Calls \cup {NoCall}]
        /\ call'[c] = NoCall /\ ~ Busy(c)' /\ call'[c].step = Idle
        /\ \A d \in Callers : d # c => call'[d] = call[d] /\ (Busy(d)' <=> Busy(d))
    BY <1>1, Returned
  <1>3. /\ tx' \in [Callers -> {"none", "open", "failed", "hooks"}]
        /\ tx[c] = "open" => tx'[c] = "failed"
        /\ tx[c] # "open" => tx'[c] = tx[c]
        /\ \A d \in Callers : d # c => tx'[d] = tx[d]
    BY DEF Fail, TypeOK
  <1>4. /\ todo' \in [Callers -> SUBSET Ids] /\ todo'[c] = {}
        /\ \A d \in Callers : d # c => todo'[d] = todo[d]
    BY DEF Fail, TypeOK
  <1>5. /\ disturbed' = disturbed \cup left \cup todo[c]
        /\ UNCHANGED <<made, absent, calls, overlapped>>
    BY DEF Fail
  <1>6. disturbed' \in SUBSET Ids
    BY <1>5 DEF TypeOK
  <1> QED
    BY <1>2, <1>3, <1>4, <1>5, <1>6

--------------------------------------------------------------------------------
\* Files and links

LEMMA InitFiles == Init => FilesInv
  <1> SUFFICES ASSUME Init PROVE FilesInv
    OBVIOUS
  <1>1. TypeOK
    <2>1. NoFile \in Files
      BY DEF NoFile, Files
    <2>2. file \in [Ids -> [Kinds -> Files]]
      BY <2>1 DEF Init
    <2>3. link \in [Ids -> [Kinds -> BOOLEAN]] /\ served \in [Ids -> [Kinds -> Versions \cup {0}]]
      BY DEF Init
    <2>4. call \in [Callers -> Calls \cup {NoCall}]
      BY DEF Init
    <2>5. /\ tx \in [Callers -> {"none", "open", "failed", "hooks"}]
          /\ made \in [Callers -> SUBSET Ids] /\ todo \in [Callers -> SUBSET Ids]
      BY DEF Init
    <2>6. calls \in 0 .. MaxCalls /\ faults \in 0 .. MaxFaults
      BY ReverseProxyAssumption DEF Init
    <2>7. settled \in [Ids -> SUBSET (Versions \cup {0})]
      BY DEF Init
    <2> QED
      BY <2>2, <2>3, <2>4, <2>5, <2>6, <2>7 DEF Init, TypeOK
  <1>2. ASSUME NEW c \in Callers PROVE ~ Busy(c) /\ CallInv(c)
    BY Distinct DEF Init, CallInv, Busy, NoCall
  <1>3. ASSUME NEW id \in Ids PROVE RouteInv(id)
    BY DEF Init, RouteInv, LeftInv, Whole, Gone, Kinds
  <1> QED
    BY <1>1, <1>2, <1>3 DEF FilesInv, Alone, HereInv

\* A route that a step leaves alone keeps its invariant.
LEMMA SameRoute ==
    ASSUME NEW id \in Ids, RouteInv(id),
           file'[id] = file[id], link'[id] = link[id], settled'[id] \subseteq settled[id],
           id \in disturbed => id \in disturbed', id \in overlapped => id \in overlapped',
           id \in absent' => id \in absent \/ id \in disturbed'
    PROVE  RouteInv(id)'
  BY DEF RouteInv, LeftInv, Whole, Gone

\* So does a call at it.
LEMMA SameCall ==
    ASSUME NEW c \in Callers, NEW id \in Ids, HereInv(c, id), call'[c] = call[c],
           file'[id] = file[id], link'[id] = link[id], settled'[id] \subseteq settled[id],
           id \in disturbed => id \in disturbed', id \in overlapped => id \in overlapped',
           id \in absent' => id \in absent \/ id \in disturbed'
    PROVE  HereInv(c, id)'
  BY DEF HereInv, CreateInv, DeleteInv, Gone, Made, Busy

\* A step of a call has nothing to do with the other routes, and with the other calls
\* only when they are at the same route, which is remembered.
LEMMA Elsewhere ==
    ASSUME FilesInv, NEW c \in Callers, NEW id \in Ids, Busy(c), call[c].id = id,
           \A d \in Callers : d # c => call'[d] = call[d],
           Busy(c)' => call'[c].id = id,
           \A i \in Ids : i # id => /\ file'[i] = file[i] /\ link'[i] = link[i]
                                    /\ settled'[i] = settled[i]
                                    /\ i \in disturbed => i \in disturbed'
                                    /\ i \in absent' => i \in absent,
           overlapped' = overlapped,
           id \notin overlapped => HereInv(c, id)' /\ LeftInv(id)'
    PROVE  /\ \A d, e \in Callers : Alone(d, e)'
           /\ \A d \in Callers, i \in Ids : HereInv(d, i)'
           /\ \A i \in Ids : RouteInv(i)'
  <1>1. ASSUME NEW d \in Callers, NEW e \in Callers PROVE Alone(d, e)'
    <2>1. Alone(d, e) /\ Alone(c, e) /\ Alone(d, c)
      BY DEF FilesInv
    <2> QED
      BY <2>1 DEF Alone, Busy
  <1>2. ASSUME NEW d \in Callers, NEW i \in Ids PROVE HereInv(d, i)'
    <2>1. HereInv(d, i) /\ Alone(c, d)
      BY DEF FilesInv
    <2>2. CASE i # id /\ d # c
      BY <2>1, <2>2, SameCall
    <2>3. CASE i # id /\ d = c
      BY <2>3 DEF HereInv
    <2>4. CASE i = id /\ d # c
      BY <2>1, <2>4 DEF HereInv, Alone, Busy
    <2>5. CASE i = id /\ d = c
      BY <2>5 DEF HereInv
    <2> QED
      BY <2>2, <2>3, <2>4, <2>5
  <1>3. ASSUME NEW i \in Ids PROVE RouteInv(i)'
    <2>1. RouteInv(i)
      BY DEF FilesInv
    <2>2. CASE i # id
      BY <2>1, <2>2, SameRoute
    <2>3. CASE i = id
      BY <2>3 DEF RouteInv
    <2> QED
      BY <2>2, <2>3
  <1> QED
    BY <1>1, <1>2, <1>3

\* What the other callers are in stays as it is.
LEMMA SameCaller ==
    ASSUME NEW c \in Callers, CallInv(c), call'[c] = call[c], tx'[c] = tx[c],
           made'[c] = made[c], todo'[c] = todo[c], c \in jobs' => c \in jobs
    PROVE  CallInv(c)'
  BY DEF CallInv, Busy

\* A call begins.
LEMMA Started ==
    ASSUME FilesInv, NEW c \in Callers, NEW id \in Ids, NEW v \in Versions \cup {0},
           NEW o \in {"create", "delete", "rollback"}, NEW s \in {WriteConf, StatLinkConf},
           s = WriteConf <=> o = "create",
           Start(c, o, id, v, s), absent' \in SUBSET absent,
           o = "create" => id \in absent /\ id \notin absent'
    PROVE  /\ call' \in [Callers -> Calls \cup {NoCall}] /\ overlapped' \in SUBSET Ids
           /\ settled' \in [Ids -> SUBSET (Versions \cup {0})]
           /\ Busy(c)' /\ call'[c].op = o /\ call'[c].ver = v /\ call'[c].step = s
           /\ call'[c].id = id
           /\ \A d \in Callers : d # c => call'[d] = call[d]
           /\ \A i \in Ids : settled'[i] \subseteq settled[i]
           /\ \A d, e \in Callers : Alone(d, e)'
           /\ \A d \in Callers, i \in Ids : HereInv(d, i)'
           /\ \A i \in Ids : RouteInv(i)'
  <1> DEFINE new == [step |-> s, op |-> o, id |-> id, ver |-> v]
  <1>1. TypeOK /\ s \in Steps /\ s # Idle /\ ~ Busy(c)
    BY Known, Distinct DEF FilesInv, Start, Creating, Deleting
  <1>2. new \in Calls
    BY <1>1 DEF Calls
  <1>3. /\ call' \in [Callers -> Calls \cup {NoCall}] /\ call'[c] = new
        /\ \A d \in Callers : d # c => call'[d] = call[d]
    BY <1>1, <1>2 DEF TypeOK, Start
  <1>4. /\ settled' \in [Ids -> SUBSET (Versions \cup {0})] /\ settled'[id] = {}
        /\ \A i \in Ids : settled'[i] \subseteq settled[i]
    BY <1>1 DEF TypeOK, Start
  <1>5. /\ call'[c].op = o /\ call'[c].ver = v /\ call'[c].step = s /\ call'[c].id = id
        /\ Busy(c)'
    BY <1>1, <1>3 DEF Busy
  <1>6. /\ UNCHANGED <<file, link, disturbed>>
        /\ overlapped' \in SUBSET Ids /\ overlapped \in SUBSET overlapped'
        /\ (\E d \in Callers \ {c} : Busy(d) /\ call[d].id = id) => id \in overlapped'
    BY <1>1 DEF Start, TypeOK, disk
  <1> HIDE DEF new
  <1>7. ASSUME NEW d \in Callers, NEW e \in Callers PROVE Alone(d, e)'
    <2>1. CASE d # c /\ e # c
      BY <1>3, <1>6, <2>1 DEF FilesInv, Alone, Busy
    <2>2. CASE d = c \/ e = c
      BY <1>3, <1>5, <1>6, <2>2 DEF Alone, Busy
    <2> QED
      BY <2>1, <2>2
  <1>8. ASSUME NEW i \in Ids PROVE RouteInv(i)'
    BY <1>4, <1>6, SameRoute DEF FilesInv
  <1>9. ASSUME NEW d \in Callers, NEW i \in Ids PROVE HereInv(d, i)'
    <2>1. CASE d # c
      BY <1>3, <1>4, <1>6, <2>1, SameCall DEF FilesInv
    <2>2. CASE d = c /\ i # id
      BY <1>5, <2>2 DEF HereInv
    <2>3. CASE d = c /\ i = id
      <3> SUFFICES ASSUME id \notin overlapped' PROVE CreateInv(c, id)' /\ DeleteInv(c, id)'
        BY <1>4, <2>3 DEF HereInv
      <3>1. id \in absent /\ id \notin disturbed => Gone(id, "conf") /\ Gone(id, "map")
        BY <1>6 DEF FilesInv, RouteInv, LeftInv
      <3>2. DeleteInv(c, id)'
        BY <1>5, Distinct DEF DeleteInv, Reloading, Creating, Deleting
      <3>3. CreateInv(c, id)'
        BY <1>5, <1>6, <3>1, Distinct DEF CreateInv, Gone, Reloading, Creating, Deleting
      <3> QED
        BY <3>2, <3>3
    <2> QED
      BY <2>1, <2>2, <2>3
  <1> QED
    BY <1>3, <1>4, <1>5, <1>6, <1>7, <1>8, <1>9

LEMMA CreateFiles ==
    ASSUME FilesInv, NEW c \in Callers, NEW id \in Ids, NEW v \in Versions, Create(c, id, v)
    PROVE  FilesInv'
  <1>1. TypeOK /\ WriteConf = <<"write", "conf">>
    BY DEF FilesInv, WriteConf
  <1>2. /\ Start(c, "create", id, v, WriteConf)
        /\ id \in absent /\ id \notin absent' /\ absent' \in SUBSET absent
    BY <1>1 DEF Create, TypeOK
  <1>3. /\ call' \in [Callers -> Calls \cup {NoCall}] /\ overlapped' \in SUBSET Ids
        /\ settled' \in [Ids -> SUBSET (Versions \cup {0})]
        /\ Busy(c)' /\ call'[c].op = "create" /\ call'[c].ver = v /\ call'[c].step = WriteConf
        /\ call'[c].id = id
        /\ \A d \in Callers : d # c => call'[d] = call[d]
        /\ \A d, e \in Callers : Alone(d, e)'
        /\ \A d \in Callers, i \in Ids : HereInv(d, i)'
        /\ \A i \in Ids : RouteInv(i)'
    BY <1>2, Started
  <1>4. /\ made' \in [Callers -> SUBSET Ids] /\ id \in made'[c]
        /\ \A d \in Callers : d # c => made'[d] = made[d]
        /\ calls' \in 0 .. MaxCalls
        /\ tx[c] = "open" /\ ~ Busy(c)
        /\ UNCHANGED <<tx, todo, disk, served, jobs, faults, disturbed, refused>>
    BY <1>1, ReverseProxyAssumption DEF Create, Start, TypeOK
  <1>5. TypeOK'
    BY <1>1, <1>2, <1>3, <1>4 DEF TypeOK, disk
  <1>6. ASSUME NEW d \in Callers PROVE CallInv(d)'
    <2>1. CallInv(d)
      BY DEF FilesInv
    <2>2. CASE d = c
      <3>1. c \notin jobs' /\ todo'[c] = {}
        BY <1>1, <1>4, <2>1, <2>2, Distinct DEF CallInv, Busy, Reloading
      <3> QED
        BY <1>3, <1>4, <2>2, <3>1, Distinct DEF CallInv, Creating, Deleting
    <2>3. CASE d # c
      BY <1>3, <1>4, <2>1, <2>3, SameCaller
    <2> QED
      BY <2>2, <2>3
  <1> QED
    BY <1>3, <1>5, <1>6 DEF FilesInv

LEMMA DeleteFiles ==
    ASSUME FilesInv, NEW c \in Callers, NEW id \in Ids,
           Delete(c, id) \/ DeleteProxyRoute(c, id)
    PROVE  FilesInv'
  <1>1. TypeOK /\ StatLinkConf = <<"statlink", "conf">> /\ StatLinkConf # WriteConf
    BY Distinct DEF FilesInv, StatLinkConf, Deleting
  <1>2. PICK o \in {"delete", "rollback"} :
            /\ Start(c, o, id, 0, StatLinkConf)
            /\ tx[c] = IF o = "delete" THEN "open" ELSE "hooks"
    BY <1>1 DEF Delete, DeleteProxyRoute
  <1>3. absent' = absent
    BY DEF Delete, DeleteProxyRoute
  <1>4. /\ call' \in [Callers -> Calls \cup {NoCall}] /\ overlapped' \in SUBSET Ids
        /\ settled' \in [Ids -> SUBSET (Versions \cup {0})]
        /\ Busy(c)' /\ call'[c].op = o /\ call'[c].ver = 0 /\ call'[c].step = StatLinkConf
        /\ call'[c].id = id
        /\ \A d \in Callers : d # c => call'[d] = call[d]
        /\ \A d, e \in Callers : Alone(d, e)'
        /\ \A d \in Callers, i \in Ids : HereInv(d, i)'
        /\ \A i \in Ids : RouteInv(i)'
    BY <1>1, <1>2, <1>3, Started
  <1>5. /\ UNCHANGED <<tx, made, disk, served, jobs, faults, disturbed, refused>>
        /\ ~ Busy(c) /\ calls' \in 0 .. MaxCalls
        /\ todo' \in [Callers -> SUBSET Ids] /\ todo'[c] \in SUBSET todo[c]
        /\ \A d \in Callers : d # c => todo'[d] = todo[d]
    BY <1>1, ReverseProxyAssumption DEF Delete, DeleteProxyRoute, Start, TypeOK
  <1>6. TypeOK'
    BY <1>1, <1>3, <1>4, <1>5 DEF TypeOK, disk
  <1>7. ASSUME NEW d \in Callers PROVE CallInv(d)'
    <2>1. CallInv(d)
      BY DEF FilesInv
    <2>2. CASE d = c
      <3>1. tx'[c] = IF o = "delete" THEN "open" ELSE "hooks"
        BY <1>2, <1>5
      <3>2. c \notin jobs' /\ (todo'[c] # {} => tx'[c] = "hooks")
        BY <1>1, <1>5, <2>1, <2>2, Distinct DEF CallInv, Busy, Reloading
      <3> QED
        BY <1>1, <1>4, <2>2, <3>1, <3>2, Distinct DEF CallInv, Creating, Deleting
    <2>3. CASE d # c
      BY <1>4, <1>5, <2>1, <2>3, SameCaller
    <2> QED
      BY <2>2, <2>3
  <1> QED
    BY <1>4, <1>6, <1>7 DEF FilesInv

\* Steps of transactions: no call and no file changes.
LEMMA Unmoved ==
    ASSUME FilesInv, UNCHANGED <<call, file, link, settled, overlapped>>,
           \A i \in Ids : i \in disturbed => i \in disturbed',
           \A i \in Ids : i \in absent' => i \in absent \/ i \in disturbed'
    PROVE  /\ \A d, e \in Callers : Alone(d, e)'
           /\ \A d \in Callers, i \in Ids : HereInv(d, i)'
           /\ \A i \in Ids : RouteInv(i)'
  <1>1. ASSUME NEW d \in Callers, NEW e \in Callers PROVE Alone(d, e)'
    BY DEF FilesInv, Alone, Busy
  <1>2. ASSUME NEW d \in Callers, NEW i \in Ids PROVE HereInv(d, i)'
    BY SameCall DEF FilesInv
  <1>3. ASSUME NEW i \in Ids PROVE RouteInv(i)'
    BY SameRoute DEF FilesInv
  <1> QED
    BY <1>1, <1>2, <1>3

LEMMA TransactionFiles ==
    ASSUME FilesInv, NEW c \in Callers, Begin(c) \/ Commit(c) \/ Rollback(c) \/ LastHook(c)
    PROVE  FilesInv'
  <1>1. TypeOK
    BY DEF FilesInv
  <1>2. /\ UNCHANGED <<call, file, link, served, jobs, calls, faults, settled, overlapped, refused>>
        /\ disturbed \subseteq disturbed' /\ disturbed' \in SUBSET Ids
        /\ absent' \in SUBSET Ids /\ \A i \in absent' : i \in absent \/ i \in disturbed'
    BY <1>1 DEF Begin, Commit, Rollback, LastHook, disk, history, TypeOK
  <1>3. /\ \A d, e \in Callers : Alone(d, e)'
        /\ \A d \in Callers, i \in Ids : HereInv(d, i)'
        /\ \A i \in Ids : RouteInv(i)'
    BY <1>2, Unmoved
  <1>4. /\ tx' \in [Callers -> {"none", "open", "failed", "hooks"}]
        /\ \A d \in Callers : d # c => tx'[d] = tx[d]
    <2>1. \E x \in {"none", "open", "failed", "hooks"} : tx' = [tx EXCEPT ![c] = x]
      BY DEF Begin, Commit, Rollback, LastHook
    <2> QED
      BY <1>1, <2>1 DEF TypeOK
  <1>5. /\ made' \in [Callers -> SUBSET Ids]
        /\ \A d \in Callers : d # c => made'[d] = made[d]
    BY <1>1 DEF Begin, Commit, Rollback, LastHook, TypeOK
  <1>6. /\ todo' \in [Callers -> SUBSET Ids]
        /\ \A d \in Callers : d # c => todo'[d] = todo[d]
        /\ todo'[c] # {} => tx'[c] = "hooks"
    <2>1. todo[c] # {} => tx[c] = "hooks"
      BY DEF FilesInv, CallInv
    <2>2. CASE Rollback(c)
      BY <1>1, <1>5, <2>2 DEF Rollback, TypeOK
    <2>3. CASE Begin(c) \/ Commit(c) \/ LastHook(c)
      BY <1>1, <2>1, <2>3 DEF Begin, Commit, LastHook, TypeOK
    <2> QED
      BY <2>2, <2>3
  <1>7. Busy(c) => UNCHANGED <<made, tx>>
    <2>1. Busy(c) => tx[c] # "none"
      BY <1>1, BusyCall DEF FilesInv, CallInv
    <2> QED
      BY <2>1 DEF Begin, Commit, Rollback, LastHook
  <1>8. TypeOK'
    BY <1>1, <1>2, <1>4, <1>5, <1>6 DEF TypeOK
  <1>9. ASSUME NEW d \in Callers PROVE CallInv(d)'
    <2>1. CallInv(d)
      BY DEF FilesInv
    <2>2. CASE d = c
      BY <1>2, <1>6, <1>7, <2>1, <2>2 DEF CallInv, Busy
    <2>3. CASE d # c
      BY <1>2, <1>4, <1>5, <1>6, <2>1, <2>3, SameCaller
    <2> QED
      BY <2>2, <2>3
  <1> QED
    BY <1>3, <1>8, <1>9 DEF FilesInv

\* At a route that nobody else is at.
LEMMA AloneHere ==
    ASSUME FilesInv, NEW c \in Callers, NEW id \in Ids, Busy(c), call[c].id = id,
           id \notin overlapped
    PROVE  CreateInv(c, id) /\ DeleteInv(c, id) /\ settled[id] = {} /\ LeftInv(id)
  BY DEF FilesInv, HereInv, RouteInv

LEMMA WriteFiles ==
    ASSUME FilesInv, NEW c \in Callers, NEW id \in Ids, call[c].id = id, WriteToFile(c)
    PROVE  FilesInv'
  <1>1. TypeOK /\ Busy(c) /\ CallInv(c)
    BY Verbal DEF FilesInv, WriteToFile, At, Busy
  <1>2. /\ call[c].step \in Steps
        /\ \/ call[c].step = WriteConf /\ call[c].step[2] = "conf" /\ After(call[c].step) = LinkConf
           \/ call[c].step = WriteMap /\ call[c].step[2] = "map" /\ After(call[c].step) = LinkMap
    BY <1>1, BusyCall, Places, AfterPlaces DEF WriteToFile, At
  <1>3. call[c].op = "create" /\ call[c].ver \in Versions /\ c \notin jobs
    BY <1>1, <1>2, Distinct DEF CallInv, Creating, Reloading
  <1> DEFINE k == call[c].step[2]
             new == Written(file[id][k], call[c].ver)
  <1>4. k \in Kinds /\ file[id][k] \in Files
    BY <1>1, <1>2 DEF Kinds, TypeOK
  <1>5. new \in Files /\ new.version = call[c].ver /\ new # NoFile
        /\ (file[id][k] = NoFile => new.clean)
    BY <1>3, <1>4, WrittenFile
  <1>6. file' = [file EXCEPT ![id][k] = new]
    BY DEF WriteToFile
  <1> HIDE DEF new
  <1>7. /\ file' \in [Ids -> [Kinds -> Files]] /\ file'[id][k] = new
        /\ \A j \in Kinds : j # k => file'[id][j] = file[id][j]
        /\ \A i \in Ids : i # id => file'[i] = file[i]
    BY <1>1, <1>4, <1>5, <1>6 DEF TypeOK
  <1>8. /\ call' \in [Callers -> Calls \cup {NoCall}]
        /\ call'[c].step = After(call[c].step) /\ call'[c].op = "create"
        /\ call'[c].id = id /\ call'[c].ver = call[c].ver
        /\ \A d \in Callers : d # c => call'[d] = call[d]
        /\ Busy(c)'
    <2>1. After(call[c].step) \in Steps /\ GoOn(c)
      BY <1>2, Known DEF WriteToFile, Creating
    <2> QED
      BY <1>1, <1>3, <2>1, WentOn
  <1>9. UNCHANGED <<link, served, jobs, tx, made, todo, absent, calls, faults, settled,
                    disturbed, overlapped, refused>>
    BY DEF WriteToFile, work, history
  <1>10. TypeOK'
    BY <1>1, <1>7, <1>8, <1>9 DEF TypeOK
  <1>11. ASSUME NEW d \in Callers PROVE CallInv(d)'
    <2>1. CallInv(d)
      BY DEF FilesInv
    <2>2. CASE d = c
      <3>1. call'[c].step \in {LinkConf, LinkMap}
        BY <1>2, <1>8
      <3> QED
        BY <1>1, <1>3, <1>8, <1>9, <2>2, <3>1, Distinct DEF CallInv, Busy, Creating, Deleting
    <2>3. CASE d # c
      BY <1>8, <1>9, <2>1, <2>3, SameCaller
    <2> QED
      BY <2>2, <2>3
  <1>12. ASSUME id \notin overlapped PROVE HereInv(c, id)' /\ LeftInv(id)'
    <2>1. CreateInv(c, id) /\ settled[id] = {} /\ LeftInv(id)
      BY <1>1, <1>12, AloneHere
    <2>2. CASE call[c].step = WriteConf
      <3>1. /\ call'[c].step = LinkConf /\ file'[id]["map"] = file[id]["map"]
            /\ file'[id]["conf"] = new /\ (file[id]["conf"] = NoFile => new.clean)
        BY <1>2, <1>5, <1>7, <1>8, <2>2, Distinct DEF Kinds, Creating
      <3>2. CreateInv(c, id)' /\ DeleteInv(c, id)'
        BY <1>1, <1>3, <1>5, <1>8, <1>9, <2>1, <2>2, <3>1, Distinct
        DEF CreateInv, DeleteInv, LeftInv, Gone, Made, Busy, Creating, Deleting, Reloading
      <3>3. LeftInv(id)'
        BY <1>1, <1>3, <1>5, <1>9, <2>1, <2>2, <3>1, Distinct
        DEF CreateInv, LeftInv, Whole, Gone
      <3> QED
        BY <1>9, <2>1, <3>2, <3>3 DEF HereInv
    <2>3. CASE call[c].step = WriteMap
      <3>1. /\ call'[c].step = LinkMap /\ file'[id]["conf"] = file[id]["conf"]
            /\ file'[id]["map"] = new /\ (file[id]["map"] = NoFile => new.clean)
        BY <1>2, <1>5, <1>7, <1>8, <2>3, Distinct DEF Kinds, Creating
      <3>2. CreateInv(c, id)' /\ DeleteInv(c, id)'
        BY <1>1, <1>3, <1>5, <1>8, <1>9, <2>1, <2>3, <3>1, Distinct
        DEF CreateInv, DeleteInv, LeftInv, Gone, Made, Busy, Creating, Deleting, Reloading
      <3>3. LeftInv(id)'
        BY <1>1, <1>3, <1>5, <1>9, <2>1, <2>3, <3>1, Distinct
        DEF CreateInv, LeftInv, Whole, Gone
      <3> QED
        BY <1>9, <2>1, <3>2, <3>3 DEF HereInv
    <2> QED
      BY <1>2, <2>2, <2>3
  <1>13. /\ \A d, e \in Callers : Alone(d, e)'
         /\ \A d \in Callers, i \in Ids : HereInv(d, i)'
         /\ \A i \in Ids : RouteInv(i)'
    BY <1>1, <1>7, <1>8, <1>9, <1>12, Elsewhere
  <1> QED
    BY <1>10, <1>11, <1>13 DEF FilesInv

LEMMA LinkFiles ==
    ASSUME FilesInv, NEW c \in Callers, NEW id \in Ids, call[c].id = id, CreateSymbolicLink(c)
    PROVE  FilesInv'
  <1>1. TypeOK /\ Busy(c) /\ CallInv(c)
    BY Verbal DEF FilesInv, CreateSymbolicLink, At, Busy
  <1>2. /\ call[c].step \in Steps
        /\ \/ call[c].step = LinkConf /\ call[c].step[2] = "conf" /\ After(call[c].step) = WriteMap
           \/ call[c].step = LinkMap /\ call[c].step[2] = "map" /\ After(call[c].step) = Connect
    BY <1>1, BusyCall, Places, AfterPlaces DEF CreateSymbolicLink, At
  <1>3. call[c].op = "create" /\ call[c].ver \in Versions /\ c \notin jobs
    BY <1>1, <1>2, Distinct DEF CallInv, Creating, Reloading
  <1> DEFINE k == call[c].step[2]
  <1>4. k \in Kinds
    BY <1>2 DEF Kinds
  <1>5. link' = [link EXCEPT ![id][k] = TRUE]
    BY DEF CreateSymbolicLink
  <1>6. /\ link' \in [Ids -> [Kinds -> BOOLEAN]] /\ link'[id][k] = TRUE
        /\ \A j \in Kinds : j # k => link'[id][j] = link[id][j]
        /\ \A i \in Ids : i # id => link'[i] = link[i]
    BY <1>1, <1>4, <1>5 DEF TypeOK
  <1>7. /\ call' \in [Callers -> Calls \cup {NoCall}]
        /\ call'[c].step = After(call[c].step) /\ call'[c].op = "create"
        /\ call'[c].id = id /\ call'[c].ver = call[c].ver
        /\ \A d \in Callers : d # c => call'[d] = call[d]
        /\ Busy(c)'
    <2>1. After(call[c].step) \in Steps /\ GoOn(c)
      BY <1>2, Known DEF CreateSymbolicLink, Creating
    <2> QED
      BY <1>1, <1>3, <2>1, WentOn
  <1>8. UNCHANGED <<file, served, jobs, tx, made, todo, absent, calls, faults, settled,
                    disturbed, overlapped, refused>>
    BY DEF CreateSymbolicLink, work, history
  <1>9. TypeOK'
    BY <1>1, <1>6, <1>7, <1>8 DEF TypeOK
  <1>10. ASSUME NEW d \in Callers PROVE CallInv(d)'
    <2>1. CallInv(d)
      BY DEF FilesInv
    <2>2. CASE d = c
      <3>1. call'[c].step \in {WriteMap, Connect}
        BY <1>2, <1>7
      <3> QED
        BY <1>1, <1>3, <1>7, <1>8, <2>2, <3>1, Distinct DEF CallInv, Busy, Creating, Deleting
    <2>3. CASE d # c
      BY <1>7, <1>8, <2>1, <2>3, SameCaller
    <2> QED
      BY <2>2, <2>3
  <1>11. ASSUME id \notin overlapped PROVE HereInv(c, id)' /\ LeftInv(id)'
    <2>1. CreateInv(c, id) /\ settled[id] = {} /\ LeftInv(id)
      BY <1>1, <1>11, AloneHere
    <2>2. CASE call[c].step = LinkConf
      <3>1. /\ call'[c].step = WriteMap /\ link'[id]["map"] = link[id]["map"]
            /\ link'[id]["conf"] = TRUE
        BY <1>2, <1>6, <1>7, <2>2, Distinct DEF Kinds, Creating
      <3>2. CreateInv(c, id)' /\ DeleteInv(c, id)'
        BY <1>1, <1>3, <1>7, <1>8, <2>1, <2>2, <3>1, Distinct
        DEF CreateInv, DeleteInv, Gone, Made, Busy, Creating, Deleting, Reloading
      <3>3. LeftInv(id)'
        BY <1>1, <1>3, <1>8, <2>1, <2>2, <3>1, Distinct
        DEF CreateInv, LeftInv, Whole, Gone, Made
      <3> QED
        BY <1>8, <2>1, <3>2, <3>3 DEF HereInv
    <2>3. CASE call[c].step = LinkMap
      <3>1. /\ call'[c].step = Connect /\ link'[id]["conf"] = link[id]["conf"]
            /\ link'[id]["map"] = TRUE
        BY <1>2, <1>6, <1>7, <2>3, Distinct DEF Kinds, Creating
      <3>2. CreateInv(c, id)' /\ DeleteInv(c, id)'
        BY <1>1, <1>3, <1>7, <1>8, <2>1, <2>3, <3>1, Distinct
        DEF CreateInv, DeleteInv, Gone, Made, Busy, Creating, Deleting, Reloading
      <3>3. LeftInv(id)'
        BY <1>1, <1>3, <1>8, <2>1, <2>3, <3>1, Distinct
        DEF CreateInv, LeftInv, Whole, Gone, Made
      <3> QED
        BY <1>8, <2>1, <3>2, <3>3 DEF HereInv
    <2> QED
      BY <1>2, <2>2, <2>3
  <1>12. /\ \A d, e \in Callers : Alone(d, e)'
         /\ \A d \in Callers, i \in Ids : HereInv(d, i)'
         /\ \A i \in Ids : RouteInv(i)'
    BY <1>1, <1>6, <1>7, <1>8, <1>11, Elsewhere
  <1> QED
    BY <1>9, <1>10, <1>12 DEF FilesInv

\* Delete and the hook: the link goes before its file.
LEMMA StatFindsFiles ==
    ASSUME FilesInv, NEW c \in Callers, NEW id \in Ids, call[c].id = id, StatFinds(c)
    PROVE  FilesInv'
  <1>1. TypeOK /\ Busy(c) /\ CallInv(c)
    BY Verbal DEF FilesInv, StatFinds, At, Busy
  <1> DEFINE s == <<IF call[c].step[1] = "statlink" THEN "unlink" ELSE "remove", call[c].step[2]>>
  <1>2. \/ call[c].step = StatLinkConf /\ s = UnlinkConf
        \/ call[c].step = StatLinkMap /\ s = UnlinkMap
        \/ call[c].step = StatFileConf /\ s = RemoveConf
        \/ call[c].step = StatFileMap /\ s = RemoveMap
    <2>1. call[c].step \in {StatLinkConf, StatLinkMap, StatFileConf, StatFileMap}
      BY <1>1, BusyCall, Places DEF StatFinds, At
    <2> QED
      BY <2>1 DEF StatLinkConf, StatLinkMap, StatFileConf, StatFileMap, UnlinkConf, UnlinkMap,
                  RemoveConf, RemoveMap
  <1>3. call' = [call EXCEPT ![c].step = s]
    BY DEF StatFinds
  <1>4. s \in Steps /\ s \in Deleting
    BY <1>2, Known DEF Deleting
  <1> HIDE DEF s
  <1>5. call[c].op # "create" /\ c \notin jobs
    BY <1>1, <1>2, Distinct DEF CallInv, Deleting, Reloading
  <1>6. /\ call' \in [Callers -> Calls \cup {NoCall}]
        /\ call'[c].step = s /\ call'[c].op = call[c].op
        /\ call'[c].id = id /\ call'[c].ver = call[c].ver
        /\ \A d \in Callers : d # c => call'[d] = call[d]
        /\ Busy(c)'
    BY <1>1, <1>3, <1>4, MovedCall
  <1>7. UNCHANGED <<file, link, served, jobs, tx, made, todo, absent, calls, faults, settled,
                    disturbed, overlapped, refused>>
    BY DEF StatFinds, disk, work, history
  <1>8. TypeOK'
    BY <1>1, <1>6, <1>7 DEF TypeOK
  <1>9. ASSUME NEW d \in Callers PROVE CallInv(d)'
    <2>1. CallInv(d)
      BY DEF FilesInv
    <2>2. CASE d = c
      BY <1>1, <1>4, <1>5, <1>6, <1>7, <2>2, Distinct DEF CallInv, Busy, Creating
    <2>3. CASE d # c
      BY <1>6, <1>7, <2>1, <2>3, SameCaller
    <2> QED
      BY <2>2, <2>3
  <1>10. ASSUME id \notin overlapped PROVE HereInv(c, id)' /\ LeftInv(id)'
    <2>1. CreateInv(c, id) /\ DeleteInv(c, id) /\ settled[id] = {} /\ LeftInv(id)
      BY <1>1, <1>10, AloneHere
    <2>2. CreateInv(c, id)'
      BY <1>4, <1>5, <1>6, Distinct DEF CreateInv, Creating, Reloading
    <2>3. DeleteInv(c, id)'
      BY <1>2, <1>6, <1>7, <2>1, Distinct DEF DeleteInv, Gone, Deleting, Reloading
    <2>4. LeftInv(id)'
      BY <1>7, <2>1 DEF LeftInv, Whole, Gone
    <2> QED
      BY <1>7, <2>1, <2>2, <2>3, <2>4 DEF HereInv
  <1>11. /\ \A d, e \in Callers : Alone(d, e)'
         /\ \A d \in Callers, i \in Ids : HereInv(d, i)'
         /\ \A i \in Ids : RouteInv(i)'
    BY <1>1, <1>6, <1>7, <1>10, Elsewhere
  <1> QED
    BY <1>8, <1>9, <1>11 DEF FilesInv

\* What a step of Delete or the hook takes with it: k of the link or of the file, or
\* nothing when os.Stat has found nothing.
Removing(c, id, k) ==
    /\ call[c].step \in Deleting /\ k = call[c].step[2]
    /\ link' \in [Ids -> [Kinds -> BOOLEAN]] /\ file' \in [Ids -> [Kinds -> Files]]
    /\ \A j \in Kinds : j # k => link'[id][j] = link[id][j] /\ file'[id][j] = file[id][j]
    /\ \A i \in Ids : i # id => link'[i] = link[i] /\ file'[i] = file[i]
    /\ call[c].step \in {UnlinkConf, UnlinkMap} => ~ link'[id][k]
    /\ call[c].step \notin {UnlinkConf, UnlinkMap} => link'[id][k] = link[id][k]
    /\ call[c].step \in {RemoveConf, RemoveMap, StatFileConf, StatFileMap} =>
          file'[id][k] = NoFile
    /\ call[c].step \in {StatLinkConf, StatLinkMap, UnlinkConf, UnlinkMap} =>
          file'[id][k] = file[id][k]
    /\ call[c].step \in {StatLinkConf, StatLinkMap} => ~ link[id][k] \/ file[id][k] = NoFile
    /\ disturbed' \in SUBSET Ids /\ \A i \in Ids : i # id => (i \in disturbed' <=> i \in disturbed)
    /\ call[c].step \notin {StatFileMap, RemoveMap} => disturbed' = disturbed

LEMMA DeletingFiles ==
    ASSUME FilesInv, NEW c \in Callers, NEW id \in Ids, call[c].id = id, Busy(c), GoOn(c),
           NEW k \in Kinds, Removing(c, id, k),
           UNCHANGED <<served, jobs, tx, made, todo, absent, calls, faults, settled,
                       overlapped, refused>>
    PROVE  FilesInv'
  <1> USE DEF Removing
  <1>1. TypeOK /\ CallInv(c)
    BY DEF FilesInv
  <1>2. /\ After(call[c].step) \in Steps
        /\ \/ call[c].step \in {StatLinkConf, UnlinkConf} /\ After(call[c].step) = StatFileConf
              /\ k = "conf"
           \/ call[c].step \in {StatFileConf, RemoveConf} /\ After(call[c].step) = StatLinkMap
              /\ k = "conf"
           \/ call[c].step \in {StatLinkMap, UnlinkMap} /\ After(call[c].step) = StatFileMap
              /\ k = "map"
           \/ call[c].step \in {StatFileMap, RemoveMap} /\ After(call[c].step) = Connect
              /\ k = "map"
    <2>1. /\ \A s \in {StatLinkConf, UnlinkConf, StatFileConf, RemoveConf} : s[2] = "conf"
          /\ \A s \in {StatLinkMap, UnlinkMap, StatFileMap, RemoveMap} : s[2] = "map"
      BY DEF StatLinkConf, UnlinkConf, StatFileConf, RemoveConf, StatLinkMap, UnlinkMap,
             StatFileMap, RemoveMap
    <2> QED
      BY <2>1, AfterPlaces, Known DEF Deleting
  <1>3. call[c].op # "create" /\ c \notin jobs
    BY <1>1, Distinct DEF CallInv, Deleting, Reloading
  <1>4. /\ call' \in [Callers -> Calls \cup {NoCall}]
        /\ call'[c].step = After(call[c].step) /\ call'[c].op = call[c].op
        /\ call'[c].id = id /\ call'[c].ver = call[c].ver
        /\ \A d \in Callers : d # c => call'[d] = call[d]
        /\ Busy(c)'
    BY <1>1, <1>2, WentOn
  <1>5. link[id][k] \in BOOLEAN
    BY <1>1 DEF TypeOK
  <1>6. \A j \in Kinds : j = k \/ (link'[id][j] = link[id][j] /\ file'[id][j] = file[id][j])
    OBVIOUS
  <1>8. TypeOK'
    BY <1>1, <1>4 DEF TypeOK
  <1>9. ASSUME NEW d \in Callers PROVE CallInv(d)'
    <2>1. CallInv(d)
      BY DEF FilesInv
    <2>2. CASE d = c
      <3>1. call'[c].step \in Deleting \cup {Connect}
        BY <1>2, <1>4 DEF Deleting
      <3> QED
        BY <1>1, <1>3, <1>4, <2>2, <3>1, Distinct DEF CallInv, Busy, Creating
    <2>3. CASE d # c
      BY <1>4, <2>1, <2>3, SameCaller
    <2> QED
      BY <2>2, <2>3
  <1>10. ASSUME id \notin overlapped PROVE HereInv(c, id)' /\ LeftInv(id)'
    <2>1. DeleteInv(c, id) /\ settled[id] = {} /\ LeftInv(id)
      BY <1>10, AloneHere
    <2>2. CASE call[c].step \in {StatLinkConf, UnlinkConf}
      <3>1. /\ call'[c].step = StatFileConf /\ ~ link'[id]["conf"]
            /\ link'[id]["map"] = link[id]["map"]
            /\ file'[id]["conf"] = file[id]["conf"] /\ file'[id]["map"] = file[id]["map"]
            /\ disturbed' = disturbed
        <4>1. k = "conf" /\ call[c].step \notin {RemoveConf, RemoveMap, StatFileMap}
              /\ call'[c].step = StatFileConf
          BY <1>2, <1>4, <2>2, Distinct DEF Deleting
        <4>2. link[id]["conf"] => file[id]["conf"] # NoFile
          BY <2>1 DEF LeftInv, Whole
        <4> QED
          BY <1>6, <2>2, <4>1, <4>2 DEF Kinds
      <3> QED
        BY <1>3, <1>4, <2>1, <3>1, Distinct
        DEF HereInv, CreateInv, DeleteInv, LeftInv, Whole, Gone, Busy, Creating, Deleting, Reloading
    <2>3. CASE call[c].step \in {StatFileConf, RemoveConf}
      <3>1. /\ call'[c].step = StatLinkMap /\ ~ link'[id]["conf"] /\ link'[id]["map"] = link[id]["map"]
            /\ file'[id]["conf"] = NoFile /\ file'[id]["map"] = file[id]["map"]
            /\ disturbed' = disturbed
        <4>1. k = "conf" /\ call[c].step \notin {UnlinkConf, UnlinkMap, StatFileMap, RemoveMap}
              /\ call'[c].step = StatLinkMap
          BY <1>2, <1>4, <2>3, Distinct DEF Deleting
        <4>2. ~ link[id]["conf"]
          BY <2>1, <2>3 DEF DeleteInv
        <4> QED
          BY <1>6, <2>3, <4>1, <4>2 DEF Kinds
      <3> QED
        BY <1>3, <1>4, <2>1, <3>1, Distinct
        DEF HereInv, CreateInv, DeleteInv, LeftInv, Whole, Gone, Busy, Creating, Deleting, Reloading
    <2>4. CASE call[c].step \in {StatLinkMap, UnlinkMap}
      <3>1. /\ call'[c].step = StatFileMap /\ ~ link'[id]["map"] /\ Gone(id, "conf")
            /\ link'[id]["conf"] = link[id]["conf"]
            /\ file'[id]["conf"] = file[id]["conf"] /\ file'[id]["map"] = file[id]["map"]
            /\ disturbed' = disturbed
        <4>1. k = "map" /\ call[c].step \notin {RemoveConf, RemoveMap, StatFileMap}
              /\ call'[c].step = StatFileMap
          BY <1>2, <1>4, <2>4, Distinct DEF Deleting
        <4>2. (link[id]["map"] => file[id]["map"] # NoFile) /\ Gone(id, "conf")
          BY <2>1, <2>4 DEF LeftInv, Whole, DeleteInv
        <4> QED
          BY <1>6, <2>4, <4>1, <4>2 DEF Kinds
      <3> QED
        BY <1>3, <1>4, <2>1, <3>1, Distinct
        DEF HereInv, CreateInv, DeleteInv, LeftInv, Whole, Gone, Busy, Creating, Deleting, Reloading
    <2>5. CASE call[c].step \in {StatFileMap, RemoveMap}
      <3>1. /\ call'[c].step = Connect /\ ~ link'[id]["map"] /\ link'[id]["conf"] = link[id]["conf"]
            /\ file'[id]["map"] = NoFile /\ file'[id]["conf"] = file[id]["conf"]
            /\ Gone(id, "conf")
        <4>1. k = "map" /\ call[c].step \notin {UnlinkConf, UnlinkMap}
              /\ call'[c].step = Connect
          BY <1>2, <1>4, <2>5, Distinct DEF Deleting
        <4>2. ~ link[id]["map"] /\ Gone(id, "conf")
          BY <2>1, <2>5 DEF DeleteInv
        <4> QED
          BY <1>6, <2>5, <4>1, <4>2 DEF Kinds
      <3> QED
        BY <1>3, <1>4, <2>1, <3>1, Distinct
        DEF HereInv, CreateInv, DeleteInv, LeftInv, Whole, Gone, Busy, Creating, Deleting, Reloading
    <2> QED
      BY <2>2, <2>3, <2>4, <2>5 DEF Deleting
  <1>11. /\ \A d, e \in Callers : Alone(d, e)'
         /\ \A d \in Callers, i \in Ids : HereInv(d, i)'
         /\ \A i \in Ids : RouteInv(i)'
    BY <1>4, <1>10, Elsewhere
  <1> QED
    BY <1>8, <1>9, <1>11 DEF FilesInv

LEMMA UnlinkFiles ==
    ASSUME FilesInv, NEW c \in Callers, NEW id \in Ids, call[c].id = id,
           StatFindsNothing(c) \/ RemoveSymbolicLink(c) \/ DeleteFile(c)
    PROVE  FilesInv'
  <1>1. TypeOK /\ Busy(c) /\ GoOn(c)
    BY Verbal DEF FilesInv, StatFindsNothing, RemoveSymbolicLink, DeleteFile, At, Busy
  <1> DEFINE k == call[c].step[2]
  <1>2. UNCHANGED <<served, jobs, tx, made, todo, absent, calls, faults, settled,
                    overlapped, refused>>
    BY DEF StatFindsNothing, RemoveSymbolicLink, DeleteFile, disk, work, history
  <1>3. k \in Kinds /\ Removing(c, id, k)
    <2>0. NoFile \in Files /\ disturbed \in SUBSET Ids
      BY <1>1 DEF NoFile, Files, TypeOK
    <2>1. CASE StatFindsNothing(c)
      <3>1. \/ call[c].step \in {StatLinkConf, StatLinkMap} /\ call[c].step[1] = "statlink"
            \/ call[c].step \in {StatFileConf, StatFileMap} /\ call[c].step[1] = "statfile"
        BY <1>1, <2>1, BusyCall, Places DEF StatFindsNothing, At
      <3>2. k \in Kinds
        BY <1>1, <3>1, BusyCall, Places DEF Kinds
      <3>3. /\ call[c].step \in Deleting
            /\ call[c].step \notin {UnlinkConf, UnlinkMap, RemoveConf, RemoveMap}
        BY <3>1, Distinct DEF Deleting
      <3>4. ~ Found(id, call[c].step[1], k)
        BY <2>1 DEF StatFindsNothing
      <3>5. /\ call[c].step \in {StatLinkConf, StatLinkMap} => ~ link[id][k] \/ file[id][k] = NoFile
            /\ call[c].step \in {StatFileConf, StatFileMap} => file[id][k] = NoFile
        <4>1. call[c].step \in {StatFileConf, StatFileMap} => call[c].step[1] = "statfile"
          BY Verbal
        <4> QED
          BY <3>4, <4>1 DEF Found
      <3>6. file' = file /\ link' = link
        BY <2>1 DEF StatFindsNothing, disk
      <3>7. disturbed' = disturbed
            \/ (disturbed' = disturbed \ {id} /\ call[c].step \in {StatFileMap, RemoveMap})
        BY <2>1 DEF StatFindsNothing, Forget, StatFileMap, RemoveMap
      <3>8. link' \in [Ids -> [Kinds -> BOOLEAN]] /\ file' \in [Ids -> [Kinds -> Files]]
        BY <1>1, <3>6 DEF TypeOK
      <3>9. k = call[c].step[2]
        OBVIOUS
      <3> HIDE DEF k
      <3> QED
        BY <2>0, <3>2, <3>3, <3>5, <3>6, <3>7, <3>8, <3>9 DEF Removing
    <2>2. CASE RemoveSymbolicLink(c)
      <3>1. call[c].step \in {UnlinkConf, UnlinkMap} /\ k \in Kinds
        BY <1>1, <2>2, BusyCall, Places DEF RemoveSymbolicLink, At, Kinds
      <3>2. call[c].step \in Deleting
            /\ call[c].step \notin {StatLinkConf, StatLinkMap, StatFileConf, StatFileMap,
                                    RemoveConf, RemoveMap}
        BY <3>1, Distinct DEF Deleting
      <3>3. file' = file /\ disturbed' = disturbed /\ link' = [link EXCEPT ![id][k] = FALSE]
        BY <2>2 DEF RemoveSymbolicLink, history
      <3>4. k = call[c].step[2]
        OBVIOUS
      <3> HIDE DEF k
      <3>5. /\ link' \in [Ids -> [Kinds -> BOOLEAN]] /\ link'[id][k] = FALSE
            /\ \A j \in Kinds : j # k => link'[id][j] = link[id][j]
            /\ \A i \in Ids : i # id => link'[i] = link[i]
        BY <1>1, <3>1, <3>3 DEF TypeOK
      <3>6. file' \in [Ids -> [Kinds -> Files]] /\ file' = file /\ disturbed' = disturbed
        BY <1>1, <3>3 DEF TypeOK
      <3> QED
        BY <2>0, <3>1, <3>2, <3>4, <3>5, <3>6 DEF Removing
    <2>3. CASE DeleteFile(c)
      <3>1. call[c].step \in {RemoveConf, RemoveMap} /\ k \in Kinds
        BY <1>1, <2>3, BusyCall, Places DEF DeleteFile, At, Kinds
      <3>2. call[c].step \in Deleting
            /\ call[c].step \notin {StatLinkConf, StatLinkMap, UnlinkConf, UnlinkMap}
        BY <3>1, Distinct DEF Deleting
      <3>3. link' = link /\ file' = [file EXCEPT ![id][k] = NoFile]
        BY <2>3 DEF DeleteFile
      <3>4. disturbed' = disturbed
            \/ (disturbed' = disturbed \ {id} /\ call[c].step \in {StatFileMap, RemoveMap})
        BY <2>3 DEF DeleteFile, Forget, StatFileMap, RemoveMap
      <3>5. k = call[c].step[2]
        OBVIOUS
      <3> HIDE DEF k
      <3>6. /\ file' \in [Ids -> [Kinds -> Files]] /\ file'[id][k] = NoFile
            /\ \A j \in Kinds : j # k => file'[id][j] = file[id][j]
            /\ \A i \in Ids : i # id => file'[i] = file[i]
        BY <1>1, <2>0, <3>1, <3>3 DEF TypeOK
      <3>7. link' \in [Ids -> [Kinds -> BOOLEAN]] /\ link' = link
        BY <1>1, <3>3 DEF TypeOK
      <3> QED
        BY <2>0, <3>1, <3>2, <3>4, <3>5, <3>6, <3>7 DEF Removing
    <2> QED
      BY <2>1, <2>2, <2>3
  <1> QED
    BY <1>1, <1>2, <1>3, DeletingFiles

\* An error ends the call; what it leaves of the route is LeftInv.
LEMMA FailedFiles ==
    ASSUME FilesInv, NEW c \in Callers, NEW id \in Ids, call[c].id = id, Busy(c),
           NEW left \in SUBSET Ids, Fail(c, left),
           file' \in [Ids -> [Kinds -> Files]],
           \A i \in Ids : i # id => file'[i] = file[i],
           UNCHANGED <<link, served, settled>>,
           jobs' \in SUBSET (Callers \cup {"late"}), \A d \in Callers : d \in jobs' => d \in jobs,
           c \notin jobs',
           faults' \in 0 .. MaxFaults, refused' \in BOOLEAN,
           id \notin overlapped => LeftInv(id)'
    PROVE  FilesInv'
  <1>1. TypeOK
    BY DEF FilesInv
  <1>2. /\ call' \in [Callers -> Calls \cup {NoCall}]
        /\ tx' \in [Callers -> {"none", "open", "failed", "hooks"}]
        /\ todo' \in [Callers -> SUBSET Ids] /\ disturbed' \in SUBSET Ids
        /\ call'[c] = NoCall /\ ~ Busy(c)' /\ call'[c].step = Idle
        /\ todo'[c] = {}
        /\ disturbed' = disturbed \cup left \cup todo[c]
        /\ UNCHANGED <<made, absent, calls, overlapped>>
        /\ \A d \in Callers : d # c =>
              call'[d] = call[d] /\ tx'[d] = tx[d] /\ todo'[d] = todo[d] /\ (Busy(d)' <=> Busy(d))
    BY <1>1, Failed
  <1>3. TypeOK'
    BY <1>1, <1>2 DEF TypeOK
  <1>4. ASSUME NEW d \in Callers PROVE CallInv(d)'
    <2>1. CallInv(d)
      BY DEF FilesInv
    <2>2. CASE d = c
      BY <1>2, <2>2, Distinct DEF CallInv
    <2>3. CASE d # c
      BY <1>2, <2>1, <2>3, SameCaller
    <2> QED
      BY <2>2, <2>3
  <1>5. HereInv(c, id)'
    BY <1>2 DEF HereInv
  <1>6. /\ \A d, e \in Callers : Alone(d, e)'
        /\ \A d \in Callers, i \in Ids : HereInv(d, i)'
        /\ \A i \in Ids : RouteInv(i)'
    <2>1. \A i \in Ids : i # id => /\ file'[i] = file[i] /\ link'[i] = link[i]
                                   /\ settled'[i] = settled[i]
                                   /\ i \in disturbed => i \in disturbed'
                                   /\ i \in absent' => i \in absent
      BY <1>2
    <2> QED
      BY <1>2, <1>5, <2>1, Elsewhere
  <1> QED
    BY <1>3, <1>4, <1>6 DEF FilesInv

\* A file that was being written is in part there, but not linked.
LEMMA WriteFailsFiles ==
    ASSUME FilesInv, NEW c \in Callers, NEW id \in Ids, call[c].id = id, WriteFails(c)
    PROVE  FilesInv'
  <1>1. TypeOK /\ Busy(c) /\ CallInv(c)
    BY Verbal DEF FilesInv, WriteFails, At, Busy
  <1>2. /\ call[c].step \in Steps
        /\ \/ call[c].step = WriteConf /\ call[c].step[2] = "conf"
           \/ call[c].step = WriteMap /\ call[c].step[2] = "map"
    BY <1>1, BusyCall, Places DEF WriteFails, At
  <1>3. call[c].op = "create" /\ call[c].ver \in Versions /\ c \notin jobs
    BY <1>1, <1>2, Distinct DEF CallInv, Creating, Reloading
  <1> DEFINE k == call[c].step[2]
             half == [Written(file[id][k], call[c].ver) EXCEPT !.clean = FALSE]
  <1>4. k \in Kinds /\ file[id][k] \in Files
    BY <1>1, <1>2 DEF Kinds, TypeOK
  <1>5. half \in Files /\ half # NoFile
    BY <1>3, <1>4, WrittenFile
  <1>6. file' = file \/ file' = [file EXCEPT ![id][k] = half]
    BY <1>1, <1>4 DEF WriteFails, TypeOK
  <1> HIDE DEF half
  <1>7. /\ file' \in [Ids -> [Kinds -> Files]]
        /\ file'[id][k] \in {file[id][k], half}
        /\ \A j \in Kinds : j # k => file'[id][j] = file[id][j]
        /\ \A i \in Ids : i # id => file'[i] = file[i]
    <2>1. CASE file' = file
      BY <1>1, <2>1 DEF TypeOK
    <2>2. CASE file' = [file EXCEPT ![id][k] = half]
      BY <1>1, <1>4, <1>5, <2>2 DEF TypeOK
    <2> QED
      BY <1>6, <2>1, <2>2
  <1>8. /\ UNCHANGED <<link, served, jobs, settled, refused>> /\ Fail(c, {})
        /\ faults' \in 0 .. MaxFaults
    BY <1>1, ReverseProxyAssumption DEF WriteFails, Fault, TypeOK
  <1>9. disturbed \subseteq disturbed' /\ absent' = absent
    BY <1>8 DEF Fail
  <1>10. ASSUME id \notin overlapped PROVE LeftInv(id)'
    <2>1. CreateInv(c, id) /\ settled[id] = {} /\ LeftInv(id)
      BY <1>1, <1>10, AloneHere
    <2>2. id \in absent => id \in disturbed'
      BY <1>1, <1>3, <1>9, <2>1 DEF CreateInv
    <2>3. CASE call[c].step = WriteConf
      <3>1. file'[id]["map"] = file[id]["map"] /\ file'[id]["conf"] \in {file[id]["conf"], half}
        BY <1>2, <1>7, <2>3, Distinct DEF Kinds, Creating
      <3> QED
        BY <1>5, <1>8, <1>9, <2>1, <2>2, <2>3, <3>1 DEF CreateInv, LeftInv, Whole, Gone
    <2>4. CASE call[c].step = WriteMap
      <3>1. file'[id]["conf"] = file[id]["conf"] /\ file'[id]["map"] \in {file[id]["map"], half}
        BY <1>2, <1>7, <2>4, Distinct DEF Kinds, Creating
      <3> QED
        BY <1>5, <1>8, <1>9, <2>1, <2>2, <2>4, <3>1 DEF CreateInv, LeftInv, Whole, Gone
    <2> QED
      BY <1>2, <2>3, <2>4
  <1>11. jobs' \in SUBSET (Callers \cup {"late"}) /\ refused' \in BOOLEAN
    BY <1>1, <1>8 DEF TypeOK
  <1> QED
    BY <1>1, <1>3, <1>7, <1>8, <1>10, <1>11, FailedFiles

\* Errors that leave the files as they are.
LEMMA GivenUpFiles ==
    ASSUME FilesInv, NEW c \in Callers, NEW id \in Ids, call[c].id = id, Busy(c),
           NEW left \in SUBSET Ids, Fail(c, left),
           UNCHANGED <<file, link, served, settled>>,
           jobs' \in SUBSET (Callers \cup {"late"}), \A d \in Callers : d \in jobs' => d \in jobs,
           c \notin jobs',
           faults' \in 0 .. MaxFaults, refused' \in BOOLEAN
    PROVE  FilesInv'
  <1>1. disturbed \subseteq disturbed' /\ absent' = absent
    BY DEF Fail
  <1>2. ASSUME id \notin overlapped PROVE LeftInv(id)'
    <2>1. LeftInv(id)
      BY <1>2 DEF FilesInv, RouteInv
    <2> QED
      BY <1>1, <2>1 DEF LeftInv, Whole, Gone
  <1>3. file' \in [Ids -> [Kinds -> Files]] /\ \A i \in Ids : i # id => file'[i] = file[i]
    BY DEF FilesInv, TypeOK
  <1> QED
    BY <1>2, <1>3, FailedFiles

LEMMA ErrorFiles ==
    ASSUME FilesInv, NEW c \in Callers, NEW id \in Ids, call[c].id = id,
           LinkFails(c) \/ RemoveFails(c) \/ ReloadFails(c)
    PROVE  FilesInv'
  <1>1. TypeOK /\ CallInv(c)
    BY DEF FilesInv
  <1>2. Busy(c)
    BY Verbal, Distinct DEF LinkFails, RemoveFails, ReloadFails, At, Busy, Reloading
  <1>3. c \notin jobs
    <2>1. call[c].step # Wait
      BY Verbal, Distinct DEF LinkFails, RemoveFails, ReloadFails, At
    <2> QED
      BY <1>1, <2>1 DEF CallInv
  <1>4. UNCHANGED <<file, link, served, settled, jobs>> /\ refused' \in BOOLEAN
    BY <1>1 DEF LinkFails, RemoveFails, ReloadFails, disk, TypeOK
  <1>5. faults' \in 0 .. MaxFaults
    BY <1>1, ReverseProxyAssumption DEF LinkFails, RemoveFails, ReloadFails, Fault, TypeOK
  <1>6. PICK left \in {{}, {id}} : Fail(c, left)
    BY DEF LinkFails, RemoveFails, ReloadFails
  <1>7. left \in SUBSET Ids /\ jobs' \in SUBSET (Callers \cup {"late"})
    BY <1>1, <1>4 DEF TypeOK
  <1> QED
    BY <1>2, <1>3, <1>4, <1>5, <1>6, <1>7, GivenUpFiles

\* A reload that is given up or refused.
LEMMA TimeoutFiles ==
    ASSUME FilesInv, NEW c \in Callers, NEW id \in Ids, call[c].id = id, ReloadTimeout(c)
    PROVE  FilesInv'
  <1>1. TypeOK /\ Busy(c) /\ "late" \notin Callers /\ Fail(c, {})
    BY Distinct, ReverseProxyAssumption DEF FilesInv, ReloadTimeout, Busy, Reloading
  <1>2. UNCHANGED <<file, link, served, settled>> /\ refused' \in BOOLEAN /\ faults' \in 0 .. MaxFaults
    BY <1>1 DEF ReloadTimeout, disk, TypeOK
  <1>3. /\ jobs' \in SUBSET (Callers \cup {"late"}) /\ c \notin jobs'
        /\ \A d \in Callers : d \in jobs' => d \in jobs
    BY <1>1 DEF ReloadTimeout, TypeOK
  <1> QED
    BY <1>1, <1>2, <1>3, GivenUpFiles

LEMMA ConnectFiles ==
    ASSUME FilesInv, NEW c \in Callers, NEW id \in Ids, call[c].id = id, ReloadUnitContext(c)
    PROVE  FilesInv'
  <1>1. TypeOK /\ Busy(c) /\ CallInv(c) /\ call[c].step = Connect
    BY Distinct DEF FilesInv, ReloadUnitContext, Busy, Reloading
  <1>2. Wait \in Steps /\ call' = [call EXCEPT ![c].step = Wait]
    BY Known DEF ReloadUnitContext
  <1>3. /\ call' \in [Callers -> Calls \cup {NoCall}]
        /\ call'[c].step = Wait /\ call'[c].op = call[c].op
        /\ call'[c].id = id /\ call'[c].ver = call[c].ver
        /\ \A d \in Callers : d # c => call'[d] = call[d]
        /\ Busy(c)'
    BY <1>1, <1>2, MovedCall
  <1>4. UNCHANGED <<file, link, served, tx, made, todo, absent, calls, faults, settled,
                    disturbed, overlapped, refused>> /\ jobs' = jobs \cup {c}
    BY DEF ReloadUnitContext, disk, work, history
  <1>5. TypeOK'
    BY <1>1, <1>3, <1>4 DEF TypeOK
  <1>6. ASSUME NEW d \in Callers PROVE CallInv(d)'
    <2>1. CallInv(d)
      BY DEF FilesInv
    <2>2. CASE d = c
      BY <1>1, <1>3, <1>4, <2>2, Distinct DEF CallInv, Busy
    <2>3. CASE d # c
      BY <1>3, <1>4, <2>1, <2>3, SameCaller
    <2> QED
      BY <2>2, <2>3
  <1>7. ASSUME id \notin overlapped PROVE HereInv(c, id)' /\ LeftInv(id)'
    <2>1. CreateInv(c, id) /\ DeleteInv(c, id) /\ settled[id] = {} /\ LeftInv(id)
      BY <1>1, <1>7, AloneHere
    <2>2. CreateInv(c, id)' /\ DeleteInv(c, id)'
      BY <1>1, <1>3, <1>4, <2>1, Distinct
      DEF CreateInv, DeleteInv, Gone, Made, Busy, Creating, Deleting, Reloading
    <2>3. LeftInv(id)'
      BY <1>4, <2>1 DEF LeftInv, Whole, Gone
    <2> QED
      BY <1>4, <2>1, <2>2, <2>3 DEF HereInv
  <1>8. /\ \A d, e \in Callers : Alone(d, e)'
        /\ \A d \in Callers, i \in Ids : HereInv(d, i)'
        /\ \A i \in Ids : RouteInv(i)'
    BY <1>1, <1>3, <1>4, <1>7, Elsewhere
  <1> QED
    BY <1>5, <1>6, <1>8 DEF FilesInv

LEMMA RefusedFiles ==
    ASSUME FilesInv, NEW j \in Callers \cup {"late"}, NginxRefuses(j)
    PROVE  FilesInv'
  <1>1. TypeOK /\ \A d \in Callers : CallInv(d)
    BY DEF FilesInv
  <1>2. /\ UNCHANGED <<file, link, served, settled, faults>> /\ refused' \in BOOLEAN
        /\ jobs' \in SUBSET (Callers \cup {"late"}) /\ j \notin jobs'
        /\ \A d \in Callers : d \in jobs' => d \in jobs
    BY <1>1 DEF NginxRefuses, disk, TypeOK
  <1>3. CASE j = "late"
    <2>1. UNCHANGED <<call, tx, made, todo, absent, calls, disturbed, overlapped>>
      BY <1>3 DEF NginxRefuses, work
    <2>2. /\ \A d, e \in Callers : Alone(d, e)'
          /\ \A d \in Callers, i \in Ids : HereInv(d, i)'
          /\ \A i \in Ids : RouteInv(i)'
      BY <1>2, <2>1, Unmoved
    <2>3. TypeOK'
      BY <1>1, <1>2, <2>1 DEF TypeOK
    <2>4. ASSUME NEW d \in Callers PROVE CallInv(d)'
      BY <1>1, <1>2, <2>1, SameCaller
    <2> QED
      BY <2>2, <2>3, <2>4 DEF FilesInv
  <1>4. CASE j # "late"
    <2>1. j \in Callers /\ Fail(j, {}) /\ j \in jobs
      BY <1>4 DEF NginxRefuses
    <2>2. call[j].step = Wait
      BY <1>1, <2>1 DEF CallInv
    <2>3. Busy(j)
      BY <2>2, Distinct DEF Busy, Reloading
    <2>4. call[j].id \in Ids
      BY <1>1, <2>1, <2>3, BusyCall
    <2>5. faults' \in 0 .. MaxFaults
      BY <1>1, <1>2 DEF TypeOK
    <2> QED
      BY <1>2, <2>1, <2>3, <2>4, <2>5, GivenUpFiles
  <1> QED
    BY <1>3, <1>4

\* A reload that somebody waits for is done: what the call was for is there, or gone.
LEMMA ReloadedFiles ==
    ASSUME FilesInv, NEW j \in Callers \cup {"late"}, NginxReloads(j)
    PROVE  FilesInv'
  <1>1. TypeOK /\ \A d \in Callers : CallInv(d)
    BY DEF FilesInv
  <1>2. /\ UNCHANGED <<file, link, tx, made, todo, calls, faults, disturbed, overlapped>>
        /\ refused' \in BOOLEAN
        /\ jobs' \in SUBSET (Callers \cup {"late"}) /\ j \notin jobs'
        /\ \A d \in Callers : d \in jobs' => d \in jobs
    BY <1>1 DEF NginxReloads, disk, TypeOK
  <1>3. served' \in [Ids -> [Kinds -> Versions \cup {0}]]
    <2>1. ASSUME NEW id \in Ids, NEW k \in Kinds
          PROVE  (IF link[id][k] THEN file[id][k].version ELSE 0) \in Versions \cup {0}
      BY <1>1 DEF TypeOK, Files
    <2> QED
      BY <2>1 DEF NginxReloads, Snapshot
  <1>4. CASE j = "late"
    <2>1. UNCHANGED <<call, settled, absent>>
      BY <1>4 DEF NginxReloads
    <2>2. /\ \A d, e \in Callers : Alone(d, e)'
          /\ \A d \in Callers, i \in Ids : HereInv(d, i)'
          /\ \A i \in Ids : RouteInv(i)'
      BY <1>2, <2>1, Unmoved
    <2>3. TypeOK'
      BY <1>1, <1>2, <1>3, <2>1 DEF TypeOK
    <2>4. ASSUME NEW d \in Callers PROVE CallInv(d)'
      BY <1>1, <1>2, <2>1, SameCaller
    <2> QED
      BY <2>2, <2>3, <2>4 DEF FilesInv
  <1>5. CASE j # "late"
    <2>1. j \in Callers /\ Succeed(j) /\ j \in jobs
      BY <1>5 DEF NginxReloads
    <2>2. call[j].step = Wait /\ Busy(j)
      BY <1>1, <2>1, Distinct DEF CallInv, Busy, Reloading
    <2>3. /\ call[j].id \in Ids /\ call[j].ver \in Versions \cup {0}
          /\ call[j].op \in {"create", "delete", "rollback"}
      BY <1>1, <2>1, <2>2, BusyCall
    <2>r. PICK id \in Ids : call[j].id = id
      BY <2>3
    <2> DEFINE left == IF call[j].op = "rollback" THEN {} ELSE {call[j].ver}
    <2>4. /\ call' \in [Callers -> Calls \cup {NoCall}]
          /\ call'[j].step = Idle /\ ~ Busy(j)'
          /\ \A d \in Callers : d # j => call'[d] = call[d]
      BY <1>1, <2>1, Returned DEF Succeed
    <2>5. /\ settled' \in [Ids -> SUBSET (Versions \cup {0})] /\ settled'[id] = left
          /\ \A i \in Ids : i # id => settled'[i] = settled[i]
      <3>1. left \in SUBSET (Versions \cup {0})
        BY <2>3
      <3>2. settled' = [settled EXCEPT ![id] = left]
        BY <2>1, <2>r DEF Succeed
      <3> HIDE DEF left
      <3> QED
        BY <1>1, <3>1, <3>2 DEF TypeOK
    <2>6. /\ absent' \in SUBSET Ids /\ \A i \in Ids : i # id => (i \in absent' => i \in absent)
          /\ call[j].op = "create" => absent' = absent
      BY <1>1, <2>1, <2>r DEF Succeed, TypeOK
    <2>7. TypeOK'
      BY <1>1, <1>2, <1>3, <2>4, <2>5, <2>6 DEF TypeOK
    <2>8. ASSUME NEW d \in Callers PROVE CallInv(d)'
      <3>1. CASE d = j
        BY <1>1, <1>2, <2>1, <2>2, <2>4, <3>1, Distinct DEF CallInv
      <3>2. CASE d # j
        BY <1>1, <1>2, <2>4, <3>2, SameCaller
      <3> QED
        BY <3>1, <3>2
    <2>9. HereInv(j, id)'
      BY <2>4 DEF HereInv
    <2>10. ASSUME id \notin overlapped PROVE LeftInv(id)'
      <3>1. CreateInv(j, id) /\ DeleteInv(j, id) /\ LeftInv(id)
        BY <2>1, <2>2, <2>r, <2>10, AloneHere
      <3>2. Whole(id, "conf")' /\ Whole(id, "map")'
        BY <1>2, <3>1 DEF LeftInv, Whole
      <3>3. CASE call[j].op = "create"
        <4>1. call[j].ver \in Versions /\ left = {call[j].ver}
          BY <1>1, <2>1, <2>2, <3>3 DEF CallInv
        <4>2. call[j].ver # 0
          BY <4>1, ReverseProxyAssumption
        <4>3. /\ link[id]["conf"] /\ file[id]["conf"].version = call[j].ver
              /\ link[id]["map"] /\ file[id]["map"].version = call[j].ver
          BY <2>2, <3>1, <3>3 DEF CreateInv, Made, Reloading
        <4>4. id \in absent => id \in disturbed
          BY <2>2, <3>1, <3>3 DEF CreateInv
        <4>5. id \in absent' => id \in disturbed'
          BY <1>2, <2>6, <3>3, <4>4
        <4>6. settled'[id] = {call[j].ver}
          BY <2>5, <4>1
        <4> HIDE DEF left
        <4> QED
          BY <1>2, <3>2, <4>2, <4>3, <4>5, <4>6 DEF LeftInv
      <3>4. CASE call[j].op # "create"
        <4>1. call[j].ver = 0
          BY <1>1, <2>1, <2>2, <3>4 DEF CallInv
        <4>2. Gone(id, "conf") /\ Gone(id, "map")
          BY <2>2, <3>1, <3>4 DEF DeleteInv, Reloading
        <4>3. settled'[id] \subseteq {0}
          BY <2>5, <4>1
        <4> HIDE DEF left
        <4> QED
          BY <1>2, <3>2, <4>2, <4>3 DEF LeftInv, Gone
      <3> QED
        BY <3>3, <3>4
    <2>11. /\ \A d, e \in Callers : Alone(d, e)'
           /\ \A d \in Callers, i \in Ids : HereInv(d, i)'
           /\ \A i \in Ids : RouteInv(i)'
      <3>1. \A i \in Ids : i # id => /\ file'[i] = file[i] /\ link'[i] = link[i]
                                     /\ settled'[i] = settled[i]
                                     /\ i \in disturbed => i \in disturbed'
                                     /\ i \in absent' => i \in absent
        BY <1>2, <2>5, <2>6
      <3>2. overlapped' = overlapped
        BY <1>2
      <3> QED
        BY <2>1, <2>2, <2>4, <2>9, <2>10, <2>r, <3>1, <3>2, Elsewhere
    <2> QED
      BY <2>7, <2>8, <2>11 DEF FilesInv
  <1> QED
    BY <1>4, <1>5

LEMMA CrashFiles == ASSUME FilesInv, Crash PROVE FilesInv'
  <1>1. TypeOK
    BY DEF FilesInv
  <1>2. /\ UNCHANGED <<file, link, served, absent, calls, settled, disturbed, overlapped>>
        /\ call' = [c \in Callers |-> NoCall] /\ tx' = [c \in Callers |-> "none"]
        /\ made' = [c \in Callers |-> {}] /\ todo' = [c \in Callers |-> {}]
        /\ refused' \in BOOLEAN
    BY DEF Crash, disk
  <1>3. faults' \in 0 .. MaxFaults
    BY <1>1, ReverseProxyAssumption DEF Crash, Fault, TypeOK
  <1>4. jobs' \in SUBSET {"late"}
    BY DEF Crash
  <1>5. /\ call' \in [Callers -> Calls \cup {NoCall}]
        /\ tx' \in [Callers -> {"none", "open", "failed", "hooks"}]
        /\ made' \in [Callers -> SUBSET Ids] /\ todo' \in [Callers -> SUBSET Ids]
    BY <1>2
  <1>6. TypeOK'
    BY <1>1, <1>2, <1>3, <1>4, <1>5 DEF TypeOK
  <1>7. ASSUME NEW c \in Callers PROVE CallInv(c)' /\ ~ Busy(c)'
    <2>1. call'[c].step = Idle /\ todo'[c] = {} /\ c \notin jobs'
      BY <1>2, <1>4, ReverseProxyAssumption DEF NoCall
    <2> QED
      BY <2>1, Distinct DEF CallInv, Busy
  <1>8. ASSUME NEW i \in Ids PROVE RouteInv(i)'
    BY <1>2, SameRoute DEF FilesInv
  <1> QED
    BY <1>6, <1>7, <1>8 DEF FilesInv, Alone, HereInv

LEMMA FilesStep == ASSUME FilesInv, [Next]_vars PROVE FilesInv'
  <1>1. ASSUME NEW c \in Callers, Step(c) PROVE FilesInv'
    <2>1. TypeOK
      BY DEF FilesInv
    <2>2. Busy(c)
      BY <1>1, Verbal, Distinct
      DEF Step, WriteToFile, WriteFails, CreateSymbolicLink, LinkFails, StatFinds,
          StatFindsNothing, RemoveSymbolicLink, DeleteFile, RemoveFails, ReloadUnitContext,
          ReloadFails, ReloadTimeout, At, Busy, Reloading
    <2>3. call[c].id \in Ids
      BY <2>1, <2>2, BusyCall
    <2>4. CASE WriteToFile(c) \/ WriteFails(c)
      BY <2>3, <2>4, WriteFiles, WriteFailsFiles
    <2>5. CASE CreateSymbolicLink(c) \/ LinkFails(c) \/ RemoveFails(c) \/ ReloadFails(c)
      BY <2>3, <2>5, LinkFiles, ErrorFiles
    <2>6. CASE StatFinds(c)
      BY <2>3, <2>6, StatFindsFiles
    <2>7. CASE StatFindsNothing(c) \/ RemoveSymbolicLink(c) \/ DeleteFile(c)
      BY <2>3, <2>7, UnlinkFiles
    <2>8. CASE ReloadUnitContext(c) \/ ReloadTimeout(c)
      BY <2>3, <2>8, ConnectFiles, TimeoutFiles
    <2> QED
      BY <1>1, <2>4, <2>5, <2>6, <2>7, <2>8 DEF Step
  <1>2. ASSUME NEW c \in Callers, Begin(c) \/ Commit(c) \/ Undo(c) PROVE FilesInv'
    BY <1>2, TransactionFiles, DeleteFiles DEF Undo
  <1>3. ASSUME NEW c \in Callers, NEW id \in Ids,
               Delete(c, id) \/ \E v \in Versions : Create(c, id, v)
        PROVE FilesInv'
    BY <1>3, DeleteFiles, CreateFiles
  <1>4. ASSUME NEW j \in Callers \cup {"late"}, NginxReloads(j) \/ NginxRefuses(j) PROVE FilesInv'
    BY <1>4, ReloadedFiles, RefusedFiles
  <1>5. CASE UNCHANGED vars
    <2>1. UNCHANGED <<file, link, served, jobs, call, tx, made, todo, absent, calls, faults,
                      settled, disturbed, overlapped, refused>>
      BY <1>5 DEF vars, disk, work, history
    <2>2. TypeOK'
      BY <2>1 DEF FilesInv, TypeOK
    <2>3. ASSUME NEW d \in Callers PROVE CallInv(d)'
      BY <2>1, SameCaller DEF FilesInv
    <2> QED
      BY <2>1, <2>2, <2>3, Unmoved DEF FilesInv
  <1> QED
    BY <1>1, <1>2, <1>3, <1>4, <1>5, CrashFiles DEF Next

--------------------------------------------------------------------------------
\* What nginx serves

\* A route is being worked on, or a hook is due for it.
Pending(c, id) ==
    \/ Busy(c) /\ call[c].id = id
    \/ tx[c] = "failed" /\ id \in made[c]
    \/ id \in todo[c]

\* Whatever may differ from what nginx serves has a call, a hook or a job to come.
ServedInv ==
    ~ refused /\ jobs = {} =>
        \A id \in Ids : id \notin disturbed /\ (\A c \in Callers : ~ Pending(c, id)) =>
            served[id] = Snapshot[id]

ProxyInv == FilesInv /\ ServedInv /\ SuccessMeansServed

\* A step of c that touches no other route, and leaves this one pending.
LEMMA ServedOne ==
    ASSUME ServedInv, NEW c \in Callers, NEW id \in Ids,
           \A d \in Callers, i \in Ids : i # id /\ Pending(d, i) => Pending(d, i)' \/ i \in disturbed',
           \A i \in Ids : i # id => /\ file'[i] = file[i] /\ link'[i] = link[i]
                                    /\ i \in disturbed => i \in disturbed',
           served' = served, jobs' = {} => jobs = {}, ~ refused' => ~ refused,
           refused' \/ jobs' # {} \/ id \in disturbed' \/ Pending(c, id)'
    PROVE  ServedInv'
  <1> SUFFICES ASSUME ~ refused', jobs' = {}, NEW i \in Ids, i \notin disturbed',
                      \A d \in Callers : ~ Pending(d, i)'
               PROVE  served'[i] = Snapshot'[i]
    BY DEF ServedInv
  <1>1. i # id
    OBVIOUS
  <1>2. \A d \in Callers : ~ Pending(d, i)
    BY <1>1
  <1>3. served[i] = Snapshot[i]
    BY <1>1, <1>2 DEF ServedInv
  <1>4. Snapshot'[i] = Snapshot[i]
    BY <1>1 DEF Snapshot
  <1> QED
    BY <1>3, <1>4

\* A step that touches no route.
LEMMA ServedNone ==
    ASSUME ServedInv, UNCHANGED <<file, link, served, jobs, refused>>,
           \A i \in Ids : i \in disturbed => i \in disturbed',
           \A d \in Callers, i \in Ids : Pending(d, i) => Pending(d, i)' \/ i \in disturbed'
    PROVE  ServedInv'
  <1> SUFFICES ASSUME ~ refused', jobs' = {}, NEW i \in Ids, i \notin disturbed',
                      \A d \in Callers : ~ Pending(d, i)'
               PROVE  served'[i] = Snapshot'[i]
    BY DEF ServedInv
  <1>1. served[i] = Snapshot[i]
    BY DEF ServedInv
  <1> QED
    BY <1>1 DEF Snapshot

\* The call of c goes on at its route.
LEMMA ServedMoved ==
    ASSUME FilesInv, ServedInv, NEW c \in Callers, NEW id \in Ids, call[c].id = id,
           WriteToFile(c) \/ CreateSymbolicLink(c) \/ StatFinds(c) \/ StatFindsNothing(c)
           \/ RemoveSymbolicLink(c) \/ DeleteFile(c) \/ ReloadUnitContext(c)
    PROVE  ServedInv'
  <1>1. TypeOK /\ Busy(c)
    BY Verbal, Distinct
    DEF FilesInv, WriteToFile, CreateSymbolicLink, StatFinds, StatFindsNothing,
        RemoveSymbolicLink, DeleteFile, ReloadUnitContext, At, Busy, Reloading
  <1>2. PICK s : call' = [call EXCEPT ![c].step = s] /\ s \in Steps
    <2>1. CASE StatFinds(c)
      <3>1. call[c].step \in {StatLinkConf, StatLinkMap, StatFileConf, StatFileMap}
        BY <1>1, <2>1, BusyCall, Places DEF StatFinds, At
      <3>2. call[c].step[2] \in Kinds
        BY <3>1 DEF StatLinkConf, StatLinkMap, StatFileConf, StatFileMap, Kinds
      <3> DEFINE t == <<IF call[c].step[1] = "statlink" THEN "unlink" ELSE "remove", call[c].step[2]>>
      <3>3. t \in Steps
        BY <3>2 DEF Steps, Verbs
      <3>4. call' = [call EXCEPT ![c].step = t]
        BY <2>1 DEF StatFinds
      <3> QED
        BY <3>3, <3>4
    <2>2. CASE ReloadUnitContext(c)
      BY <2>2, Known DEF ReloadUnitContext
    <2>3. CASE ~ StatFinds(c) /\ ~ ReloadUnitContext(c)
      <3>1. GoOn(c)
        BY <2>3 DEF WriteToFile, CreateSymbolicLink, StatFindsNothing, RemoveSymbolicLink, DeleteFile
      <3>2. After(call[c].step) \in Steps
        BY Known DEF After, WriteConf, LinkConf, WriteMap, LinkMap, Steps, Verbs, Kinds
      <3> QED
        BY <3>1, <3>2 DEF GoOn
    <2> QED
      BY <2>1, <2>2, <2>3
  <1>3. /\ Busy(c)' /\ call'[c].id = id
        /\ \A d \in Callers : d # c => call'[d] = call[d]
    BY <1>1, <1>2, MovedCall
  <1>4. UNCHANGED <<served, tx, made, todo, refused>>
    BY DEF WriteToFile, CreateSymbolicLink, StatFinds, StatFindsNothing, RemoveSymbolicLink,
           DeleteFile, ReloadUnitContext, disk, work, history
  <1>5. jobs' = {} => jobs = {}
    BY DEF WriteToFile, CreateSymbolicLink, StatFinds, StatFindsNothing, RemoveSymbolicLink,
           DeleteFile, ReloadUnitContext
  <1>6. \A i \in Ids : i # id => file'[i] = file[i] /\ link'[i] = link[i]
    <2>1. file' = file \/ \E k, new : file' = [file EXCEPT ![id][k] = new]
      BY DEF WriteToFile, CreateSymbolicLink, StatFinds, StatFindsNothing, RemoveSymbolicLink,
             DeleteFile, ReloadUnitContext, disk
    <2>2. link' = link \/ \E k, new : link' = [link EXCEPT ![id][k] = new]
      BY DEF WriteToFile, CreateSymbolicLink, StatFinds, StatFindsNothing, RemoveSymbolicLink,
             DeleteFile, ReloadUnitContext, disk
    <2> QED
      BY <1>1, <2>1, <2>2 DEF TypeOK
  <1>7. \A i \in Ids : i # id => (i \in disturbed => i \in disturbed')
    BY DEF WriteToFile, CreateSymbolicLink, StatFinds, StatFindsNothing, RemoveSymbolicLink,
           DeleteFile, ReloadUnitContext, Forget, history
  <1>8. Pending(c, id)'
    BY <1>3 DEF Pending
  <1>9. ASSUME NEW d \in Callers, NEW i \in Ids, i # id, Pending(d, i) PROVE Pending(d, i)'
    <2>1. CASE d = c
      BY <1>4, <1>9, <2>1 DEF Pending
    <2>2. CASE d # c
      BY <1>3, <1>4, <1>9, <2>2 DEF Pending, Busy
    <2> QED
      BY <2>1, <2>2
  <1>10. ~ refused' => ~ refused
    BY <1>4
  <1> QED
    BY <1>4, <1>5, <1>6, <1>7, <1>8, <1>9, <1>10, ServedOne

\* An error of a call: the hook is due, or it is known that something was left.
LEMMA ServedFailed ==
    ASSUME FilesInv, ServedInv, NEW c \in Callers, NEW id \in Ids, call[c].id = id, Busy(c),
           NEW left \in SUBSET Ids, Fail(c, left),
           \A i \in Ids : i # id => file'[i] = file[i] /\ link'[i] = link[i],
           served' = served, jobs' = {} => jobs = {}, ~ refused' => ~ refused,
           refused' \/ jobs' # {} \/ id \in left \/ call[c].op = "create"
    PROVE  ServedInv'
  <1>1. TypeOK /\ CallInv(c)
    BY DEF FilesInv
  <1>2. /\ tx[c] = "open" => tx'[c] = "failed"
        /\ tx[c] # "open" => tx'[c] = tx[c]
        /\ disturbed' = disturbed \cup left \cup todo[c]
        /\ made' = made
        /\ \A d \in Callers : d # c =>
              call'[d] = call[d] /\ tx'[d] = tx[d] /\ todo'[d] = todo[d] /\ (Busy(d)' <=> Busy(d))
    BY <1>1, Failed
  <1>3. ASSUME NEW d \in Callers, NEW i \in Ids, i # id, Pending(d, i)
        PROVE  Pending(d, i)' \/ i \in disturbed'
    <2>1. CASE d = c
      BY <1>2, <1>3, <2>1 DEF Pending
    <2>2. CASE d # c
      BY <1>2, <1>3, <2>2 DEF Pending
    <2> QED
      BY <2>1, <2>2
  <1>4. refused' \/ jobs' # {} \/ id \in disturbed' \/ Pending(c, id)'
    <2>1. CASE call[c].op = "create"
      BY <1>1, <1>2, <2>1 DEF CallInv, Pending
    <2>2. CASE call[c].op # "create"
      BY <1>2, <2>2
    <2> QED
      BY <2>1, <2>2
  <1>5. \A i \in Ids : i # id => /\ file'[i] = file[i] /\ link'[i] = link[i]
                                 /\ i \in disturbed => i \in disturbed'
    BY <1>2
  <1> QED
    BY <1>3, <1>4, <1>5, ServedOne

LEMMA ServedErrors ==
    ASSUME FilesInv, ServedInv, NEW c \in Callers, NEW id \in Ids, call[c].id = id,
           WriteFails(c) \/ LinkFails(c) \/ RemoveFails(c) \/ ReloadFails(c) \/ ReloadTimeout(c)
    PROVE  ServedInv'
  <1>1. TypeOK /\ CallInv(c)
    BY DEF FilesInv
  <1>2. Busy(c)
    BY Verbal, Distinct
    DEF WriteFails, LinkFails, RemoveFails, ReloadFails, ReloadTimeout, At, Busy, Reloading
  <1>3. served' = served /\ link' = link /\ \A i \in Ids : i # id => file'[i] = file[i]
    <2>1. file' = file \/ \E k, new : file' = [file EXCEPT ![id][k] = new]
      BY DEF WriteFails, LinkFails, RemoveFails, ReloadFails, ReloadTimeout, disk
    <2>2. served' = served /\ link' = link
      BY DEF WriteFails, LinkFails, RemoveFails, ReloadFails, ReloadTimeout, disk
    <2> QED
      BY <1>1, <2>1, <2>2 DEF TypeOK
  <1>4. (jobs' = {} => jobs = {}) /\ (~ refused' => ~ refused)
    BY DEF WriteFails, LinkFails, RemoveFails, ReloadFails, ReloadTimeout
  <1>5. CASE WriteFails(c) \/ LinkFails(c)
    <2>1. call[c].step \in {WriteConf, WriteMap, LinkConf, LinkMap}
      BY <1>1, <1>2, <1>5, BusyCall, Places DEF WriteFails, LinkFails, At
    <2>2. call[c].op = "create" /\ Fail(c, {}) /\ {} \in SUBSET Ids
      BY <1>1, <1>5, <2>1 DEF WriteFails, LinkFails, CallInv, Creating
    <2> QED
      BY <1>2, <1>3, <1>4, <2>2, ServedFailed
  <1>6. CASE RemoveFails(c)
    <2>1. Fail(c, {id}) /\ {id} \in SUBSET Ids /\ id \in {id}
      BY <1>6 DEF RemoveFails
    <2> QED
      BY <1>2, <1>3, <1>4, <2>1, ServedFailed
  <1>7. CASE ReloadFails(c) \/ ReloadTimeout(c)
    <2>1. Fail(c, {}) /\ {} \in SUBSET Ids /\ (refused' \/ jobs' # {})
      BY <1>7 DEF ReloadFails, ReloadTimeout
    <2> QED
      BY <1>2, <1>3, <1>4, <2>1, ServedFailed
  <1> QED
    BY <1>5, <1>6, <1>7

\* Calls that begin, and what transactions do between calls.
LEMMA ServedBetween ==
    ASSUME FilesInv, ServedInv, NEW c \in Callers,
           \/ Begin(c) \/ Commit(c) \/ Undo(c)
           \/ \E id \in Ids : Delete(c, id) \/ \E v \in Versions : Create(c, id, v)
    PROVE  ServedInv'
  <1>1. TypeOK
    BY DEF FilesInv
  <1>2. UNCHANGED <<file, link, served, jobs, refused>> /\ \A i \in Ids : i \in disturbed => i \in disturbed'
    BY DEF Begin, Commit, Undo, Rollback, LastHook, DeleteProxyRoute, Delete, Create, Start,
           disk, history
  <1>3. ASSUME NEW d \in Callers, NEW i \in Ids, Pending(d, i) PROVE Pending(d, i)' \/ i \in disturbed'
    <2>1. CASE Begin(c) \/ Commit(c) \/ LastHook(c)
      <3>1. UNCHANGED <<call, todo>>
        BY <2>1 DEF Begin, Commit, LastHook
      <3>2. tx[d] = "failed" => tx'[d] = "failed" /\ made'[d] = made[d]
        BY <1>1, <2>1 DEF Begin, Commit, LastHook, TypeOK
      <3> QED
        BY <1>3, <3>1, <3>2 DEF Pending, Busy
    <2>2. CASE Rollback(c)
      <3>1. call' = call
        BY <2>2 DEF Rollback
      <3>2. d # c => tx'[d] = tx[d] /\ made'[d] = made[d] /\ todo'[d] = todo[d]
        BY <1>1, <2>2 DEF Rollback, TypeOK
      <3>3. made[c] \subseteq made'[c]
        BY <1>1, <2>2 DEF Rollback, TypeOK
      <3>4. todo'[c] = made'[c]
        BY <1>1, <2>2 DEF Rollback, TypeOK
      <3>5. todo[c] = {}
        BY <2>2 DEF FilesInv, CallInv, Rollback
      <3> QED
        BY <1>3, <3>1, <3>2, <3>3, <3>4, <3>5 DEF Pending, Busy
    <2>3. ASSUME NEW id \in Ids,
                 DeleteProxyRoute(c, id) \/ Delete(c, id) \/ \E v \in Versions : Create(c, id, v)
          PROVE  Pending(d, i)'
      <3>1. PICK o \in {"create", "delete", "rollback"}, v \in Versions \cup {0},
                  s \in {WriteConf, StatLinkConf} :
               Start(c, o, id, v, s)
        BY <2>3 DEF DeleteProxyRoute, Delete, Create, WriteConf, StatLinkConf
      <3>2. ~ Busy(c) /\ s # Idle
        BY <3>1, Distinct DEF Start, Creating, Deleting
      <3>3. /\ call'[c] = [step |-> s, op |-> o, id |-> id, ver |-> v]
            /\ \A e \in Callers : e # c => call'[e] = call[e]
        BY <1>1, <3>1 DEF Start, TypeOK
      <3>4. Busy(c)' /\ call'[c].id = id
        BY <3>2, <3>3 DEF Busy
      <3>5. tx' = tx /\ made[d] \subseteq made'[d]
        <4>1. tx' = tx
          BY <2>3 DEF DeleteProxyRoute, Delete, Create
        <4>2. made' = made \/ made' = [made EXCEPT ![c] = made[c] \cup {id}]
          BY <2>3 DEF DeleteProxyRoute, Delete, Create
        <4>3. made'[d] = made[d] \/ made'[d] = (IF d = c THEN made[c] \cup {id} ELSE made[d])
          BY <1>1, <4>2 DEF TypeOK
        <4> QED
          BY <4>1, <4>3
      <3>6. \A e \in Callers : todo[e] \subseteq todo'[e] \cup (IF e = c THEN {id} ELSE {})
        BY <1>1, <2>3 DEF DeleteProxyRoute, Delete, Create, TypeOK
      <3>7. CASE d = c
        BY <1>3, <3>2, <3>4, <3>5, <3>6, <3>7 DEF Pending
      <3>8. CASE d # c
        BY <1>3, <3>3, <3>5, <3>6, <3>8 DEF Pending, Busy
      <3> QED
        BY <3>7, <3>8
    <2> QED
      BY <2>1, <2>2, <2>3 DEF Undo
  <1> QED
    BY <1>2, <1>3, ServedNone

LEMMA ServedStep == ASSUME FilesInv, ServedInv, [Next]_vars PROVE ServedInv'
  <1>1. ASSUME NEW c \in Callers, Step(c) PROVE ServedInv'
    <2>1. TypeOK
      BY DEF FilesInv
    <2>2. Busy(c)
      BY <1>1, Verbal, Distinct
      DEF Step, WriteToFile, WriteFails, CreateSymbolicLink, LinkFails, StatFinds,
          StatFindsNothing, RemoveSymbolicLink, DeleteFile, RemoveFails, ReloadUnitContext,
          ReloadFails, ReloadTimeout, At, Busy, Reloading
    <2>3. call[c].id \in Ids
      BY <2>1, <2>2, BusyCall
    <2> QED
      BY <1>1, <2>3, ServedMoved, ServedErrors DEF Step
  <1>2. ASSUME NEW j \in Callers \cup {"late"}, NginxReloads(j) PROVE ServedInv'
    BY <1>2 DEF NginxReloads, ServedInv, Snapshot, disk
  <1>3. ASSUME NEW j \in Callers \cup {"late"}, NginxRefuses(j) PROVE ServedInv'
    BY <1>3 DEF NginxRefuses, ServedInv
  <1>4. CASE Crash
    BY <1>4 DEF Crash, ServedInv
  <1>5. CASE UNCHANGED vars
    BY <1>5 DEF vars, disk, work, history, ServedInv, Snapshot, Pending, Busy
  <1> QED
    BY <1>1, <1>2, <1>3, <1>4, <1>5, ServedBetween DEF Next

\* Only a reload settles a call and changes what nginx serves.
LEMMA Unsettled ==
    ASSUME TypeOK, [Next]_vars, ~ \E j \in Callers \cup {"late"} : NginxReloads(j)
    PROVE  /\ served' = served /\ overlapped \subseteq overlapped'
           /\ \A id \in Ids : settled'[id] \subseteq settled[id]
  <1>1. ASSUME NEW c \in Callers, Begin(c) \/ Commit(c) \/ Rollback(c) \/ LastHook(c)
        PROVE  UNCHANGED <<served, overlapped, settled>>
    BY <1>1 DEF Begin, Commit, Rollback, LastHook, history
  <1>2. ASSUME NEW c \in Callers, NEW id \in Ids,
               DeleteProxyRoute(c, id) \/ Delete(c, id) \/ \E v \in Versions : Create(c, id, v)
        PROVE  /\ served' = served /\ overlapped \subseteq overlapped'
               /\ \A i \in Ids : settled'[i] \subseteq settled[i]
    BY <1>2 DEF DeleteProxyRoute, Delete, Create, Start, TypeOK
  <1>3. ASSUME NEW c \in Callers, WriteToFile(c) \/ CreateSymbolicLink(c) \/ StatFinds(c)
               \/ StatFindsNothing(c) \/ RemoveSymbolicLink(c) \/ DeleteFile(c)
               \/ ReloadUnitContext(c)
        PROVE  UNCHANGED <<served, overlapped, settled>>
    BY <1>3 DEF WriteToFile, CreateSymbolicLink, StatFinds, StatFindsNothing,
       RemoveSymbolicLink, DeleteFile, ReloadUnitContext, history
  <1>4. ASSUME NEW c \in Callers, WriteFails(c) \/ LinkFails(c) \/ RemoveFails(c)
               \/ ReloadFails(c) \/ ReloadTimeout(c)
        PROVE  UNCHANGED <<served, overlapped, settled>>
    BY <1>4 DEF WriteFails, LinkFails, RemoveFails, ReloadFails, ReloadTimeout, Fail
  <1>5. ASSUME NEW j \in Callers \cup {"late"}, NginxRefuses(j)
        PROVE  UNCHANGED <<served, overlapped, settled>>
    BY <1>5 DEF NginxRefuses, Fail
  <1>6. CASE Crash
    BY <1>6 DEF Crash
  <1>7. CASE UNCHANGED vars
    BY <1>7 DEF vars, history
  <1> QED
    BY <1>1, <1>2, <1>3, <1>4, <1>5, <1>6, <1>7 DEF Next, Step, Undo

\* What a call that succeeded has asked for is what a reload finds.
LEMMA SettledServed ==
    ASSUME FilesInv, [Next]_vars, SuccessMeansServed
    PROVE  SuccessMeansServed'
  <1>1. FilesInv' /\ TypeOK
    BY FilesStep DEF FilesInv
  <1>2. CASE \E j \in Callers \cup {"late"} : NginxReloads(j)
    <2> SUFFICES ASSUME NEW id \in Ids, id \notin overlapped', NEW k \in Kinds, NEW v \in settled'[id]
                 PROVE  served'[id][k] = v
      BY DEF SuccessMeansServed
    <2>1. LeftInv(id)'
      BY <1>1 DEF FilesInv, RouteInv
    <2>2. served'[id][k] = IF link'[id][k] THEN file'[id][k].version ELSE 0
      BY <1>2 DEF NginxReloads, Snapshot, disk
    <2>3. k = "conf" \/ k = "map"
      BY DEF Kinds
    <2>4. CASE v = 0
      BY <2>1, <2>2, <2>3, <2>4 DEF LeftInv, Gone
    <2>5. CASE v # 0
      BY <2>1, <2>2, <2>3, <2>5 DEF LeftInv
    <2> QED
      BY <2>4, <2>5
  <1>3. CASE ~ \E j \in Callers \cup {"late"} : NginxReloads(j)
    BY <1>1, <1>3, Unsettled DEF SuccessMeansServed
  <1> QED
    BY <1>2, <1>3

LEMMA InitServed == Init => ServedInv /\ SuccessMeansServed
  BY DEF Init, ServedInv, SuccessMeansServed, Snapshot

\* ProxyInv is inductive.
THEOREM ProxyInvHolds == Spec => []ProxyInv
  <1>1. Init => ProxyInv
    BY InitFiles, InitServed DEF ProxyInv
  <1>2. ProxyInv /\ [Next]_vars => ProxyInv'
    BY FilesStep, ServedStep, SettledServed DEF ProxyInv
  <1> QED
    BY <1>1, <1>2, PTL DEF Spec

\* Behind every link of a route that no two calls were at work on at once is a file, and
\* the whole of it: reverse_proxy.go writes before it links and unlinks before it
\* removes, whatever fails and wherever the process ends, for any number of callers.
THEOREM LinkedIsWholeHolds == Spec => []LinkedIsWhole
  <1>1. ProxyInv => LinkedIsWhole
    BY DEF ProxyInv, FilesInv, RouteInv, LeftInv, Whole, LinkedIsWhole, Kinds
  <1> QED
    BY <1>1, ProxyInvHolds, PTL

\* A call that returned without an error is what nginx serves, though the reload may be
\* given up while its job is still queued, for any number of callers and routes.
THEOREM SuccessMeansServedHolds == Spec => []SuccessMeansServed
  <1>1. ProxyInv => SuccessMeansServed
    BY DEF ProxyInv
  <1> QED
    BY <1>1, ProxyInvHolds, PTL

\* No reload is forgotten: with nothing under way, nginx serves what is linked, or a job
\* is queued, or it was refused, also after calls that overlapped at a route.
THEOREM ServesWhatIsLinkedHolds == Spec => []ServesWhatIsLinked
  <1>1. ASSUME ProxyInv PROVE ServesWhatIsLinked
    <2> SUFFICES ASSUME \A c \in Callers : ~ Busy(c) /\ tx[c] \in {"none", "open"},
                        ~ refused, jobs = {}, disturbed = {}
                 PROVE  served = Snapshot
      BY DEF ServesWhatIsLinked
    <2>1. TypeOK /\ ServedInv /\ \A c \in Callers : CallInv(c)
      BY <1>1 DEF ProxyInv, FilesInv
    <2>2. ASSUME NEW id \in Ids PROVE served[id] = Snapshot[id]
      <3>1. \A c \in Callers : ~ Pending(c, id)
        BY <2>1 DEF Pending, CallInv
      <3> QED
        BY <2>1, <3>1 DEF ServedInv
    <2>3. served = [id \in Ids |-> served[id]]
      BY <2>1 DEF TypeOK
    <2>4. Snapshot = [id \in Ids |-> Snapshot[id]]
      BY DEF Snapshot
    <2> QED
      BY <2>2, <2>3, <2>4
  <1> QED
    BY <1>1, ProxyInvHolds, PTL
================================================================================
