------------------------- MODULE SWUpdateWatcherProofs -------------------------
(***************************************************************************)
(* ReconnectsAreBounded for any number of failures and messages.           *)
(*                                                                         *)
(* SWUpdate takes all its connections with it when it goes away, so those  *)
(* that are alive are the youngest ones.  Since the last failure there are *)
(* at most two of them: the second one is owed to a listener that had      *)
(* still loaded a dead connection, and after it the listener cannot see    *)
(* any dead one.                                                           *)
(***************************************************************************)
EXTENDS SWUpdateWatcher, TLAPS

\* The listener can neither have nor load a connection below n + 1.
SeesOnlyAbove(n) ==
    /\ \A k \in maySee : k > n
    /\ listener \in {"read", "sendMsg"} => source > n
    /\ listener # "sendErr"

\* The connections up to "dead" are broken, those above it are alive.
Broken(dead) ==
    /\ alive = (dead + 1) .. dialled
    /\ dialled <= dead + 2
    /\ dead = 0 => dialled <= 1 /\ SeesOnlyAbove(0) /\ server # "reconnect"
    /\ dead # 0 => dead <= 2 * failures - 1
    /\ dialled = dead + 1 /\ server = "reconnect" => SeesOnlyAbove(dead)
    /\ dialled = dead + 2 => SeesOnlyAbove(dead) /\ server # "reconnect"

Basics ==
    /\ failures \in Nat
    /\ dialled \in Nat
    /\ conn = dialled
    /\ \A k \in maySee : k \in 1 .. dialled
    /\ source \in 0 .. dialled
    /\ listener = "none" => source = 0
    /\ listener # "none" => dialled >= 1
    /\ server = "start" => dialled = 0 /\ listener = "none"

IndInv == Basics /\ \E dead \in 0 .. dialled : Broken(dead)

-------------------------------------------------------------------------------

\* No connection has been made yet.
LEMMA InitIndInv == Init => IndInv
  <1> SUFFICES ASSUME Init PROVE IndInv
    OBVIOUS
  <1>1. Basics
    BY DEF Init, Basics, NoConn
  <1>2. Broken(0)
    BY DEF Init, Broken, SeesOnlyAbove
  <1>3. QED
    BY <1>1, <1>2 DEF IndInv, Init

\* A step preserves what is said of the variables one by one.
LEMMA BasicsStep ==
    ASSUME Basics, [Next]_vars
    PROVE  Basics'
  <1> USE DEF Basics, NoConn
  <1>1. ASSUME NEW s \in Statuses, DaemonSends(s) PROVE Basics'
    BY <1>1 DEF DaemonSends, serverVars, listenerVars
  <1>2. CASE DaemonFails
    BY <1>2 DEF DaemonFails, serverVars, listenerVars
  <1>3. CASE DaemonStarts
    BY <1>3 DEF DaemonStarts, serverVars, listenerVars
  <1>4. CASE DialSucceeds
    BY <1>4 DEF DialSucceeds, Connecting
  <1>5. CASE DialFails \/ InstallReturns \/ ReceiveStop
    BY <1>5 DEF DialFails, InstallReturns, ReceiveStop, Connecting, daemon,
       listenerVars
  <1>6. CASE LoadConn \/ ReadMessage \/ ReadFails
    BY <1>6 DEF LoadConn, ReadMessage, ReadFails, daemon, serverVars
  <1>7. CASE ReceiveStatus \/ ReceiveError
    BY <1>7 DEF ReceiveStatus, ReceiveError, Rendezvous, daemon
  <1>8. CASE UNCHANGED vars
    BY <1>8 DEF vars, daemon, serverVars, listenerVars
  <1>9. QED
    BY <1>1, <1>2, <1>3, <1>4, <1>5, <1>6, <1>7, <1>8 DEF Next, Server, Listener

\* A step preserves the order of broken and live connections.
LEMMA BrokenStep ==
    ASSUME Basics, NEW dead \in 0 .. dialled, Broken(dead), [Next]_vars
    PROVE  \E d \in 0 .. dialled' : Broken(d)'
  <1>0. /\ dead \in Nat /\ dialled \in Nat /\ failures \in Nat
        /\ dead <= dialled
    BY DEF Basics
  <1>1. ASSUME NEW s \in Statuses, DaemonSends(s)
        PROVE  dialled' = dialled /\ Broken(dead)'
    BY <1>0, <1>1 DEF DaemonSends, serverVars, listenerVars, Broken,
       SeesOnlyAbove
  \* All connections are broken now.
  <1>2. CASE DaemonFails
    <2>1. dialled' = dialled /\ alive' = {} /\ failures' = failures + 1
      BY <1>2 DEF DaemonFails
    <2>2. UNCHANGED <<maySee, listener, source, server>>
      BY <1>2 DEF DaemonFails, serverVars, listenerVars
    <2>3. alive' = (dialled' + 1) .. dialled'
      BY <1>0, <2>1
    <2>4. dialled # 0 => dialled <= 2 * failures' - 1
      BY <1>0, <2>1 DEF Broken
    <2>5. dialled = 0 => SeesOnlyAbove(0)' /\ server' # "reconnect"
      BY <1>0, <2>2 DEF Broken, SeesOnlyAbove
    <2>6. Broken(dialled)'
      BY <1>0, <2>1, <2>3, <2>4, <2>5 DEF Broken
    <2>7. QED
      BY <1>0, <2>1, <2>6
  <1>3. CASE DaemonStarts
    BY <1>0, <1>3 DEF DaemonStarts, serverVars, listenerVars, Broken,
       SeesOnlyAbove
  \* One connection more: a second one only if the listener sees no dead one.
  <1>4. CASE DialSucceeds
    <2>1. /\ dialled' = dialled + 1
          /\ alive' = alive \cup {dialled + 1}
          /\ maySee' = maySee \cup {dialled + 1}
          /\ server' = "select" /\ source' = source /\ failures' = failures
          /\ listener' = IF server = "start" THEN "load" ELSE listener
      BY <1>4 DEF DialSucceeds
    <2>2. alive' = (dead + 1) .. dialled'
      BY <1>0, <2>1 DEF Broken
    <2>3. ASSUME SeesOnlyAbove(dead) PROVE SeesOnlyAbove(dead)'
      BY <1>0, <2>1, <2>3 DEF SeesOnlyAbove
    <2>4. CASE server = "start"
      BY <1>0, <2>1, <2>2, <2>3, <2>4 DEF Broken, Basics
    <2>5. CASE server = "reconnect"
      BY <1>0, <2>1, <2>2, <2>3, <2>5 DEF Broken
    <2>6. QED
      BY <1>4, <2>4, <2>5 DEF DialSucceeds, Connecting
  <1>5. CASE DialFails \/ InstallReturns \/ ReceiveStop
    <2>1. UNCHANGED <<alive, dialled, failures, maySee, listener, source>>
      BY <1>5 DEF DialFails, InstallReturns, ReceiveStop, daemon, listenerVars
    <2>2. server' = "reconnect" => server = "reconnect"
      BY <1>5 DEF DialFails, InstallReturns, ReceiveStop
    <2>3. QED
      BY <1>0, <2>1, <2>2 DEF Broken, SeesOnlyAbove
  <1>6. CASE LoadConn \/ ReadMessage
    BY <1>0, <1>6 DEF LoadConn, ReadMessage, daemon, serverVars, Broken,
       SeesOnlyAbove
  \* A listener that sees only live connections does not fail.
  <1>7. CASE ReadFails
    <2>1. UNCHANGED <<alive, dialled, failures, maySee, server, source>>
      BY <1>7 DEF ReadFails, daemon, serverVars
    <2>2. listener = "read" /\ source \notin alive /\ source \in 0 .. dialled
      BY <1>7 DEF ReadFails, Basics
    <2>3. ~SeesOnlyAbove(dead)
      BY <1>0, <2>2 DEF SeesOnlyAbove, Broken
    <2>4. QED
      BY <1>0, <2>1, <2>3 DEF Broken
  \* The rendezvous shows the listener the youngest connection only.
  <1>8. CASE ReceiveStatus \/ ReceiveError
    <2>1. /\ UNCHANGED <<alive, dialled, failures>>
          /\ maySee' = {dialled} /\ listener' = "load"
          /\ listener \in {"sendMsg", "sendErr"} /\ dialled >= 1
      BY <1>8 DEF ReceiveStatus, ReceiveError, Rendezvous, daemon, Basics
    <2>2. dialled > dead => SeesOnlyAbove(dead)'
      BY <1>0, <2>1 DEF SeesOnlyAbove
    <2>3. server' = "reconnect" => listener = "sendErr"
      BY <1>8 DEF ReceiveStatus, ReceiveError
    <2>4. QED
      BY <1>0, <2>1, <2>2, <2>3 DEF Broken, SeesOnlyAbove
  <1>9. CASE UNCHANGED vars
    BY <1>0, <1>9 DEF vars, daemon, serverVars, listenerVars, Broken,
       SeesOnlyAbove
  <1>10. QED
    BY <1>1, <1>2, <1>3, <1>4, <1>5, <1>6, <1>7, <1>8, <1>9
       DEF Next, Server, Listener

\* The invariant holds in every behaviour.
THEOREM WatcherInvariance == Spec => []IndInv
  <1>1. IndInv /\ [Next]_vars => IndInv'
    BY BasicsStep, BrokenStep DEF IndInv
  <1>2. QED
    BY InitIndInv, <1>1, PTL DEF Spec

\* For any number of failures of SWUpdate, Connect makes at most two
\* connections for each of them, and conn is the youngest one.
THEOREM ReconnectsAreBoundedHolds == Spec => []ReconnectsAreBounded
  <1>1. IndInv => ReconnectsAreBounded
    BY DEF IndInv, Basics, Broken, ReconnectsAreBounded
  <1>2. QED
    BY WatcherInvariance, <1>1, PTL
================================================================================
