---------------------------- MODULE SWUpdateWatcher ----------------------------
(***************************************************************************)
(* internal/aom/fileserver: the goroutine of StartSWUpdateWatcher, which   *)
(* installs the drop-in add-ons on SUCCESS and reconnects after an error,  *)
(* and the goroutine of ListenOnStatus, which reads SWUpdate's progress    *)
(* socket.  They talk over two unbuffered channels and share the field     *)
(* conn without a lock.                                                    *)
(*                                                                         *)
(* A send on an unbuffered channel orders what the receiver did before it  *)
(* ahead of what the sender does next, and nothing else orders the two     *)
(* goroutines: a load of conn may yield the value of the last rendezvous   *)
(* or any value stored since.                                              *)
(***************************************************************************)
EXTENDS Naturals, Sequences

CONSTANTS
    connectionAttempts,     \* dials of one Connect
    MaxFailures,            \* bound: how often SWUpdate goes away
    MaxMessages             \* bound: messages SWUpdate sends

ASSUME WatcherAssumption ==
    /\ connectionAttempts \in Nat \ {0}
    /\ MaxFailures \in Nat
    /\ MaxMessages \in Nat

\* Every failure costs at most two connections.
MaxConns == 1 + 2 * MaxFailures
Conns == 1 .. MaxConns
NoConn == 0
Statuses == {"SUCCESS", "other"}

VARIABLES
    running,        \* is SWUpdate there?
    failures,       \* how often it has gone away
    sent,           \* how many messages it has sent
    alive,          \* connections it has open
    inbox,          \* inbox[k]: messages that wait in the socket
    dialled,        \* how many connections Connect has made
    conn,           \* swUpdateWatcher.conn
    maySee,         \* the values a load of conn may yield in the listener
    server,         \* control of the goroutine of StartSWUpdateWatcher
    attempts,       \* dials that failed in the Connect at hand
    listener,       \* control of the goroutine of ListenOnStatus
    source,         \* the connection it reads
    status          \* the status it has read

daemon == <<running, failures, sent, alive>>
serverVars == <<server, attempts>>
listenerVars == <<listener, source, status>>
vars == <<daemon, inbox, dialled, conn, maySee, serverVars, listenerVars>>

TypeOK ==
    /\ running \in BOOLEAN
    /\ failures \in 0 .. MaxFailures
    /\ sent \in 0 .. MaxMessages
    /\ alive \in SUBSET Conns
    /\ inbox \in [Conns -> Seq(Statuses)]
    /\ dialled \in 0 .. MaxConns
    /\ conn \in Conns \cup {NoConn}
    /\ maySee \in SUBSET Conns
    /\ server \in {"start", "select", "install", "reconnect", "returned"}
    /\ attempts \in 0 .. connectionAttempts - 1
    /\ listener \in {"none", "load", "read", "sendErr", "sendMsg"}
    /\ source \in Conns \cup {NoConn}
    /\ status \in Statuses \cup {"none"}

Init ==
    /\ running \in BOOLEAN
    /\ failures = 0
    /\ sent = 0
    /\ alive = {}
    /\ inbox = [k \in Conns |-> <<>>]
    /\ dialled = 0
    /\ conn = NoConn
    /\ maySee = {}
    /\ server = "start"
    /\ attempts = 0
    /\ listener = "none"
    /\ source = NoConn
    /\ status = "none"

-------------------------------------------------------------------------------
(* SWUpdate: every message goes to everyone who is connected. *)

DaemonSends(s) ==
    /\ running
    /\ sent < MaxMessages
    /\ sent' = sent + 1
    /\ inbox' = [k \in Conns |-> IF k \in alive THEN Append(inbox[k], s)
                                               ELSE inbox[k]]
    /\ UNCHANGED <<running, failures, alive, dialled, conn, maySee, serverVars,
                   listenerVars>>

DaemonFails ==
    /\ running
    /\ failures < MaxFailures
    /\ failures' = failures + 1
    /\ running' = FALSE
    /\ alive' = {}
    /\ UNCHANGED <<sent, inbox, dialled, conn, maySee, serverVars, listenerVars>>

DaemonStarts ==
    /\ ~running
    /\ running' = TRUE
    /\ UNCHANGED <<failures, sent, alive, inbox, dialled, conn, maySee,
                   serverVars, listenerVars>>

-------------------------------------------------------------------------------
(* Connect, at the start and after an error.  The connection that is       *)
(* replaced is not closed.                                                 *)

Connecting == server \in {"start", "reconnect"}

DialSucceeds ==
    LET k == dialled + 1 IN
    /\ Connecting
    /\ running
    /\ dialled' = k
    /\ alive' = alive \cup {k}
    /\ conn' = k
    /\ maySee' = maySee \cup {k}
    /\ attempts' = 0
    /\ server' = "select"
    /\ listener' = IF server = "start" THEN "load" ELSE listener
    /\ UNCHANGED <<running, failures, sent, inbox, source, status>>

\* Without a connection StartSWUpdateWatcher returns the error to Run, and the
\* goroutine ends: "Offline installation feature is unavailable for now".
DialFails ==
    /\ Connecting
    /\ ~running
    /\ \/ /\ attempts < connectionAttempts - 1
          /\ attempts' = attempts + 1
          /\ UNCHANGED server
       \/ /\ attempts = connectionAttempts - 1
          /\ attempts' = 0
          /\ server' = "returned"
    /\ UNCHANGED <<daemon, inbox, dialled, conn, maySee, listenerVars>>

-------------------------------------------------------------------------------
(* ListenOnStatus *)

LoadConn ==
    /\ listener = "load"
    /\ source' \in maySee
    /\ listener' = "read"
    /\ UNCHANGED <<daemon, inbox, dialled, conn, maySee, serverVars, status>>

\* What is in the socket is read before the end of the stream.
ReadMessage ==
    /\ listener = "read"
    /\ inbox[source] # <<>>
    /\ status' = Head(inbox[source])
    /\ inbox' = [inbox EXCEPT ![source] = Tail(@)]
    /\ listener' = "sendMsg"
    /\ UNCHANGED <<daemon, dialled, conn, maySee, serverVars, source>>

\* Faulty variant: a read deadline makes a silent connection look lost.
ReadTimesOut ==
    /\ listener = "read"
    /\ inbox[source] = <<>>
    /\ listener' = "sendErr"
    /\ UNCHANGED <<daemon, inbox, dialled, conn, maySee, serverVars, source,
                   status>>

ReadFails ==
    /\ listener = "read"
    /\ inbox[source] = <<>>
    /\ source \notin alive
    /\ listener' = "sendErr"
    /\ UNCHANGED <<daemon, inbox, dialled, conn, maySee, serverVars, source,
                   status>>

-------------------------------------------------------------------------------
(* The select of StartSWUpdateWatcher *)

Rendezvous ==
    /\ listener' = "load"
    /\ source' = NoConn
    /\ status' = "none"
    /\ maySee' = {conn}

\* Faulty variant: SUCCESS is compared with the wrong constant.
InstallOnOther ==
    /\ server = "select"
    /\ listener = "sendMsg"
    /\ server' = IF status = "other" THEN "install" ELSE "select"
    /\ Rendezvous
    /\ UNCHANGED <<daemon, inbox, dialled, conn, attempts>>

ReceiveStatus ==
    /\ server = "select"
    /\ listener = "sendMsg"
    /\ server' = IF status = "SUCCESS" THEN "install" ELSE "select"
    /\ Rendezvous
    /\ UNCHANGED <<daemon, inbox, dialled, conn, attempts>>

\* Faulty variant: the error is taken from the channel and ignored.
IgnoreError ==
    /\ server = "select"
    /\ listener = "sendErr"
    /\ Rendezvous
    /\ UNCHANGED <<daemon, inbox, dialled, conn, serverVars>>

ReceiveError ==
    /\ server = "select"
    /\ listener = "sendErr"
    /\ server' = "reconnect"
    /\ Rendezvous
    /\ UNCHANGED <<daemon, inbox, dialled, conn, attempts>>

\* InstallAllDropInAddOns returns, see DropInInstaller.
InstallReturns ==
    /\ server = "install"
    /\ server' = "select"
    /\ UNCHANGED <<daemon, inbox, dialled, conn, maySee, attempts, listenerVars>>

\* StopSWUpdateWatcher
ReceiveStop ==
    /\ server = "select"
    /\ server' = "returned"
    /\ UNCHANGED <<daemon, inbox, dialled, conn, maySee, attempts, listenerVars>>

-------------------------------------------------------------------------------

Server ==
    \/ DialSucceeds \/ DialFails
    \/ ReceiveStatus \/ ReceiveError \/ InstallReturns

Listener == LoadConn \/ ReadMessage \/ ReadFails

Next ==
    \/ \E s \in Statuses : DaemonSends(s)
    \/ DaemonFails \/ DaemonStarts
    \/ Server \/ ReceiveStop
    \/ Listener

Spec == Init /\ [][Next]_vars

\* Both goroutines keep going; SWUpdate comes back but has nothing to send.
FairSpec ==
    Spec /\ WF_vars(Server) /\ WF_vars(Listener) /\ WF_vars(DaemonStarts)

-------------------------------------------------------------------------------
(* Properties *)

\* The listener never takes for dead what it has not lost: every connection
\* Connect makes but the first is owed to a connection that broke, and for one
\* break there are at most two, not one (see ReconnectsOnce); conn is always the youngest of them, and the
\* listener has never seen a younger one.
ReconnectsAreBounded ==
    /\ dialled <= 1 + 2 * failures
    /\ conn = dialled
    /\ source <= conn

\* "lost socket connection, try to reconnect once" (fileserver.go:118): a connection
\* that broke makes the watcher connect once.  It does not hold: the listener may read
\* the broken connection again before it sees the new one.
ReconnectsOnce == dialled <= 1 + failures

\* "Reading a 'SUCCESS' message from the socket start the installation": the
\* listener is not left alone with a SUCCESS it has read, unless the watcher
\* has been stopped or has given up.
ReadSuccessIsInstalled ==
    listener = "sendMsg" /\ status = "SUCCESS" ~>
        server \in {"install", "returned"}

\* After a break the watcher either ends up reading a connection that is alive
\* or has given up: it does not go on with a dead one, whichever value of conn
\* the listener happens to load.
ComesBack ==
    <>[](server = "returned" \/ (listener = "read" /\ source \in alive))
================================================================================
