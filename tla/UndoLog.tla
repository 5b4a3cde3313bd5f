-------------------------------- MODULE UndoLog --------------------------------
(***************************************************************************)
(* What the transaction of the add-on manager promises to its callers,     *)
(* without goroutines, locks or flags: transactions run one after the      *)
(* other; each keeps a log of undo entries; committing forgets the log,    *)
(* aborting takes the entries off it one by one, the youngest first, and   *)
(* only then is the transaction over.  Transaction implements it.          *)
(***************************************************************************)
EXTENDS Naturals, Sequences

CONSTANTS
    Hooks,      \* the undo entries a transaction may log
    MaxTx       \* bound: how many transactions are begun in a behaviour

VARIABLES
    state,      \* state[t]: where transaction t stands
    log         \* log[t]: its undo entries, the oldest first

Txs == 1 .. MaxTx

abstractVars == <<state, log>>

States == {"unborn", "open", "undoing", "committed", "rolledback"}

AbstractTypeOK ==
    /\ state \in [Txs -> States]
    /\ log \in [Txs -> Seq(Hooks)]

AbstractInit ==
    /\ state = [t \in Txs |-> "unborn"]
    /\ log = [t \in Txs |-> <<>>]

\* Transactions are begun in order, and never while another one is open.
Begin(t) ==
    /\ state[t] = "unborn"
    /\ \A u \in Txs : state[u] # "open"
    /\ \A u \in Txs : u < t => state[u] # "unborn"
    /\ state' = [state EXCEPT ![t] = "open"]
    /\ UNCHANGED log

Log(t, h) ==
    /\ state[t] = "open"
    /\ log' = [log EXCEPT ![t] = Append(@, h)]
    /\ UNCHANGED state

AbstractCommit(t) ==
    /\ state[t] = "open"
    /\ state' = [state EXCEPT ![t] = "committed"]
    /\ log' = [log EXCEPT ![t] = <<>>]

Abort(t) ==
    /\ state[t] = "open"
    /\ state' = [state EXCEPT ![t] = "undoing"]
    /\ UNCHANGED log

\* The youngest entry is undone first.
Undo(t) ==
    /\ state[t] = "undoing"
    /\ log[t] # <<>>
    /\ log' = [log EXCEPT ![t] = SubSeq(@, 1, Len(@) - 1)]
    /\ UNCHANGED state

Undone(t) ==
    /\ state[t] = "undoing"
    /\ log[t] = <<>>
    /\ state' = [state EXCEPT ![t] = "rolledback"]
    /\ UNCHANGED log

AbstractNext ==
    \E t \in Txs :
        \/ Begin(t)
        \/ \E h \in Hooks : Log(t, h)
        \/ AbstractCommit(t)
        \/ Abort(t)
        \/ Undo(t)
        \/ Undone(t)

AbstractSpec == AbstractInit /\ [][AbstractNext]_abstractVars
================================================================================
