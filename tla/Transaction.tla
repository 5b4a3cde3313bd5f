------------------------------ MODULE Transaction ------------------------------
(***************************************************************************)
(* internal/aom/service: the TransactionScheduler and its transactions,    *)
(* at the grain of the atomic operations and lock sections of the code.    *)
(*                                                                         *)
(* A caller is a goroutine that runs one operation after the other (a gRPC *)
(* handler, the drop-in installer, the migration):                         *)
(*                                                                         *)
(*     tx, err := scheduler.CreateTransaction(ctx, service)                *)
(*     defer tx.Rollback()                                                 *)
(*     ... steps of a routine, each subscribing its rollback hook ...      *)
(*     return tx.Commit()                                                  *)
(*                                                                         *)
(* Every Tx also has the goroutine awaitDone, and readers (GetAddOn and    *)
(* ListAddOns requests) look at the transaction without any lock.          *)
(*                                                                         *)
(* Tx.mu is read-locked for the whole of rollback's loop and by nothing    *)
(* else for longer than a step, so whether it is held is a function of     *)
(* "ending" and needs no variable of its own.                              *)
(***************************************************************************)
EXTENDS Naturals, Sequences

CONSTANTS
    Callers,        \* goroutines that run transactions
    Readers,        \* goroutines that ask for the add-on under transaction
    Hooks,          \* rollback hooks a routine may subscribe
    NoCaller,       \* nobody holds TransactionScheduler.mu
    MaxTx,          \* bound: BeginTx calls in a behaviour
    MaxHooks,       \* bound: hooks subscribed to one transaction
    ContextMayEnd   \* may the context given to CreateTransaction end?
                    \* every caller in the program passes context.Background()

ASSUME TransactionAssumption ==
    /\ NoCaller \notin Callers
    /\ MaxTx \in Nat
    /\ MaxHooks \in Nat
    /\ ContextMayEnd \in BOOLEAN

Txs == 1 .. MaxTx
NoTx == 0

VARIABLES
    schedMu,        \* TransactionScheduler.mu: the caller that holds it
    schedTx,        \* TransactionScheduler.tx
    begun,          \* how many transactions BeginTx has made
    done,           \* Tx.done
    ctxDone,        \* is the channel of Tx.ctx closed?
    rollbackHooks,  \* Tx.rollbackHooks
    affected,       \* Tx.affected: has setAddOnContext set it?
    ending,         \* how far the one that won the race for done has come
    index,          \* i + 1 of the loop over the hooks in rollback
    awaiter,        \* control of the goroutine awaitDone of the transaction
    pc,             \* control of each caller
    mine,           \* the tx a caller works with
    rpc,            \* control of each reader
    seen,           \* the tx a reader has got hold of
    \* history, read by no action
    winner,         \* the method whose CompareAndSwap moved done to 1
    subscribed,     \* all hooks ever subscribed, in order
    ran,            \* the hooks rollback has called, in order
    committed,      \* transactions whose Commit returned nil
    report          \* the tx whose affected add-on was reported last

txVars == <<begun, done, ctxDone, rollbackHooks, affected, ending, index>>
history == <<winner, subscribed, ran, committed>>
readerVars == <<rpc, seen, report>>
vars == <<schedMu, schedTx, txVars, awaiter, pc, mine, readerVars, history>>

CallerStates == {"idle", "check", "begin", "running", "context",
                 "commit", "committing", "deferred", "rollingback"}
Endings == {"none", "lock", "hooks", "cancel", "close", "closed"}
AwaiterStates == {"none", "waiting", "rolling", "ending", "returned"}
ReaderStates == {"idle", "open", "got", "checked"}

TypeOK ==
    /\ schedMu \in Callers \cup {NoCaller}
    /\ schedTx \in Txs \cup {NoTx}
    /\ begun \in 0 .. MaxTx
    /\ done \in [Txs -> {0, 1}]
    /\ ctxDone \in [Txs -> BOOLEAN]
    /\ rollbackHooks \in [Txs -> Seq(Hooks)]
    /\ affected \in [Txs -> BOOLEAN]
    /\ ending \in [Txs -> Endings]
    /\ index \in [Txs -> Nat]
    /\ awaiter \in [Txs -> AwaiterStates]
    /\ pc \in [Callers -> CallerStates]
    /\ mine \in [Callers -> Txs \cup {NoTx}]
    /\ rpc \in [Readers -> ReaderStates]
    /\ seen \in [Readers -> Txs \cup {NoTx}]
    /\ winner \in [Txs -> {"none", "Commit", "rollback"}]
    /\ subscribed \in [Txs -> Seq(Hooks)]
    /\ ran \in [Txs -> Seq(Hooks)]
    /\ committed \in SUBSET Txs
    /\ report \in [Readers -> Txs \cup {NoTx}]

Init ==
    /\ schedMu = NoCaller
    /\ schedTx = NoTx
    /\ begun = 0
    /\ done = [t \in Txs |-> 0]
    /\ ctxDone = [t \in Txs |-> FALSE]
    /\ rollbackHooks = [t \in Txs |-> <<>>]
    /\ affected = [t \in Txs |-> FALSE]
    /\ ending = [t \in Txs |-> "none"]
    /\ index = [t \in Txs |-> 0]
    /\ awaiter = [t \in Txs |-> "none"]
    /\ pc = [c \in Callers |-> "idle"]
    /\ mine = [c \in Callers |-> NoTx]
    /\ rpc = [r \in Readers |-> "idle"]
    /\ seen = [r \in Readers |-> NoTx]
    /\ winner = [t \in Txs |-> "none"]
    /\ subscribed = [t \in Txs |-> <<>>]
    /\ ran = [t \in Txs |-> <<>>]
    /\ committed = {}
    /\ report = [r \in Readers |-> NoTx]

IsDone(t) == done[t] # 0
IsTransactionOpen == schedTx # NoTx /\ ~IsDone(schedTx)
RLocked(t) == ending[t] = "hooks"       \* rollback holds Tx.mu for reading
Goto(c, from, to) == pc[c] = from /\ pc' = [pc EXCEPT ![c] = to]

-------------------------------------------------------------------------------
(* TransactionScheduler.CreateTransaction *)

\* Faulty variant: the scheduler's lock does not exclude anybody.
LockSchedulerUnlocked(c) ==
    /\ Goto(c, "idle", "check")
    /\ begun < MaxTx
    /\ schedMu' = c
    /\ UNCHANGED <<schedTx, txVars, awaiter, mine, readerVars, history>>

LockScheduler(c) ==
    /\ Goto(c, "idle", "check")
    /\ begun < MaxTx
    /\ schedMu = NoCaller
    /\ schedMu' = c
    /\ UNCHANGED <<schedTx, txVars, awaiter, mine, readerVars, history>>

RefuseTransaction(c) ==
    /\ Goto(c, "check", "idle")
    /\ IsTransactionOpen
    /\ schedMu' = NoCaller
    /\ UNCHANGED <<schedTx, txVars, awaiter, mine, readerVars, history>>

AcceptTransaction(c) ==
    /\ Goto(c, "check", "begin")
    /\ ~IsTransactionOpen
    /\ UNCHANGED <<schedMu, schedTx, txVars, awaiter, mine, readerVars, history>>

BeginTx(c) ==
    LET t == begun + 1 IN
    /\ Goto(c, "begin", "running")
    /\ begun' = t
    /\ schedTx' = t
    /\ schedMu' = NoCaller
    /\ awaiter' = [awaiter EXCEPT ![t] = "waiting"]
    /\ mine' = [mine EXCEPT ![c] = t]
    /\ UNCHANGED <<done, ctxDone, rollbackHooks, affected, ending, index,
                   readerVars, history>>

-------------------------------------------------------------------------------
(* The operations of a routine on its transaction.  Neither of them fails  *)
(* on a transaction that is done.                                          *)

SubscribeRollbackHook(c, h) ==
    LET t == mine[c] IN
    /\ pc[c] = "running"
    /\ ~RLocked(t)
    /\ Len(subscribed[t]) < MaxHooks
    /\ rollbackHooks' = [rollbackHooks EXCEPT ![t] = Append(@, h)]
    /\ subscribed' = [subscribed EXCEPT ![t] = Append(@, h)]
    /\ UNCHANGED <<schedMu, schedTx, begun, done, ctxDone, affected, ending,
                   index, awaiter, pc, mine, readerVars, winner, ran,
                   committed>>

\* setAddOnContext looks at done first and takes the lock afterwards.  A call
\* on a transaction that has its add-on changes nothing and is left out.
SetAddOnContextCheck(c) ==
    /\ Goto(c, "running", "context")
    /\ ~IsDone(mine[c])
    /\ ~affected[mine[c]]
    /\ UNCHANGED <<schedMu, schedTx, txVars, awaiter, mine, readerVars,
                   history>>

SetAddOnContext(c) ==
    /\ Goto(c, "context", "running")
    /\ ~RLocked(mine[c])
    /\ affected' = [affected EXCEPT ![mine[c]] = TRUE]
    /\ UNCHANGED <<schedMu, schedTx, begun, done, ctxDone, rollbackHooks,
                   ending, index, awaiter, mine, readerVars, history>>

\* A step of the routine failed: the deferred Rollback is all that is left.
RoutineFails(c) ==
    /\ Goto(c, "running", "deferred")
    /\ UNCHANGED <<schedMu, schedTx, txVars, awaiter, mine, readerVars,
                   history>>

-------------------------------------------------------------------------------
(* Tx.Commit *)

CommitContextDone(c) ==
    /\ Goto(c, "running", "deferred")
    /\ ctxDone[mine[c]]
    /\ UNCHANGED <<schedMu, schedTx, txVars, awaiter, mine, readerVars,
                   history>>

CommitContextOpen(c) ==
    /\ Goto(c, "running", "commit")
    /\ ~ctxDone[mine[c]]
    /\ UNCHANGED <<schedMu, schedTx, txVars, awaiter, mine, readerVars,
                   history>>

CommitTxDone(c) ==
    /\ Goto(c, "commit", "deferred")
    /\ IsDone(mine[c])
    /\ UNCHANGED <<schedMu, schedTx, txVars, awaiter, mine, readerVars,
                   history>>

CommitSwapsDone(c) ==
    LET t == mine[c] IN
    /\ Goto(c, "commit", "committing")
    /\ ~IsDone(t)
    /\ done' = [done EXCEPT ![t] = 1]
    /\ ending' = [ending EXCEPT ![t] = "cancel"]
    /\ winner' = [winner EXCEPT ![t] = "Commit"]
    /\ UNCHANGED <<schedMu, schedTx, begun, ctxDone, rollbackHooks, affected,
                   index, awaiter, mine, readerVars, subscribed, ran,
                   committed>>

CommitReturns(c) ==
    /\ Goto(c, "committing", "deferred")
    /\ ending[mine[c]] = "closed"
    /\ committed' = committed \cup {mine[c]}
    /\ UNCHANGED <<schedMu, schedTx, txVars, awaiter, mine, readerVars,
                   winner, subscribed, ran>>

-------------------------------------------------------------------------------
(* Tx.rollback, from the caller's deferred Rollback or from awaitDone.     *)
(* Whoever wins the CompareAndSwap walks through the steps below.          *)

RollbackTxDone(c) ==
    /\ Goto(c, "deferred", "idle")
    /\ IsDone(mine[c])
    /\ mine' = [mine EXCEPT ![c] = NoTx]
    /\ UNCHANGED <<schedMu, schedTx, txVars, awaiter, readerVars, history>>

\* Faulty variant: rollback does not ask whether done was 0.
StoreDoneForRollback(t) ==
    /\ done' = [done EXCEPT ![t] = 1]
    /\ ending' = [ending EXCEPT ![t] = "lock"]
    /\ winner' = [winner EXCEPT ![t] = "rollback"]
    /\ UNCHANGED <<schedMu, schedTx, begun, ctxDone, rollbackHooks, affected,
                   index, mine, readerVars, subscribed, ran, committed>>

\* done is 1 from here on, before a single hook has run.
SwapDoneForRollback(t) ==
    /\ ~IsDone(t)
    /\ done' = [done EXCEPT ![t] = 1]
    /\ ending' = [ending EXCEPT ![t] = "lock"]
    /\ winner' = [winner EXCEPT ![t] = "rollback"]
    /\ UNCHANGED <<schedMu, schedTx, begun, ctxDone, rollbackHooks, affected,
                   index, mine, readerVars, subscribed, ran, committed>>

RollbackSwapsDone(c) ==
    /\ Goto(c, "deferred", "rollingback")
    /\ SwapDoneForRollback(mine[c])
    /\ UNCHANGED awaiter

RollbackReturns(c) ==
    /\ Goto(c, "rollingback", "idle")
    /\ ending[mine[c]] = "closed"
    /\ mine' = [mine EXCEPT ![c] = NoTx]
    /\ UNCHANGED <<schedMu, schedTx, txVars, awaiter, readerVars, history>>

\* Faulty variants: the loop begins below the youngest hook; the context is
\* cancelled before the loop.
LockForHooksTooLow(t) ==
    /\ ending[t] = "lock"
    /\ ending' = [ending EXCEPT ![t] = "hooks"]
    /\ index' = [index EXCEPT ![t] = Len(rollbackHooks[t]) - 1]
    /\ UNCHANGED <<schedMu, schedTx, begun, done, ctxDone, rollbackHooks,
                   affected, awaiter, pc, mine, readerVars, history>>

CancelBeforeHooks(t) ==
    /\ ending[t] = "lock"
    /\ ending' = [ending EXCEPT ![t] = "hooks"]
    /\ index' = [index EXCEPT ![t] = Len(rollbackHooks[t])]
    /\ ctxDone' = [ctxDone EXCEPT ![t] = TRUE]
    /\ UNCHANGED <<schedMu, schedTx, begun, done, rollbackHooks,
                   affected, awaiter, pc, mine, readerVars, history>>

LockForHooks(t) ==
    /\ ending[t] = "lock"
    /\ ending' = [ending EXCEPT ![t] = "hooks"]
    /\ index' = [index EXCEPT ![t] = Len(rollbackHooks[t])]
    /\ UNCHANGED <<schedMu, schedTx, begun, done, ctxDone, rollbackHooks,
                   affected, awaiter, pc, mine, readerVars, history>>

\* Faulty variant: the oldest hook first.
RunOldestHook(t) ==
    /\ ending[t] = "hooks"
    /\ index[t] > 0
    /\ index' = [index EXCEPT ![t] = @ - 1]
    /\ ran' = [ran EXCEPT ![t] =
                 Append(@, rollbackHooks[t][Len(rollbackHooks[t]) + 1 - index[t]])]
    /\ UNCHANGED <<schedMu, schedTx, begun, done, ctxDone, rollbackHooks,
                   affected, ending, awaiter, pc, mine, readerVars, winner,
                   subscribed, committed>>

RunHook(t) ==
    /\ ending[t] = "hooks"
    /\ index[t] > 0
    /\ index' = [index EXCEPT ![t] = @ - 1]
    /\ ran' = [ran EXCEPT ![t] = Append(@, rollbackHooks[t][index[t]])]
    /\ UNCHANGED <<schedMu, schedTx, begun, done, ctxDone, rollbackHooks,
                   affected, ending, awaiter, pc, mine, readerVars, winner,
                   subscribed, committed>>

\* Faulty variant: the loop ends before it has come to the oldest hook.
UnlockBeforeLastHook(t) ==
    /\ ending[t] = "hooks"
    /\ index[t] <= 1
    /\ ending' = [ending EXCEPT ![t] = "cancel"]
    /\ UNCHANGED <<schedMu, schedTx, begun, done, ctxDone, rollbackHooks,
                   affected, index, awaiter, pc, mine, readerVars, history>>

UnlockAfterHooks(t) ==
    /\ ending[t] = "hooks"
    /\ index[t] = 0
    /\ ending' = [ending EXCEPT ![t] = "cancel"]
    /\ UNCHANGED <<schedMu, schedTx, begun, done, ctxDone, rollbackHooks,
                   affected, index, awaiter, pc, mine, readerVars, history>>

\* Faulty variant: the end of a transaction forgets to cancel its context.
SkipCancel(t) ==
    /\ ending[t] = "cancel"
    /\ ending' = [ending EXCEPT ![t] = "close"]
    /\ UNCHANGED <<schedMu, schedTx, begun, done, ctxDone, rollbackHooks,
                   affected, index, awaiter, pc, mine, readerVars, history>>

Cancel(t) ==
    /\ ending[t] = "cancel"
    /\ ctxDone' = [ctxDone EXCEPT ![t] = TRUE]
    /\ ending' = [ending EXCEPT ![t] = "close"]
    /\ UNCHANGED <<schedMu, schedTx, begun, done, rollbackHooks, affected,
                   index, awaiter, pc, mine, readerVars, history>>

\* Faulty variant: the add-on of a closed transaction stays.
CloseKeepsAddOn(t) ==
    /\ ending[t] = "close"
    /\ rollbackHooks' = [rollbackHooks EXCEPT ![t] = <<>>]
    /\ ending' = [ending EXCEPT ![t] = "closed"]
    /\ UNCHANGED <<schedMu, schedTx, begun, done, ctxDone, affected, index,
                   awaiter, pc, mine, readerVars, history>>

Close(t) ==
    /\ ending[t] = "close"
    /\ affected' = [affected EXCEPT ![t] = FALSE]
    /\ rollbackHooks' = [rollbackHooks EXCEPT ![t] = <<>>]
    /\ ending' = [ending EXCEPT ![t] = "closed"]
    /\ UNCHANGED <<schedMu, schedTx, begun, done, ctxDone, index, awaiter, pc,
                   mine, readerVars, history>>

-------------------------------------------------------------------------------
(* Tx.awaitDone and the context *)

AwaiterWakes(t) ==
    /\ awaiter[t] = "waiting"
    /\ ctxDone[t]
    /\ awaiter' = [awaiter EXCEPT ![t] = "rolling"]
    /\ UNCHANGED <<schedMu, schedTx, txVars, pc, mine, readerVars, history>>

AwaiterTxDone(t) ==
    /\ awaiter[t] = "rolling"
    /\ IsDone(t)
    /\ awaiter' = [awaiter EXCEPT ![t] = "returned"]
    /\ UNCHANGED <<schedMu, schedTx, txVars, pc, mine, readerVars, history>>

AwaiterSwapsDone(t) ==
    /\ awaiter[t] = "rolling"
    /\ awaiter' = [awaiter EXCEPT ![t] = "ending"]
    /\ SwapDoneForRollback(t)
    /\ UNCHANGED pc

AwaiterReturns(t) ==
    /\ awaiter[t] = "ending"
    /\ ending[t] = "closed"
    /\ awaiter' = [awaiter EXCEPT ![t] = "returned"]
    /\ UNCHANGED <<schedMu, schedTx, txVars, pc, mine, readerVars, history>>

\* The context given to CreateTransaction is cancelled or runs out of time.
ContextEnds(t) ==
    /\ ContextMayEnd
    /\ t <= begun
    /\ ~ctxDone[t]
    /\ ctxDone' = [ctxDone EXCEPT ![t] = TRUE]
    /\ UNCHANGED <<schedMu, schedTx, begun, done, rollbackHooks, affected,
                   ending, index, awaiter, pc, mine, readerVars, history>>

-------------------------------------------------------------------------------
(* AddOnServer.tryGetAddOnInTransaction: four unsynchronised looks at the  *)
(* scheduler and its transaction.                                          *)

ReaderGoto(r, from, to) == rpc[r] = from /\ rpc' = [rpc EXCEPT ![r] = to]

ReaderFindsNone(r) ==
    /\ ReaderGoto(r, "idle", "idle")
    /\ ~IsTransactionOpen
    /\ report' = [report EXCEPT ![r] = NoTx]
    /\ UNCHANGED <<schedMu, schedTx, txVars, awaiter, pc, mine, seen, history>>

ReaderFindsOpen(r) ==
    /\ ReaderGoto(r, "idle", "open")
    /\ IsTransactionOpen
    /\ UNCHANGED <<schedMu, schedTx, txVars, awaiter, pc, mine, seen, report,
                   history>>

GetTransaction(r) ==
    /\ ReaderGoto(r, "open", "got")
    /\ seen' = [seen EXCEPT ![r] = schedTx]
    /\ UNCHANGED <<schedMu, schedTx, txVars, awaiter, pc, mine, report,
                   history>>

AffectedAddOnDone(r) ==
    /\ ReaderGoto(r, "got", "idle")
    /\ IsDone(seen[r])
    /\ report' = [report EXCEPT ![r] = NoTx]
    /\ seen' = [seen EXCEPT ![r] = NoTx]
    /\ UNCHANGED <<schedMu, schedTx, txVars, awaiter, pc, mine, history>>

AffectedAddOnOpen(r) ==
    /\ ReaderGoto(r, "got", "checked")
    /\ ~IsDone(seen[r])
    /\ UNCHANGED <<schedMu, schedTx, txVars, awaiter, pc, mine, seen, report,
                   history>>

AffectedAddOn(r) ==
    /\ ReaderGoto(r, "checked", "idle")
    /\ report' = [report EXCEPT ![r] = IF affected[seen[r]] THEN seen[r]
                                                           ELSE NoTx]
    /\ seen' = [seen EXCEPT ![r] = NoTx]
    /\ UNCHANGED <<schedMu, schedTx, txVars, awaiter, pc, mine, history>>

-------------------------------------------------------------------------------

CreateTransaction(c) ==
    \/ LockScheduler(c) \/ RefuseTransaction(c) \/ AcceptTransaction(c)
    \/ BeginTx(c)

Commit(c) ==
    \/ CommitContextDone(c) \/ CommitContextOpen(c)
    \/ CommitTxDone(c) \/ CommitSwapsDone(c) \/ CommitReturns(c)

Rollback(c) == RollbackTxDone(c) \/ RollbackSwapsDone(c) \/ RollbackReturns(c)

Routine(c) ==
    \/ \E h \in Hooks : SubscribeRollbackHook(c, h)
    \/ SetAddOnContextCheck(c) \/ SetAddOnContext(c)
    \/ RoutineFails(c)

End(t) ==
    LockForHooks(t) \/ RunHook(t) \/ UnlockAfterHooks(t) \/ Cancel(t) \/ Close(t)

AwaitDone(t) ==
    AwaiterWakes(t) \/ AwaiterTxDone(t) \/ AwaiterSwapsDone(t) \/ AwaiterReturns(t)

TryGetAddOnInTransaction(r) ==
    \/ ReaderFindsNone(r) \/ ReaderFindsOpen(r) \/ GetTransaction(r)
    \/ AffectedAddOnDone(r) \/ AffectedAddOnOpen(r) \/ AffectedAddOn(r)

\* All transactions of the bounded behaviour are over.
Finished ==
    /\ begun = MaxTx
    /\ \A c \in Callers : pc[c] = "idle"
    /\ \A t \in Txs : awaiter[t] = "returned"
    /\ UNCHANGED vars

Next ==
    \/ \E c \in Callers :
          CreateTransaction(c) \/ Routine(c) \/ Commit(c) \/ Rollback(c)
    \/ \E t \in Txs : End(t) \/ AwaitDone(t) \/ ContextEnds(t)
    \/ \E r \in Readers : TryGetAddOnInTransaction(r)
    \/ Finished

\* Nobody has to start a transaction, but a goroutine that has one keeps
\* going: its routine comes to an end, with or without an error.
Fairness ==
    /\ \A c \in Callers :
          /\ WF_vars(RefuseTransaction(c) \/ AcceptTransaction(c) \/ BeginTx(c))
          /\ WF_vars(SetAddOnContext(c) \/ RoutineFails(c) \/ Commit(c))
          /\ WF_vars(Rollback(c))
    /\ \A t \in Txs : WF_vars(End(t)) /\ WF_vars(AwaitDone(t))

Spec == Init /\ [][Next]_vars
FairSpec == Spec /\ Fairness

-------------------------------------------------------------------------------
(* Safety *)

Open(t) == t <= begun /\ ~IsDone(t)

\* At most one transaction is open, and it is the one the scheduler looks at:
\* CreateTransaction never loses sight of an open transaction, whatever the
\* callers, the awaitDone goroutines and the context do.
OneOpenTransaction == \A t \in Txs : Open(t) => t = schedTx

\* Commit and rollback exclude each other: when Commit has returned nil, no
\* hook of that transaction has run, and none will, although the deferred
\* Rollback and awaitDone both call rollback after every Commit.
CommittedIsKept == \A t \in committed : ran[t] = <<>>

\* rollback calls the hooks in the reverse of the order they were subscribed,
\* none twice and none left out in between.
RolledBackInReverse ==
    \A t \in Txs :
        winner[t] = "rollback" /\ ending[t] \in {"cancel", "close", "closed"} =>
            \A k \in 1 .. Len(ran[t]) :
                ran[t][k] = subscribed[t][Len(ran[t]) + 1 - k]

\* Tx.Done: its channel "is closed when work done".  When the context is
\* context.Background(), as in every call of the program, that is not before the
\* commit is decided or every hook ever subscribed has returned: a transaction
\* that is not committed leaves no hook behind.
DoneMeansWorkDone ==
    ~ContextMayEnd =>
        \A t \in Txs :
            ctxDone[t] =>
                /\ IsDone(t)
                /\ winner[t] = "rollback" => Len(ran[t]) = Len(subscribed[t])

\* A reader that looked at done before the transaction ended and takes Tx.mu
\* afterwards never reports the add-on of a transaction that is closed.
NoReportFromClosed ==
    [][~ContextMayEnd =>
         \A r \in Readers :
            report'[r] # report[r] /\ report'[r] # NoTx =>
                ending[report'[r]] # "closed"]_vars

-------------------------------------------------------------------------------
(* Liveness *)

\* Every transaction that is begun comes to its end, and neither its caller
\* nor its awaitDone goroutine is left waiting for ever.
EveryTransactionEnds ==
    \A t \in Txs :
        t <= begun ~> /\ ending[t] = "closed"
                      /\ awaiter[t] = "returned"
                      /\ \A c \in Callers : mine[c] # t

-------------------------------------------------------------------------------
(* Refinement *)

AbstractState(t) ==
    IF t > begun THEN "unborn"
    ELSE CASE ending[t] = "none" -> "open"
           [] ending[t] \in {"lock", "hooks"} -> "undoing"
           [] OTHER -> IF winner[t] = "Commit" THEN "committed"
                                              ELSE "rolledback"

AbstractLog(t) ==
    CASE ending[t] \in {"none", "lock"} -> rollbackHooks[t]
      [] ending[t] = "hooks" -> SubSeq(rollbackHooks[t], 1, index[t])
      [] OTHER -> <<>>

Abstract == INSTANCE UndoLog WITH
    state <- [t \in Txs |-> AbstractState(t)],
    log <- [t \in Txs |-> AbstractLog(t)]

\* With context.Background() the goroutines, locks and flags of this module
\* amount to the undo log of UndoLog.
ImplementsUndoLog == Abstract!AbstractSpec
================================================================================
