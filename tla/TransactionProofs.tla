--------------------------- MODULE TransactionProofs ---------------------------
(***************************************************************************)
(* Proofs about Transaction, for any number of callers, readers, hooks and *)
(* transactions, and for contexts that end or do not end.                  *)
(*                                                                         *)
(* The invariant has four layers, each resting on the ones before it: the  *)
(* types, the scheduler and who may be inside CreateTransaction, the       *)
(* outcome of a transaction (who won the race for done), and the hooks     *)
(* that have run.  A fifth one holds when the context does not end.        *)
(*                                                                         *)
(* The last part shows that with context.Background(), as in every call of *)
(* the program, Transaction implements UndoLog: every step of a goroutine  *)
(* is a step of the undo log or leaves it as it is.                        *)
(***************************************************************************)
EXTENDS Transaction, TLAPS

-------------------------------------------------------------------------------
(* The inductive invariant *)

\* The states of a caller that has a transaction.
Active == {"running", "context", "commit", "committing", "deferred",
           "rollingback"}

\* Whoever is inside CreateTransaction holds the scheduler's lock, so what it
\* found about the last transaction still holds when it begins the next one;
\* the scheduler's transaction is always the last one begun, and all earlier
\* ones are done.
SchedulerInv ==
    /\ schedTx = begun
    /\ \A t \in Txs : t < begun => done[t] = 1
    /\ \A t \in Txs : t > begun => /\ done[t] = 0
                                   /\ awaiter[t] = "none"
                                   /\ subscribed[t] = <<>>
    /\ \A c \in Callers : pc[c] \in {"check", "begin"} =>
                              schedMu = c /\ begun < MaxTx
    /\ \A c \in Callers : pc[c] = "begin" => begun = 0 \/ done[begun] = 1
    /\ \A c \in Callers : pc[c] \in Active => mine[c] \in 1 .. begun

\* Exactly one of Commit and rollback wins done, and only rollback runs hooks.
Outcome(t) ==
    /\ done[t] = 0 <=> ending[t] = "none"
    /\ ending[t] = "none" <=> winner[t] = "none"
    /\ ending[t] \in {"lock", "hooks"} => winner[t] = "rollback"
    /\ ending[t] \in {"none", "lock"} => ran[t] = <<>>
    /\ winner[t] = "Commit" => ran[t] = <<>>

\* A Commit that goes on to return nil is the one that won done.
CommitInv ==
    /\ \A t \in committed : winner[t] = "Commit"
    /\ \A c \in Callers : pc[c] = "committing" => winner[mine[c]] = "Commit"

OutcomeInv == (\A t \in Txs : Outcome(t)) /\ CommitInv

\* The hooks that have run are the youngest ones, and rollback's loop stands at
\* the youngest of the others.
HooksRun(t) ==
    /\ ending[t] # "closed" => rollbackHooks[t] = subscribed[t]
    /\ ending[t] = "hooks" => index[t] + Len(ran[t]) = Len(subscribed[t])
    /\ ending[t] \in {"cancel", "close", "closed"} /\ winner[t] = "rollback" =>
          index[t] = 0 /\ Len(ran[t]) <= Len(subscribed[t])
    /\ ending[t] # "none" =>
          \A k \in 1 .. Len(ran[t]) :
             ran[t][k] = subscribed[t][index[t] + Len(ran[t]) + 1 - k]

HooksInv == \A t \in Txs : HooksRun(t)

IndInv == TypeOK /\ SchedulerInv /\ OutcomeInv /\ HooksInv

-------------------------------------------------------------------------------
(* Which steps concern the fate of a transaction *)

fate == <<done, ending, winner, rollbackHooks, subscribed, ran, index>>

\* Every step either leaves the fate of all transactions alone or is one of
\* eight actions.
LEMMA FateSteps ==
    ASSUME [Next]_vars
    PROVE  \/ UNCHANGED fate
           \/ \E c \in Callers, h \in Hooks : SubscribeRollbackHook(c, h)
           \/ \E c \in Callers : CommitSwapsDone(c) \/ RollbackSwapsDone(c)
           \/ \E t \in Txs : AwaiterSwapsDone(t) \/ End(t)
  <1> USE DEF fate, txVars, history
  <1>1. ASSUME NEW c \in Callers, CreateTransaction(c) PROVE UNCHANGED fate
    BY <1>1 DEF CreateTransaction, LockScheduler, RefuseTransaction,
       AcceptTransaction, BeginTx
  <1>2. ASSUME NEW c \in Callers, Routine(c)
        PROVE  UNCHANGED fate \/ \E h \in Hooks : SubscribeRollbackHook(c, h)
    BY <1>2 DEF Routine, SetAddOnContextCheck, SetAddOnContext, RoutineFails
  <1>3. ASSUME NEW c \in Callers, Commit(c)
        PROVE  UNCHANGED fate \/ CommitSwapsDone(c)
    BY <1>3 DEF Commit, CommitContextDone, CommitContextOpen, CommitTxDone,
       CommitReturns
  <1>4. ASSUME NEW c \in Callers, Rollback(c)
        PROVE  UNCHANGED fate \/ RollbackSwapsDone(c)
    BY <1>4 DEF Rollback, RollbackTxDone, RollbackReturns
  <1>5. ASSUME NEW t \in Txs, AwaitDone(t) \/ ContextEnds(t)
        PROVE  UNCHANGED fate \/ AwaiterSwapsDone(t)
    BY <1>5 DEF AwaitDone, AwaiterWakes, AwaiterTxDone, AwaiterReturns,
       ContextEnds
  <1>6. ASSUME NEW r \in Readers, TryGetAddOnInTransaction(r)
        PROVE  UNCHANGED fate
    BY <1>6 DEF TryGetAddOnInTransaction, ReaderFindsNone, ReaderFindsOpen,
       GetTransaction, AffectedAddOnDone, AffectedAddOnOpen, AffectedAddOn
  <1>7. ASSUME UNCHANGED vars PROVE UNCHANGED fate
    BY <1>7 DEF vars
  <1>8. QED
    BY <1>1, <1>2, <1>3, <1>4, <1>5, <1>6, <1>7 DEF Next, Finished

-------------------------------------------------------------------------------
(* The initial state *)

\* The initial state satisfies the invariant.
LEMMA InitIndInv == Init => IndInv
  <1> SUFFICES ASSUME Init PROVE IndInv
    OBVIOUS
  <1> USE TransactionAssumption DEF Init
  <1>1. TypeOK
    BY DEF TypeOK, Txs, NoTx, CallerStates, Endings, AwaiterStates, ReaderStates
  <1>2. SchedulerInv
    BY DEF SchedulerInv, Txs, NoTx, Active
  <1>3. OutcomeInv
    BY DEF OutcomeInv, Outcome, CommitInv
  <1>4. HooksInv
    BY DEF HooksInv, HooksRun
  <1>5. QED
    BY <1>1, <1>2, <1>3, <1>4 DEF IndInv

-------------------------------------------------------------------------------
(* Types *)

\* Every action keeps the types; only the loop over the hooks needs to know more:
\* that its index points at a hook.
LEMMA TypeStep ==
    ASSUME IndInv, [Next]_vars
    PROVE  TypeOK'
  <1> USE TransactionAssumption DEF TypeOK, Txs, NoTx, CallerStates, Endings,
          AwaiterStates, ReaderStates
  <1>0. TypeOK /\ SchedulerInv /\ OutcomeInv /\ HooksInv
    BY DEF IndInv
  <1>1. ASSUME NEW c \in Callers, CreateTransaction(c) PROVE TypeOK'
    <2>1. CASE LockScheduler(c)
      BY <1>0, <2>1 DEF LockScheduler, Goto, txVars, readerVars, history
    <2>2. CASE RefuseTransaction(c)
      BY <1>0, <2>2 DEF RefuseTransaction, Goto, txVars, readerVars, history
    <2>3. CASE AcceptTransaction(c)
      BY <1>0, <2>3 DEF AcceptTransaction, Goto, txVars, readerVars, history
    <2>4. CASE BeginTx(c)
      <3>1. begun + 1 \in Txs
        BY <1>0, <2>4 DEF BeginTx, Goto, SchedulerInv
      <3>2. begun' \in 0 .. MaxTx /\ schedTx' \in Txs \cup {NoTx}
        BY <2>4, <3>1 DEF BeginTx
      <3>3. /\ awaiter' \in [Txs -> AwaiterStates]
            /\ mine' \in [Callers -> Txs \cup {NoTx}]
        BY <1>0, <2>4, <3>1 DEF BeginTx
      <3>4. QED
        BY <1>0, <2>4, <3>2, <3>3 DEF BeginTx, Goto, readerVars, history
    <2>5. QED
      BY <1>1, <2>1, <2>2, <2>3, <2>4 DEF CreateTransaction
  <1>2. ASSUME NEW c \in Callers, Routine(c) PROVE TypeOK'
    <2>1. ASSUME NEW h \in Hooks, SubscribeRollbackHook(c, h) PROVE TypeOK'
      <3>1. mine[c] \in Txs
        BY <1>0, <2>1 DEF SubscribeRollbackHook, SchedulerInv, Active
      <3>2. /\ Append(rollbackHooks[mine[c]], h) \in Seq(Hooks)
            /\ Append(subscribed[mine[c]], h) \in Seq(Hooks)
        BY <1>0, <3>1
      <3>3. rollbackHooks' \in [Txs -> Seq(Hooks)]
        BY <1>0, <2>1, <3>2 DEF SubscribeRollbackHook
      <3>4. subscribed' \in [Txs -> Seq(Hooks)]
        BY <1>0, <2>1, <3>2 DEF SubscribeRollbackHook
      <3>5. QED
        BY <1>0, <2>1, <3>3, <3>4 DEF SubscribeRollbackHook, readerVars
    <2>2. CASE SetAddOnContextCheck(c)
      BY <1>0, <2>2 DEF SetAddOnContextCheck, Goto, txVars, readerVars, history
    <2>3. CASE SetAddOnContext(c)
      BY <1>0, <2>3 DEF SetAddOnContext, Goto, txVars, readerVars, history
    <2>4. CASE RoutineFails(c)
      BY <1>0, <2>4 DEF RoutineFails, Goto, txVars, readerVars, history
    <2>5. QED
      BY <1>2, <2>1, <2>2, <2>3, <2>4 DEF Routine
  <1>3. ASSUME NEW c \in Callers, Commit(c) PROVE TypeOK'
    <2>1. CASE CommitContextDone(c)
      BY <1>0, <2>1 DEF CommitContextDone, Goto, txVars, readerVars, history
    <2>2. CASE CommitContextOpen(c)
      BY <1>0, <2>2 DEF CommitContextOpen, Goto, txVars, readerVars, history
    <2>3. CASE CommitTxDone(c)
      BY <1>0, <2>3 DEF CommitTxDone, Goto, txVars, readerVars, history
    <2>4. CASE CommitSwapsDone(c)
      BY <1>0, <2>4 DEF CommitSwapsDone, Goto, txVars, readerVars
    <2>5. CASE CommitReturns(c)
      <3>1. mine[c] \in Txs
        BY <1>0, <2>5 DEF CommitReturns, Goto, SchedulerInv, Active
      <3>2. QED
        BY <1>0, <2>5, <3>1 DEF CommitReturns, Goto, txVars, readerVars
    <2>6. QED
      BY <1>3, <2>1, <2>2, <2>3, <2>4, <2>5 DEF Commit
  <1>4. ASSUME NEW c \in Callers, Rollback(c) PROVE TypeOK'
    <2>1. CASE RollbackTxDone(c)
      BY <1>0, <2>1 DEF RollbackTxDone, Goto, txVars, readerVars, history
    <2>2. CASE RollbackSwapsDone(c)
      BY <1>0, <2>2 DEF RollbackSwapsDone, Goto, SwapDoneForRollback, txVars,
         readerVars
    <2>3. CASE RollbackReturns(c)
      BY <1>0, <2>3 DEF RollbackReturns, Goto, txVars, readerVars, history
    <2>4. QED
      BY <1>4, <2>1, <2>2, <2>3 DEF Rollback
  <1>5. ASSUME NEW t \in Txs, End(t) PROVE TypeOK'
    <2>1. CASE LockForHooks(t)
      <3>1. index' \in [Txs -> Nat]
        BY <1>0, <2>1 DEF LockForHooks
      <3>2. QED
        BY <1>0, <2>1, <3>1 DEF LockForHooks, readerVars, history
    <2>2. CASE RunHook(t)
      <3>1. /\ rollbackHooks[t] \in Seq(Hooks)
            /\ ran[t] \in Seq(Hooks)
            /\ index[t] \in Nat
        BY <1>0
      <3>2. index[t] \in 1 .. Len(rollbackHooks[t])
        <4>1. index[t] + Len(ran[t]) = Len(rollbackHooks[t]) /\ index[t] > 0
          BY <1>0, <2>2 DEF RunHook, HooksInv, HooksRun
        <4>2. Len(ran[t]) \in Nat /\ Len(rollbackHooks[t]) \in Nat
          BY <3>1
        <4>3. QED
          BY <3>1, <4>1, <4>2
      <3>3. Append(ran[t], rollbackHooks[t][index[t]]) \in Seq(Hooks)
        BY <3>1, <3>2
      <3>4. ran' \in [Txs -> Seq(Hooks)]
        BY <1>0, <2>2, <3>3 DEF RunHook
      <3>5. index' \in [Txs -> Nat]
        <4>1. index[t] - 1 \in Nat
          BY <3>1, <3>2
        <4>2. QED
          BY <1>0, <2>2, <4>1 DEF RunHook
      <3>6. QED
        BY <1>0, <2>2, <3>4, <3>5 DEF RunHook, readerVars
    <2>3. CASE UnlockAfterHooks(t)
      BY <1>0, <2>3 DEF UnlockAfterHooks, txVars, readerVars, history
    <2>4. CASE Cancel(t)
      BY <1>0, <2>4 DEF Cancel, txVars, readerVars, history
    <2>5. CASE Close(t)
      <3>1. rollbackHooks' \in [Txs -> Seq(Hooks)]
        BY <1>0, <2>5 DEF Close
      <3>2. QED
        BY <1>0, <2>5, <3>1 DEF Close, readerVars, history
    <2>6. QED
      BY <1>5, <2>1, <2>2, <2>3, <2>4, <2>5 DEF End
  <1>6. ASSUME NEW t \in Txs, AwaitDone(t) PROVE TypeOK'
    <2>1. CASE AwaiterWakes(t)
      BY <1>0, <2>1 DEF AwaiterWakes, txVars, readerVars, history
    <2>2. CASE AwaiterTxDone(t)
      BY <1>0, <2>2 DEF AwaiterTxDone, txVars, readerVars, history
    <2>3. CASE AwaiterSwapsDone(t)
      BY <1>0, <2>3 DEF AwaiterSwapsDone, SwapDoneForRollback, txVars,
         readerVars
    <2>4. CASE AwaiterReturns(t)
      BY <1>0, <2>4 DEF AwaiterReturns, txVars, readerVars, history
    <2>5. QED
      BY <1>6, <2>1, <2>2, <2>3, <2>4 DEF AwaitDone
  <1>7. ASSUME NEW r \in Readers, TryGetAddOnInTransaction(r) PROVE TypeOK'
    <2>1. CASE ReaderFindsNone(r)
      BY <1>0, <2>1 DEF ReaderFindsNone, ReaderGoto, txVars, readerVars,
         history
    <2>2. CASE ReaderFindsOpen(r)
      BY <1>0, <2>2 DEF ReaderFindsOpen, ReaderGoto, txVars, readerVars,
         history
    <2>3. CASE GetTransaction(r)
      BY <1>0, <2>3 DEF GetTransaction, ReaderGoto, txVars, readerVars, history
    <2>4. CASE AffectedAddOnDone(r)
      BY <1>0, <2>4 DEF AffectedAddOnDone, ReaderGoto, txVars, readerVars,
         history
    <2>5. CASE AffectedAddOnOpen(r)
      BY <1>0, <2>5 DEF AffectedAddOnOpen, ReaderGoto, txVars, readerVars,
         history
    <2>6. CASE AffectedAddOn(r)
      BY <1>0, <2>6 DEF AffectedAddOn, ReaderGoto, txVars, readerVars, history
    <2>7. QED
      BY <1>7, <2>1, <2>2, <2>3, <2>4, <2>5, <2>6 DEF TryGetAddOnInTransaction
  <1>8. ASSUME NEW t \in Txs, ContextEnds(t) PROVE TypeOK'
    BY <1>0, <1>8 DEF ContextEnds, readerVars, history
  <1>9. ASSUME UNCHANGED vars PROVE TypeOK'
    BY <1>0, <1>9 DEF vars, txVars, readerVars, history
  <1>10. QED
    BY <1>1, <1>2, <1>3, <1>4, <1>5, <1>6, <1>7, <1>8, <1>9 DEF Next, Finished

-------------------------------------------------------------------------------
(* The scheduler *)

\* What the scheduler and its callers look at.
schedulerVars == <<schedMu, schedTx, begun, done, awaiter, pc, mine, subscribed>>

\* Every action keeps the scheduler's part of the invariant.
LEMMA SchedulerStep ==
    ASSUME TypeOK, SchedulerInv, [Next]_vars
    PROVE  SchedulerInv'
  <1> USE TransactionAssumption DEF TypeOK, SchedulerInv, Txs, NoTx, Active, IsDone
  <1>1. ASSUME UNCHANGED schedulerVars PROVE SchedulerInv'
    BY <1>1 DEF schedulerVars
  <1>2. ASSUME NEW c \in Callers, LockScheduler(c) PROVE SchedulerInv'
    BY <1>2 DEF LockScheduler, Goto, txVars, history
  <1>3. ASSUME NEW c \in Callers, RefuseTransaction(c) PROVE SchedulerInv'
    BY <1>3 DEF RefuseTransaction, Goto, IsTransactionOpen, txVars, history
  <1>4. ASSUME NEW c \in Callers, AcceptTransaction(c) PROVE SchedulerInv'
    BY <1>4 DEF AcceptTransaction, Goto, IsTransactionOpen, txVars, history
  <1>5. ASSUME NEW c \in Callers, BeginTx(c) PROVE SchedulerInv'
    <2> USE <1>5 DEF BeginTx, Goto
    <2>1. begun \in 0 .. MaxTx /\ begun + 1 \in Txs /\ schedMu = c
      OBVIOUS
    <2>2. begun = 0 \/ done[begun] = 1
      OBVIOUS
    <2>3. schedTx' = begun' /\ \A t \in Txs : t < begun' => done'[t] = 1
      BY <2>1, <2>2
    <2>4. ASSUME NEW t \in Txs, t > begun'
          PROVE  done'[t] = 0 /\ awaiter'[t] = "none" /\ subscribed'[t] = <<>>
      <3>1. t > begun /\ t # begun + 1
        BY <2>1, <2>4
      <3>2. awaiter'[t] = awaiter[t] /\ done' = done /\ subscribed' = subscribed
        BY <3>1 DEF history
      <3>3. QED
        BY <3>1, <3>2
    <2>5. \A d \in Callers : pc'[d] \notin {"check", "begin"}
      BY <2>1
    <2>6. ASSUME NEW d \in Callers, pc'[d] \in Active
          PROVE  mine'[d] \in 1 .. begun'
      <3>1. CASE d = c
        BY <2>1, <3>1
      <3>2. CASE d # c
        <4>1. mine'[d] = mine[d] /\ pc'[d] = pc[d]
          BY <3>2
        <4>2. mine[d] \in 1 .. begun
          BY <2>6, <4>1
        <4>3. begun' = begun + 1 /\ begun \in Nat
          BY <2>1
        <4> HIDE DEF TypeOK, SchedulerInv, BeginTx
        <4>4. QED
          BY <4>1, <4>2, <4>3
      <3>3. QED
        BY <3>1, <3>2
    <2>7. QED
      BY <2>3, <2>4, <2>5, <2>6
  <1>6. ASSUME NEW c \in Callers, NEW h \in Hooks,
               SubscribeRollbackHook(c, h)
        PROVE  SchedulerInv'
    <2>1. mine[c] \in 1 .. begun
      BY <1>6 DEF SubscribeRollbackHook
    <2>2. \A t \in Txs : t > begun => subscribed'[t] = subscribed[t]
      BY <1>6, <2>1 DEF SubscribeRollbackHook
    <2>3. QED
      BY <1>6, <2>2 DEF SubscribeRollbackHook
  <1>7. ASSUME NEW c \in Callers, SetAddOnContextCheck(c) PROVE SchedulerInv'
    BY <1>7 DEF SetAddOnContextCheck, Goto, txVars, history
  <1>8. ASSUME NEW c \in Callers, SetAddOnContext(c) PROVE SchedulerInv'
    BY <1>8 DEF SetAddOnContext, Goto, txVars, history
  <1>9. ASSUME NEW c \in Callers, RoutineFails(c) PROVE SchedulerInv'
    BY <1>9 DEF RoutineFails, Goto, txVars, history
  <1>10. ASSUME NEW c \in Callers, CommitContextDone(c) PROVE SchedulerInv'
    BY <1>10 DEF CommitContextDone, Goto, txVars, history
  <1>11. ASSUME NEW c \in Callers, CommitContextOpen(c) PROVE SchedulerInv'
    BY <1>11 DEF CommitContextOpen, Goto, txVars, history
  <1>12. ASSUME NEW c \in Callers, CommitTxDone(c) PROVE SchedulerInv'
    BY <1>12 DEF CommitTxDone, Goto, txVars, history
  <1>13. ASSUME NEW c \in Callers, CommitSwapsDone(c) PROVE SchedulerInv'
    <2> USE <1>13 DEF CommitSwapsDone, Goto
    <2>1. mine[c] \in 1 .. begun
      OBVIOUS
    <2>2. /\ \A t \in Txs : done[t] = 1 => done'[t] = 1
          /\ \A t \in Txs : t > begun => done'[t] = done[t]
      BY <2>1
    <2>3. \A d \in Callers : pc'[d] = "begin" => begun = 0 \/ done'[begun] = 1
      BY <2>2
    <2>4. QED
      BY <2>1, <2>2, <2>3
  <1>14. ASSUME NEW c \in Callers, CommitReturns(c) PROVE SchedulerInv'
    BY <1>14 DEF CommitReturns, Goto, txVars, history
  <1>15. ASSUME NEW c \in Callers, RollbackTxDone(c) PROVE SchedulerInv'
    BY <1>15 DEF RollbackTxDone, Goto, txVars, history
  <1>16. ASSUME NEW c \in Callers, RollbackSwapsDone(c) PROVE SchedulerInv'
    <2> USE <1>16 DEF RollbackSwapsDone, SwapDoneForRollback, Goto
    <2>1. mine[c] \in 1 .. begun
      OBVIOUS
    <2>2. /\ \A t \in Txs : done[t] = 1 => done'[t] = 1
          /\ \A t \in Txs : t > begun => done'[t] = done[t]
      BY <2>1
    <2>3. \A d \in Callers : pc'[d] = "begin" => begun = 0 \/ done'[begun] = 1
      BY <2>2
    <2>4. QED
      BY <2>1, <2>2, <2>3
  <1>17. ASSUME NEW c \in Callers, RollbackReturns(c) PROVE SchedulerInv'
    BY <1>17 DEF RollbackReturns, Goto, txVars, history
  <1>18. ASSUME NEW t \in Txs, AwaiterWakes(t) PROVE SchedulerInv'
    BY <1>18 DEF AwaiterWakes, txVars, history
  <1>19. ASSUME NEW t \in Txs, AwaiterTxDone(t) PROVE SchedulerInv'
    BY <1>19 DEF AwaiterTxDone, txVars, history
  <1>20. ASSUME NEW t \in Txs, AwaiterSwapsDone(t) PROVE SchedulerInv'
    BY <1>20 DEF AwaiterSwapsDone, SwapDoneForRollback, txVars, history
  <1>21. ASSUME NEW t \in Txs, AwaiterReturns(t) PROVE SchedulerInv'
    BY <1>21 DEF AwaiterReturns, txVars, history
  <1>22. ASSUME NEW t \in Txs, End(t) \/ ContextEnds(t)
        PROVE  UNCHANGED schedulerVars
    BY <1>22 DEF schedulerVars, End, LockForHooks, RunHook, UnlockAfterHooks,
       Cancel, Close, ContextEnds, history
  <1>23. ASSUME NEW r \in Readers, TryGetAddOnInTransaction(r)
        PROVE  UNCHANGED schedulerVars
    BY <1>23 DEF schedulerVars, TryGetAddOnInTransaction, ReaderFindsNone,
       ReaderFindsOpen, GetTransaction, AffectedAddOnDone, AffectedAddOnOpen,
       AffectedAddOn, txVars, history
  <1>24. ASSUME UNCHANGED vars PROVE UNCHANGED schedulerVars
    BY <1>24 DEF schedulerVars, vars, txVars, history
  <1>25. QED
        BY <1>1, <1>2, <1>3, <1>4, <1>5, <1>6, <1>7, <1>8, <1>9, <1>10, <1>11,
       <1>12, <1>13, <1>14, <1>15, <1>16, <1>17, <1>18, <1>19, <1>20, <1>21,
       <1>22, <1>23, <1>24 DEF Next, CreateTransaction, Routine, Commit,
       Rollback, AwaitDone, Finished

-------------------------------------------------------------------------------
(* The outcome *)

\* A transaction's fate is decided once: the swap of done is what lets Commit or
\* rollback go on, and a swapped done is never swapped again.
LEMMA OutcomeStep ==
    ASSUME TypeOK, SchedulerInv, OutcomeInv, [Next]_vars
    PROVE  \A t \in Txs : Outcome(t)'
  <1> USE DEF TypeOK, OutcomeInv, Outcome
  <1>1. ASSUME UNCHANGED fate PROVE \A t \in Txs : Outcome(t)'
    BY <1>1 DEF fate
  <1>2. ASSUME NEW c \in Callers, NEW h \in Hooks, SubscribeRollbackHook(c, h)
        PROVE  \A t \in Txs : Outcome(t)'
    BY <1>2 DEF SubscribeRollbackHook
  <1>3. ASSUME NEW c \in Callers, CommitSwapsDone(c)
        PROVE  \A t \in Txs : Outcome(t)'
    BY <1>3 DEF CommitSwapsDone, IsDone
  <1>4. ASSUME NEW u \in Txs, SwapDoneForRollback(u)
        PROVE  \A t \in Txs : Outcome(t)'
    BY <1>4 DEF SwapDoneForRollback, IsDone
  <1>5. ASSUME NEW c \in Callers, RollbackSwapsDone(c)
        PROVE  \A t \in Txs : Outcome(t)'
    <2>1. mine[c] \in Txs /\ SwapDoneForRollback(mine[c])
      BY <1>5, TransactionAssumption DEF RollbackSwapsDone, Goto, SchedulerInv, Active, Txs
    <2>2. QED
      BY <1>4, <2>1
  <1>6. ASSUME NEW u \in Txs, LockForHooks(u) PROVE \A t \in Txs : Outcome(t)'
    BY <1>6 DEF LockForHooks, history
  <1>7. ASSUME NEW u \in Txs, RunHook(u) PROVE \A t \in Txs : Outcome(t)'
    BY <1>7 DEF RunHook
  <1>8. ASSUME NEW u \in Txs, UnlockAfterHooks(u) \/ Cancel(u) \/ Close(u)
        PROVE  \A t \in Txs : Outcome(t)'
    BY <1>8 DEF UnlockAfterHooks, Cancel, Close, history
  <1>9. QED
    BY <1>1, <1>2, <1>3, <1>4, <1>5, <1>6, <1>7, <1>8, FateSteps
       DEF AwaiterSwapsDone, End

\* Who won a transaction does not change any more.
LEMMA WinnerStays ==
    ASSUME TypeOK, SchedulerInv, OutcomeInv, [Next]_vars,
           NEW t \in Txs, winner[t] # "none"
    PROVE  winner'[t] = winner[t]
  <1> USE DEF OutcomeInv, Outcome, TypeOK
  <1>1. done[t] = 1
    OBVIOUS
  <1>2. ASSUME NEW u \in Txs, SwapDoneForRollback(u) PROVE winner'[t] = winner[t]
    BY <1>1, <1>2 DEF SwapDoneForRollback, IsDone
  <1>3. ASSUME NEW c \in Callers, CommitSwapsDone(c)
        PROVE  winner'[t] = winner[t]
    BY <1>1, <1>3 DEF CommitSwapsDone, IsDone
  <1>4. ASSUME NEW c \in Callers, RollbackSwapsDone(c)
        PROVE  winner'[t] = winner[t]
    BY <1>1, <1>4 DEF RollbackSwapsDone, SwapDoneForRollback, IsDone
  <1>5. QED
    BY <1>2, <1>3, <1>4, FateSteps DEF fate, SubscribeRollbackHook,
       AwaiterSwapsDone, End, LockForHooks, RunHook, UnlockAfterHooks, Cancel,
       Close, history

\* Only the Commit that won done comes to return nil.
LEMMA CommitStep ==
    ASSUME TypeOK, SchedulerInv, OutcomeInv, [Next]_vars
    PROVE  CommitInv'
  <1> USE DEF CommitInv
  <1> CommitInv
    BY DEF OutcomeInv
  <1>1. \A c \in Callers : pc[c] = "committing" => mine[c] \in Txs
    BY TransactionAssumption DEF SchedulerInv, Active, Txs, TypeOK
  <1>2. \A t \in Txs : winner[t] # "none" => winner'[t] = winner[t]
    BY WinnerStays
  <1>3. committed \subseteq Txs
    BY DEF TypeOK
  <1>4. ASSUME committed' = committed,
               \A c \in Callers : pc'[c] = "committing" =>
                                     pc[c] = "committing" /\ mine'[c] = mine[c]
        PROVE  CommitInv'
    BY <1>1, <1>2, <1>3, <1>4
  <1>5. ASSUME NEW c \in Callers, CommitSwapsDone(c) PROVE CommitInv'
    <2>1. mine[c] \in Txs
      BY <1>5, TransactionAssumption
         DEF CommitSwapsDone, Goto, SchedulerInv, Active, Txs, TypeOK
    <2>2. winner'[mine[c]] = "Commit" /\ mine' = mine /\ committed' = committed
      BY <1>5, <2>1 DEF CommitSwapsDone, TypeOK
    <2>3. \A d \in Callers : d # c => pc'[d] = pc[d]
      BY <1>5 DEF CommitSwapsDone, Goto, TypeOK
    <2>4. QED
      BY <1>1, <1>2, <1>3, <2>2, <2>3
  <1>6. ASSUME NEW c \in Callers, CommitReturns(c) PROVE CommitInv'
    BY <1>1, <1>2, <1>3, <1>6 DEF CommitReturns, Goto, TypeOK
  <1>7. ASSUME NEW c \in Callers, CreateTransaction(c) PROVE CommitInv'
    BY <1>4, <1>7 DEF CreateTransaction, LockScheduler, RefuseTransaction,
       AcceptTransaction, BeginTx, Goto, TypeOK, history
  <1>8. ASSUME NEW c \in Callers, Routine(c) PROVE CommitInv'
    BY <1>4, <1>8 DEF Routine, SubscribeRollbackHook, SetAddOnContextCheck,
       SetAddOnContext, RoutineFails, Goto, TypeOK, history
  <1>9. ASSUME NEW c \in Callers, Commit(c) PROVE CommitInv'
    BY <1>4, <1>5, <1>6, <1>9 DEF Commit, CommitContextDone, CommitContextOpen,
       CommitTxDone, Goto, TypeOK, history
  <1>10. ASSUME NEW c \in Callers, Rollback(c) PROVE CommitInv'
    BY <1>4, <1>10 DEF Rollback, RollbackTxDone, RollbackSwapsDone,
       SwapDoneForRollback, RollbackReturns, Goto, TypeOK, history
  <1>11. ASSUME NEW t \in Txs, End(t) \/ AwaitDone(t) \/ ContextEnds(t)
         PROVE  CommitInv'
    BY <1>4, <1>11 DEF End, LockForHooks, RunHook, UnlockAfterHooks, Cancel,
       Close, AwaitDone, AwaiterWakes, AwaiterTxDone, AwaiterSwapsDone,
       SwapDoneForRollback, AwaiterReturns, ContextEnds, history
  <1>12. ASSUME NEW r \in Readers, TryGetAddOnInTransaction(r) PROVE CommitInv'
    BY <1>4, <1>12 DEF TryGetAddOnInTransaction, ReaderFindsNone,
       ReaderFindsOpen, GetTransaction, AffectedAddOnDone, AffectedAddOnOpen,
       AffectedAddOn, history
  <1>13. ASSUME UNCHANGED vars PROVE CommitInv'
    BY <1>4, <1>13 DEF vars, history
  <1>14. QED
    BY <1>7, <1>8, <1>9, <1>10, <1>11, <1>12, <1>13 DEF Next, Finished

-------------------------------------------------------------------------------
(* The hooks *)

\* The loop of rollback takes the hooks from the youngest to the oldest, and a
\* hook that is subscribed late does not disturb the ones that have run.
LEMMA HooksStep ==
    ASSUME IndInv, [Next]_vars
    PROVE  HooksInv'
  <1> USE DEF HooksInv, HooksRun
  <1>0. /\ TypeOK /\ SchedulerInv /\ OutcomeInv /\ HooksInv
        /\ \A t \in Txs : Outcome(t)
    BY DEF IndInv, OutcomeInv
  <1>1. ASSUME UNCHANGED fate PROVE HooksInv'
    BY <1>0, <1>1 DEF fate
  <1>2. ASSUME NEW c \in Callers, NEW h \in Hooks, SubscribeRollbackHook(c, h)
        PROVE  HooksInv'
    <2>1. mine[c] \in Txs /\ ending[mine[c]] # "hooks"
      BY <1>0, <1>2, TransactionAssumption
         DEF SubscribeRollbackHook, RLocked, SchedulerInv, Active, Txs, TypeOK
    <2> PICK t \in Txs : t = mine[c]
      BY <2>1
    <2>2. \A u \in Txs \ {t} : HooksRun(u)'
      BY <1>0, <1>2 DEF SubscribeRollbackHook, TypeOK
    <2>3. /\ rollbackHooks[t] \in Seq(Hooks)
          /\ subscribed[t] \in Seq(Hooks)
          /\ ran[t] \in Seq(Hooks)
          /\ index[t] \in Nat
      BY <1>0, <2>1 DEF TypeOK
    <2>4. /\ rollbackHooks'[t] = Append(rollbackHooks[t], h)
          /\ subscribed'[t] = Append(subscribed[t], h)
          /\ UNCHANGED <<ending, index, winner, ran>>
      BY <1>0, <1>2, <2>1 DEF SubscribeRollbackHook, TypeOK
    <2>5. ending[t] # "none" =>
             Len(ran[t]) = 0 \/ index[t] + Len(ran[t]) <= Len(subscribed[t])
      <3>1. /\ ending[t] \in Endings \ {"hooks"}
            /\ winner[t] \in {"none", "Commit", "rollback"}
        BY <1>0, <2>1 DEF TypeOK
      <3>2. ran[t] = <<>> => Len(ran[t]) = 0
        OBVIOUS
      <3>3. CASE ran[t] = <<>>
        BY <3>2, <3>3
      <3>4. CASE /\ ending[t] \in {"cancel", "close", "closed"}
                 /\ winner[t] = "rollback"
        BY <1>0, <2>3, <3>4
      <3>5. QED
        BY <1>0, <3>1, <3>3, <3>4 DEF Outcome, Endings
    <2>6. ASSUME ending[t] # "none", NEW k \in 1 .. Len(ran[t])
          PROVE  index[t] + Len(ran[t]) + 1 - k \in 1 .. Len(subscribed[t])
      <3>1. Len(ran[t]) \in Nat /\ Len(subscribed[t]) \in Nat
        BY <2>3
      <3>2. index[t] + Len(ran[t]) <= Len(subscribed[t])
        BY <2>5, <2>6, <3>1
      <3>3. QED
        BY <2>3, <3>1, <3>2
    <2>7. ASSUME ending[t] # "none", NEW k \in 1 .. Len(ran[t])
          PROVE  ran[t][k] = subscribed'[t][index[t] + Len(ran[t]) + 1 - k]
      <3>1. ran[t][k] = subscribed[t][index[t] + Len(ran[t]) + 1 - k]
        BY <1>0, <2>7
      <3>2. QED
        BY <2>3, <2>4, <2>6, <2>7, <3>1
    <2>8. HooksRun(t)'
      <3>1. Len(subscribed'[t]) = Len(subscribed[t]) + 1
        BY <2>3, <2>4
      <3>2. Len(ran[t]) \in Nat /\ Len(subscribed[t]) \in Nat
        BY <2>3
      <3>3. ending'[t] # "closed" => rollbackHooks'[t] = subscribed'[t]
        BY <1>0, <2>4
      <3>4. ending'[t] # "hooks"
        BY <2>1, <2>4
      <3>5. ending'[t] \in {"cancel", "close", "closed"} /\ winner'[t] = "rollback" =>
               index'[t] = 0 /\ Len(ran'[t]) <= Len(subscribed'[t])
        BY <1>0, <2>4, <3>1, <3>2
      <3>6. ending'[t] # "none" =>
               \A k \in 1 .. Len(ran'[t]) :
                  ran'[t][k] = subscribed'[t][index'[t] + Len(ran'[t]) + 1 - k]
        BY <2>4, <2>7
      <3>7. QED
        BY <3>3, <3>4, <3>5, <3>6
    <2>9. QED
      BY <2>2, <2>8
  <1>3. ASSUME NEW c \in Callers, CommitSwapsDone(c) PROVE HooksInv'
    BY <1>0, <1>3 DEF CommitSwapsDone, IsDone, TypeOK, Outcome
  <1>4. ASSUME NEW u \in Txs, SwapDoneForRollback(u) PROVE HooksInv'
    BY <1>0, <1>4 DEF SwapDoneForRollback, IsDone, TypeOK, Outcome
  <1>5. ASSUME NEW c \in Callers, RollbackSwapsDone(c) PROVE HooksInv'
    <2>1. mine[c] \in Txs /\ SwapDoneForRollback(mine[c])
      BY <1>0, <1>5, TransactionAssumption
         DEF RollbackSwapsDone, Goto, SchedulerInv, Active, Txs, TypeOK
    <2>2. QED
      BY <1>4, <2>1
  <1>6. ASSUME NEW u \in Txs, LockForHooks(u) PROVE HooksInv'
    BY <1>0, <1>6 DEF LockForHooks, history, TypeOK, Outcome
  <1>7. ASSUME NEW u \in Txs, RunHook(u) PROVE HooksInv'
    <2>1. \A t \in Txs \ {u} : HooksRun(t)'
      BY <1>0, <1>7 DEF RunHook, TypeOK
    <2>2. /\ rollbackHooks[u] \in Seq(Hooks)
          /\ subscribed[u] \in Seq(Hooks)
          /\ ran[u] \in Seq(Hooks)
          /\ index[u] \in Nat \ {0}
      BY <1>0, <1>7 DEF RunHook, TypeOK
    <2>3. /\ ran'[u] = Append(ran[u], subscribed[u][index[u]])
          /\ index'[u] = index[u] - 1
          /\ ending[u] = "hooks"
          /\ UNCHANGED <<ending, winner, rollbackHooks, subscribed>>
      BY <1>0, <1>7 DEF RunHook, TypeOK
    <2>4. index'[u] + Len(ran'[u]) = index[u] + Len(ran[u])
      BY <2>2, <2>3
    <2>5. ASSUME NEW k \in 1 .. Len(ran'[u])
          PROVE  ran'[u][k] = subscribed[u][index'[u] + Len(ran'[u]) + 1 - k]
      <3>1. CASE k \in 1 .. Len(ran[u])
        <4>1. ran[u][k] = subscribed[u][index[u] + Len(ran[u]) + 1 - k]
          BY <1>0, <2>3, <3>1
        <4>2. ran'[u][k] = ran[u][k]
          BY <2>2, <2>3, <3>1
        <4>3. QED
          BY <2>4, <4>1, <4>2
      <3>2. CASE k = Len(ran[u]) + 1
        <4>1. index[u] + Len(ran[u]) + 1 - k = index[u]
          BY <2>2, <3>2
        <4>2. ran'[u][k] = subscribed[u][index[u]]
          BY <2>2, <2>3, <3>2
        <4>3. QED
          BY <2>4, <4>1, <4>2
      <3>3. QED
        BY <2>2, <2>3, <3>1, <3>2
    <2>6. HooksRun(u)'
      BY <1>0, <2>3, <2>4, <2>5
    <2>7. QED
      BY <2>1, <2>6
  <1>8. ASSUME NEW u \in Txs, UnlockAfterHooks(u) PROVE HooksInv'
    BY <1>0, <1>8 DEF UnlockAfterHooks, history, TypeOK, Outcome
  <1>9. ASSUME NEW u \in Txs, Cancel(u) PROVE HooksInv'
    BY <1>0, <1>9 DEF Cancel, history, TypeOK
  <1>10. ASSUME NEW u \in Txs, Close(u) PROVE HooksInv'
    BY <1>0, <1>10 DEF Close, history, TypeOK
  <1>11. QED
    BY <1>1, <1>2, <1>3, <1>4, <1>5, <1>6, <1>7, <1>8, <1>9, <1>10, FateSteps
       DEF AwaiterSwapsDone, End

-------------------------------------------------------------------------------
(* What holds whether the context ends or not *)

\* The invariant is inductive.
LEMMA IndInvStep == IndInv /\ [Next]_vars => IndInv'
  <1> SUFFICES ASSUME IndInv, [Next]_vars PROVE IndInv'
    OBVIOUS
  <1>1. TypeOK /\ SchedulerInv /\ OutcomeInv
    BY DEF IndInv
  <1>2. TypeOK'
    BY TypeStep
  <1>3. SchedulerInv'
    BY <1>1, SchedulerStep
  <1>4. OutcomeInv'
    BY <1>1, OutcomeStep, CommitStep DEF OutcomeInv
  <1>5. HooksInv'
    BY HooksStep
  <1>6. QED
    BY <1>2, <1>3, <1>4, <1>5 DEF IndInv

\* The four layers of the invariant hold in every state the callers, the
\* awaitDone goroutines, the readers and the context can bring about.
THEOREM Invariance == Spec => []IndInv
  BY InitIndInv, IndInvStep, PTL DEF Spec

\* Every variable keeps its type; in particular rollback's loop never indexes
\* Tx.rollbackHooks out of range, whatever is subscribed or closed meanwhile.
THEOREM TypeCorrect == Spec => []TypeOK
  <1>1. IndInv => TypeOK
    BY DEF IndInv
  <1>2. QED
    BY <1>1, Invariance, PTL

\* CreateTransaction, whose check and whose BeginTx are two steps under the
\* scheduler's lock, never loses sight of a transaction that is still open.
THEOREM OneOpenTransactionHolds == Spec => []OneOpenTransaction
  <1>1. IndInv => OneOpenTransaction
    BY TransactionAssumption
       DEF IndInv, SchedulerInv, OneOpenTransaction, Open, IsDone, TypeOK, Txs
  <1>2. QED
    BY <1>1, Invariance, PTL

\* Commit and rollback exclude each other: no hook of a transaction whose Commit
\* returned nil has run, although both the deferred Rollback and awaitDone call
\* rollback after it.
THEOREM CommittedIsKeptHolds == Spec => []CommittedIsKept
  <1>1. IndInv => CommittedIsKept
    BY DEF IndInv, OutcomeInv, Outcome, CommitInv, CommittedIsKept, TypeOK
  <1>2. QED
    BY <1>1, Invariance, PTL

\* The hooks that rollback has called are the reverse of the order they were
\* subscribed in, also when hooks arrive while or after it runs.
THEOREM RolledBackInReverseHolds == Spec => []RolledBackInReverse
  <1>1. IndInv => RolledBackInReverse
    <2> SUFFICES ASSUME IndInv, NEW t \in Txs, winner[t] = "rollback",
                        ending[t] \in {"cancel", "close", "closed"},
                        NEW k \in 1 .. Len(ran[t])
                 PROVE  ran[t][k] = subscribed[t][Len(ran[t]) + 1 - k]
      BY DEF RolledBackInReverse
    <2>1. HooksRun(t) /\ ran[t] \in Seq(Hooks)
      BY DEF IndInv, HooksInv, TypeOK
    <2>2. index[t] = 0 /\ Len(ran[t]) \in Nat
      BY <2>1 DEF HooksRun
    <2>3. index[t] + Len(ran[t]) + 1 - k = Len(ran[t]) + 1 - k
      BY <2>2
    <2>4. QED
      BY <2>1, <2>3 DEF HooksRun
  <1>2. QED
    BY <1>1, Invariance, PTL

-------------------------------------------------------------------------------
(* What holds with context.Background(), as in every call of the program *)

\* Nobody but its caller ends a transaction: the context is done only when the
\* work is, so awaitDone always comes too late, and no two callers share a
\* transaction.
BackgroundTx(t) ==
    /\ ctxDone[t] => ending[t] \in {"close", "closed"}
    /\ awaiter[t] \in {"rolling", "ending", "returned"} => ctxDone[t]
    /\ ending[t] = "closed" => ~affected[t]
    /\ ending[t] \in {"cancel", "close", "closed"} /\ winner[t] = "rollback" =>
          Len(ran[t]) = Len(subscribed[t])

OwnTransaction ==
    /\ \A c \in Callers :
          pc[c] \in {"running", "context", "commit"} => done[mine[c]] = 0
    /\ \A c, d \in Callers :
          pc[c] \in Active /\ pc[d] \in Active /\ mine[c] = mine[d] => c = d

BackgroundInv == (\A t \in Txs : BackgroundTx(t)) /\ OwnTransaction

\* Callers keep to their own transactions.
LEMMA OwnTransactionStep ==
    ASSUME ~ContextMayEnd, IndInv, BackgroundInv, [Next]_vars
    PROVE  OwnTransaction'
  <1> USE DEF OwnTransaction, Active
  <1>0. TypeOK /\ SchedulerInv /\ OutcomeInv /\ BackgroundInv
    BY DEF IndInv
  <1>1. \A c \in Callers : pc[c] \in Active => mine[c] \in Txs
    BY <1>0, TransactionAssumption DEF SchedulerInv, TypeOK, Txs
  <1>2. ASSUME done' = done,
               \A c \in Callers :
                  /\ pc'[c] \in Active => pc[c] \in Active /\ mine'[c] = mine[c]
                  /\ pc'[c] \in {"running", "context", "commit"} =>
                        pc[c] \in {"running", "context", "commit"}
        PROVE  OwnTransaction'
    BY <1>0, <1>2 DEF BackgroundInv
  <1>3. ASSUME NEW c \in Callers, CreateTransaction(c) PROVE OwnTransaction'
    <2>1. CASE BeginTx(c)
      <3>1. begun \in Nat /\ begun + 1 \in Txs /\ done[begun + 1] = 0
        BY <1>0, <2>1, TransactionAssumption
           DEF BeginTx, Goto, TypeOK, SchedulerInv, Txs
      <3>2. mine'[c] = begun + 1 /\ done' = done
        BY <1>0, <2>1 DEF BeginTx, TypeOK
      <3>3. \A d \in Callers \ {c} : pc'[d] = pc[d] /\ mine'[d] = mine[d]
        BY <1>0, <2>1 DEF BeginTx, Goto, TypeOK
      <3>4. \A d \in Callers \ {c} : pc[d] \in Active => mine[d] # begun + 1
        BY <1>0, <3>1 DEF SchedulerInv
      <3>5. QED
        BY <1>0, <3>1, <3>2, <3>3, <3>4 DEF BackgroundInv
    <2>2. CASE LockScheduler(c) \/ RefuseTransaction(c) \/ AcceptTransaction(c)
      BY <1>0, <1>2, <2>2 DEF LockScheduler, RefuseTransaction,
         AcceptTransaction, Goto, TypeOK, txVars
    <2>3. QED
      BY <1>3, <2>1, <2>2 DEF CreateTransaction
  <1>4. ASSUME NEW c \in Callers, Routine(c) PROVE OwnTransaction'
    BY <1>0, <1>2, <1>4 DEF Routine, SubscribeRollbackHook,
       SetAddOnContextCheck, SetAddOnContext, RoutineFails, Goto, TypeOK, txVars
  <1>5. ASSUME NEW c \in Callers, NEW u \in Txs, u = mine[c],
               pc[c] \in {"commit", "deferred"},
               pc' = [pc EXCEPT ![c] = IF pc[c] = "commit" THEN "committing"
                                       ELSE "rollingback"],
               mine' = mine, done' = [done EXCEPT ![u] = 1]
        PROVE  OwnTransaction'
    BY <1>0, <1>1, <1>5 DEF BackgroundInv, TypeOK
  <1>6. ASSUME NEW c \in Callers, Commit(c) PROVE OwnTransaction'
    <2>1. CASE CommitSwapsDone(c)
      BY <1>1, <1>5, <2>1 DEF CommitSwapsDone, Goto
    <2>2. CASE CommitContextDone(c) \/ CommitContextOpen(c) \/ CommitTxDone(c)
               \/ CommitReturns(c)
      BY <1>0, <1>2, <2>2 DEF CommitContextDone, CommitContextOpen,
         CommitTxDone, CommitReturns, Goto, TypeOK, txVars
    <2>3. QED
      BY <1>6, <2>1, <2>2 DEF Commit
  <1>7. ASSUME NEW c \in Callers, Rollback(c) PROVE OwnTransaction'
    <2>1. CASE RollbackSwapsDone(c)
      BY <1>1, <1>5, <2>1 DEF RollbackSwapsDone, SwapDoneForRollback, Goto
    <2>2. CASE RollbackTxDone(c) \/ RollbackReturns(c)
      BY <1>0, <1>2, <2>2 DEF RollbackTxDone, RollbackReturns, Goto, TypeOK, txVars
    <2>3. QED
      BY <1>7, <2>1, <2>2 DEF Rollback
  <1>8. ASSUME NEW t \in Txs, End(t) PROVE OwnTransaction'
    BY <1>2, <1>8 DEF End, LockForHooks, RunHook, UnlockAfterHooks, Cancel, Close
  <1>9. ASSUME NEW t \in Txs, AwaitDone(t) \/ ContextEnds(t)
        PROVE  OwnTransaction'
    <2>1. ~AwaiterSwapsDone(t)
      BY <1>0 DEF AwaiterSwapsDone, SwapDoneForRollback, IsDone, BackgroundInv,
         BackgroundTx, OutcomeInv, Outcome, TypeOK
    <2>2. QED
      BY <1>2, <1>9, <2>1 DEF AwaitDone, AwaiterWakes, AwaiterTxDone,
         AwaiterReturns, ContextEnds, txVars
  <1>10. ASSUME NEW r \in Readers, TryGetAddOnInTransaction(r)
         PROVE  OwnTransaction'
    BY <1>2, <1>10 DEF TryGetAddOnInTransaction, ReaderFindsNone,
       ReaderFindsOpen, GetTransaction, AffectedAddOnDone, AffectedAddOnOpen,
       AffectedAddOn, txVars
  <1>11. ASSUME UNCHANGED vars PROVE OwnTransaction'
    BY <1>2, <1>11 DEF vars, txVars
  <1>12. QED
    BY <1>3, <1>4, <1>6, <1>7, <1>8, <1>9, <1>10, <1>11 DEF Next, Finished

\* The context of a transaction is done, and its add-on forgotten, only after
\* all of its hooks have run.
LEMMA BackgroundTxStep ==
    ASSUME ~ContextMayEnd, IndInv, BackgroundInv, [Next]_vars
    PROVE  \A t \in Txs : BackgroundTx(t)'
  <1> USE DEF BackgroundTx
  <1>0. /\ TypeOK /\ SchedulerInv /\ OwnTransaction
        /\ \A t \in Txs : Outcome(t) /\ HooksRun(t) /\ BackgroundTx(t)
    BY DEF IndInv, OutcomeInv, HooksInv, BackgroundInv
  <1>1. ASSUME UNCHANGED <<ctxDone, ending, awaiter, affected, winner, ran,
                           subscribed>>
        PROVE  \A t \in Txs : BackgroundTx(t)'
    BY <1>0, <1>1
  <1>2. ASSUME NEW c \in Callers, pc[c] \in {"running", "context", "commit"}
        PROVE  mine[c] \in Txs /\ ending[mine[c]] = "none"
    <2>1. mine[c] \in Txs
      BY <1>0, <1>2, TransactionAssumption DEF SchedulerInv, Active, TypeOK, Txs
    <2>2. done[mine[c]] = 0
      BY <1>0, <1>2 DEF OwnTransaction
    <2>3. QED
      BY <1>0, <2>1, <2>2 DEF Outcome
  <1>3. ASSUME NEW c \in Callers, CreateTransaction(c)
        PROVE  \A t \in Txs : BackgroundTx(t)'
    BY <1>0, <1>3 DEF CreateTransaction, LockScheduler, RefuseTransaction,
       AcceptTransaction, BeginTx, Goto, txVars, history, TypeOK
  <1>4. ASSUME NEW c \in Callers, Routine(c)
        PROVE  \A t \in Txs : BackgroundTx(t)'
    <2>1. ASSUME NEW h \in Hooks, SubscribeRollbackHook(c, h)
          PROVE  \A t \in Txs : BackgroundTx(t)'
      BY <1>0, <1>2, <2>1 DEF SubscribeRollbackHook, TypeOK
    <2>2. CASE SetAddOnContext(c)
      BY <1>0, <1>2, <2>2 DEF SetAddOnContext, Goto, history, TypeOK
    <2>3. CASE SetAddOnContextCheck(c) \/ RoutineFails(c)
      BY <1>1, <2>3 DEF SetAddOnContextCheck, RoutineFails, txVars, history
    <2>4. QED
      BY <1>4, <2>1, <2>2, <2>3 DEF Routine
  <1>5. ASSUME NEW c \in Callers, Commit(c)
        PROVE  \A t \in Txs : BackgroundTx(t)'
    <2>1. CASE CommitSwapsDone(c)
      BY <1>0, <1>2, <2>1 DEF CommitSwapsDone, Goto, TypeOK
    <2>2. CASE CommitContextDone(c) \/ CommitContextOpen(c) \/ CommitTxDone(c)
               \/ CommitReturns(c)
      BY <1>1, <2>2 DEF CommitContextDone, CommitContextOpen, CommitTxDone,
         CommitReturns, txVars, history
    <2>3. QED
      BY <1>5, <2>1, <2>2 DEF Commit
  <1>6. ASSUME NEW c \in Callers, Rollback(c)
        PROVE  \A t \in Txs : BackgroundTx(t)'
    <2>1. CASE RollbackSwapsDone(c)
      BY <1>0, <2>1 DEF RollbackSwapsDone, SwapDoneForRollback, IsDone, Outcome,
         TypeOK
    <2>2. CASE RollbackTxDone(c) \/ RollbackReturns(c)
      BY <1>1, <2>2 DEF RollbackTxDone, RollbackReturns, txVars, history
    <2>3. QED
      BY <1>6, <2>1, <2>2 DEF Rollback
  <1>7. ASSUME NEW u \in Txs, End(u) PROVE \A t \in Txs : BackgroundTx(t)'
    <2>1. CASE LockForHooks(u)
      BY <1>0, <2>1 DEF LockForHooks, history, TypeOK
    <2>2. CASE RunHook(u)
      BY <1>0, <2>2 DEF RunHook, TypeOK
    <2>3. CASE UnlockAfterHooks(u)
      <3>1. Len(ran[u]) = Len(subscribed[u])
        <4>1. ran[u] \in Seq(Hooks) /\ subscribed[u] \in Seq(Hooks)
          BY <1>0 DEF TypeOK
        <4>2. 0 + Len(ran[u]) = Len(subscribed[u])
          BY <1>0, <2>3 DEF UnlockAfterHooks, HooksRun
        <4>3. QED
          BY <4>1, <4>2
      <3>2. QED
        BY <1>0, <2>3, <3>1 DEF UnlockAfterHooks, history, TypeOK
    <2>4. CASE Cancel(u)
      BY <1>0, <2>4 DEF Cancel, history, TypeOK
    <2>5. CASE Close(u)
      BY <1>0, <2>5 DEF Close, history, TypeOK
    <2>6. QED
      BY <1>7, <2>1, <2>2, <2>3, <2>4, <2>5 DEF End
  <1>8. ASSUME NEW u \in Txs, AwaitDone(u) \/ ContextEnds(u)
        PROVE  \A t \in Txs : BackgroundTx(t)'
    <2>1. ~AwaiterSwapsDone(u) /\ ~ContextEnds(u)
      BY <1>0 DEF AwaiterSwapsDone, SwapDoneForRollback, ContextEnds, IsDone,
         Outcome, TypeOK
    <2>2. QED
      BY <1>0, <1>8, <2>1 DEF AwaitDone, AwaiterWakes, AwaiterTxDone,
         AwaiterReturns, txVars, history, TypeOK
  <1>9. ASSUME NEW r \in Readers, TryGetAddOnInTransaction(r)
        PROVE  \A t \in Txs : BackgroundTx(t)'
    BY <1>1, <1>9 DEF TryGetAddOnInTransaction, ReaderFindsNone,
       ReaderFindsOpen, GetTransaction, AffectedAddOnDone, AffectedAddOnOpen,
       AffectedAddOn, txVars, history
  <1>10. ASSUME UNCHANGED vars PROVE \A t \in Txs : BackgroundTx(t)'
    BY <1>1, <1>10 DEF vars, txVars, history
  <1>11. QED
    BY <1>3, <1>4, <1>5, <1>6, <1>7, <1>8, <1>9, <1>10 DEF Next, Finished

\* With a context that does not end, the fifth layer holds as well.
LEMMA BackgroundInvariance == Spec => [](~ContextMayEnd => BackgroundInv)
  <1>1. Init => BackgroundInv
    BY DEF Init, BackgroundInv, BackgroundTx, OwnTransaction, Active
  <1>2. IndInv /\ (~ContextMayEnd => BackgroundInv) /\ [Next]_vars =>
           (~ContextMayEnd => BackgroundInv)'
    BY OwnTransactionStep, BackgroundTxStep DEF BackgroundInv
  <1>3. QED
    BY <1>1, <1>2, Invariance, PTL DEF Spec

\* With context.Background() the channel of Tx.Done is not closed before the
\* outcome is decided and, when it is a rollback, before every hook that was ever
\* subscribed has returned.
THEOREM DoneMeansWorkDoneHolds == Spec => []DoneMeansWorkDone
  <1>1. IndInv /\ (~ContextMayEnd => BackgroundInv) => DoneMeansWorkDone
    BY DEF IndInv, OutcomeInv, Outcome, TypeOK, BackgroundInv, BackgroundTx,
       DoneMeansWorkDone, IsDone
  <1>2. QED
    BY <1>1, Invariance, BackgroundInvariance, PTL

\* A reader that finds done still 0 and takes Tx.mu after the transaction was
\* closed reports nothing.
THEOREM NoReportFromClosedHolds == Spec => NoReportFromClosed
  <1> DEFINE Step == ~ContextMayEnd =>
                       \A r \in Readers :
                          report'[r] # report[r] /\ report'[r] # NoTx =>
                             ending[report'[r]] # "closed"
  <1>1. ASSUME IndInv, ~ContextMayEnd => BackgroundInv, [Next]_vars
        PROVE  [Step]_vars
    <2> SUFFICES ASSUME ~ContextMayEnd, NEW r \in Readers,
                        report'[r] # report[r], report'[r] # NoTx
                 PROVE  ending[report'[r]] # "closed"
      OBVIOUS
    <2>1. TypeOK /\ \A t \in Txs : BackgroundTx(t)
      BY <1>1 DEF IndInv, BackgroundInv
    <2>2. ASSUME NEW q \in Readers, AffectedAddOn(q)
          PROVE  ending[report'[r]] # "closed"
      <3>1. q = r /\ report'[r] = seen[r] /\ affected[seen[r]]
        BY <2>1, <2>2 DEF AffectedAddOn, TypeOK
      <3>2. seen[r] \in Txs
        BY <2>1, <3>1 DEF TypeOK
      <3>3. QED
        BY <2>1, <3>1, <3>2 DEF BackgroundTx
    <2>3. ASSUME NEW q \in Readers, TryGetAddOnInTransaction(q)
          PROVE  ending[report'[r]] # "closed"
      BY <2>1, <2>2, <2>3 DEF TryGetAddOnInTransaction, ReaderFindsNone,
         ReaderFindsOpen, GetTransaction, AffectedAddOnDone, AffectedAddOnOpen,
         TypeOK
    <2>4. ASSUME NEW c \in Callers,
                 CreateTransaction(c) \/ Routine(c) \/ Commit(c) \/ Rollback(c)
          PROVE  report' = report
      BY <2>4 DEF CreateTransaction, LockScheduler, RefuseTransaction,
         AcceptTransaction, BeginTx, Routine, SubscribeRollbackHook,
         SetAddOnContextCheck, SetAddOnContext, RoutineFails, Commit,
         CommitContextDone, CommitContextOpen, CommitTxDone, CommitSwapsDone,
         CommitReturns, Rollback, RollbackTxDone, RollbackSwapsDone,
         SwapDoneForRollback, RollbackReturns, readerVars
    <2>5. ASSUME NEW t \in Txs, End(t) \/ AwaitDone(t) \/ ContextEnds(t)
          PROVE  report' = report
      BY <2>5 DEF End, LockForHooks, RunHook, UnlockAfterHooks, Cancel, Close,
         AwaitDone, AwaiterWakes, AwaiterTxDone, AwaiterSwapsDone,
         SwapDoneForRollback, AwaiterReturns, ContextEnds, readerVars
    <2>6. ASSUME UNCHANGED vars PROVE report' = report
      BY <2>6 DEF vars, readerVars
    <2>7. QED
      BY <1>1, <2>3, <2>4, <2>5, <2>6 DEF Next, Finished
  <1>2. QED
    BY <1>1, Invariance, BackgroundInvariance, PTL DEF Spec, NoReportFromClosed

-------------------------------------------------------------------------------
(* Transaction implements UndoLog *)

\* The mapping, under names of its own.
absState == [t \in Txs |-> AbstractState(t)]
absLog == [t \in Txs |-> AbstractLog(t)]

\* The whole of a sequence is its prefix of full length.
LEMMA FullPrefix ==
    ASSUME NEW s \in Seq(Hooks)
    PROVE  SubSeq(s, 1, Len(s)) = s
  OBVIOUS

\* A prefix without its last element is the next shorter prefix.
LEMMA ShorterPrefix ==
    ASSUME NEW s \in Seq(Hooks), NEW n \in 1 .. Len(s)
    PROVE  /\ SubSeq(s, 1, n) # <<>>
           /\ Len(SubSeq(s, 1, n)) = n
           /\ SubSeq(SubSeq(s, 1, n), 1, n - 1) = SubSeq(s, 1, n - 1)
  <1>1. SubSeq(s, 1, n) \in Seq(Hooks) /\ Len(SubSeq(s, 1, n)) = n
    OBVIOUS
  <1>2. SubSeq(s, 1, n) # <<>>
    BY <1>1
  <1>3. SubSeq(SubSeq(s, 1, n), 1, n - 1) = SubSeq(s, 1, n - 1)
    BY <1>1
  <1>4. QED
    BY <1>1, <1>2, <1>3

\* What an empty transaction, or one that is past its hooks, maps to.
LEMMA AbstractOf ==
    ASSUME IndInv, NEW t \in Txs
    PROVE  /\ t > begun => AbstractState(t) = "unborn" /\ AbstractLog(t) = <<>>
           /\ t <= begun => (AbstractState(t) = "open" <=> done[t] = 0)
  <1>1. TypeOK /\ SchedulerInv /\ Outcome(t) /\ HooksRun(t)
    BY DEF IndInv, OutcomeInv, HooksInv
  <1>2. begun \in Nat /\ t \in Nat
    BY <1>1, TransactionAssumption DEF TypeOK, Txs
  <1>3. t > begun => AbstractState(t) = "unborn" /\ AbstractLog(t) = <<>>
    BY <1>1, <1>2 DEF AbstractState, AbstractLog, SchedulerInv, Outcome, HooksRun
  <1>4. t <= begun => (AbstractState(t) = "open" <=> done[t] = 0)
    BY <1>1, <1>2 DEF AbstractState, Outcome, TypeOK, Endings
  <1>5. QED
    BY <1>3, <1>4

\* Steps that touch neither the fate of a transaction nor the number of them.
LEMMA AbstractStutter ==
    ASSUME UNCHANGED fate, UNCHANGED begun
    PROVE  UNCHANGED <<absState, absLog>>
  BY DEF fate, absState, absLog, AbstractState, AbstractLog

\* BeginTx begins the transaction of the undo log.
LEMMA BeginStep ==
    ASSUME IndInv, NEW c \in Callers, BeginTx(c)
    PROVE  Abstract!AbstractNext
  <1>1. TypeOK /\ SchedulerInv /\ OutcomeInv
    BY DEF IndInv
  <1>2. PICK t \in Txs : t = begun + 1
    BY <1>1, TransactionAssumption DEF BeginTx, Goto, TypeOK, SchedulerInv, Txs
  <1>3. begun \in Nat /\ t \in Nat /\ Txs \subseteq Nat /\ begun' = t
    BY <1>1, <1>2, TransactionAssumption DEF TypeOK, Txs, BeginTx
  <1>4. AbstractState(t) = "unborn"
    BY <1>2, <1>3, AbstractOf
  <1>5. \A u \in Txs : AbstractState(u) # "open"
    <2>1. ASSUME NEW u \in Txs PROVE u > begun \/ done[u] # 0
      <3>1. begun = 0 \/ done[begun] = 1
        BY <1>1 DEF BeginTx, Goto, SchedulerInv
      <3>2. u < begun => done[u] = 1
        BY <1>1 DEF SchedulerInv
      <3>3. u >= 1 /\ u \in Nat
        BY TransactionAssumption DEF Txs
      <3>4. QED
        BY <1>3, <3>1, <3>2, <3>3
    <2>2. ASSUME NEW u \in Txs, u > begun PROVE AbstractState(u) = "unborn"
      BY <2>2, AbstractOf
    <2>3. ASSUME NEW u \in Txs, u <= begun PROVE AbstractState(u) # "open"
      BY <1>3, <2>1, <2>3, AbstractOf
    <2>4. QED
      BY <1>3, <2>2, <2>3
  <1>6. \A u \in Txs : u < t => AbstractState(u) # "unborn"
    BY <1>2, <1>3 DEF AbstractState
  <1>7. absState' = [absState EXCEPT ![t] = "open"]
    <2>1. UNCHANGED <<ending, winner>>
      BY DEF BeginTx, history
    <2>2. ASSUME NEW u \in Txs, u # t PROVE AbstractState(u)' = AbstractState(u)
      BY <1>2, <1>3, <2>1, <2>2 DEF AbstractState
    <2>3. AbstractState(t)' = "open"
      <3>1. ending[t] = "none"
        BY <1>1, <1>2, <1>3 DEF SchedulerInv, OutcomeInv, Outcome
      <3>2. QED
        BY <1>3, <2>1, <3>1 DEF AbstractState
    <2>4. QED
      BY <2>2, <2>3 DEF absState
  <1>8. UNCHANGED absLog
    BY DEF BeginTx, absLog, AbstractLog
  <1>9. QED
    BY <1>4, <1>5, <1>6, <1>7, <1>8
       DEF Abstract!AbstractNext, Abstract!Begin, absState, absLog, Abstract!Txs, Txs

\* One transaction moves, the others stay as they are.
LEMMA Moves ==
    ASSUME NEW t \in Txs,
           UNCHANGED begun,
           \A u \in Txs \ {t} : /\ ending'[u] = ending[u]
                                /\ winner'[u] = winner[u]
                                /\ rollbackHooks'[u] = rollbackHooks[u]
                                /\ index'[u] = index[u]
    PROVE  /\ absState' = [absState EXCEPT ![t] = AbstractState(t)']
           /\ absLog' = [absLog EXCEPT ![t] = AbstractLog(t)']
  <1>1. \A u \in Txs \ {t} : AbstractState(u)' = AbstractState(u)
    BY DEF AbstractState
  <1>2. \A u \in Txs \ {t} : AbstractLog(u)' = AbstractLog(u)
    BY DEF AbstractLog
  <1>3. QED
    BY <1>1, <1>2 DEF absState, absLog

\* SubscribeRollbackHook logs an entry of an open transaction.
LEMMA LogStep ==
    ASSUME ~ContextMayEnd, IndInv, BackgroundInv,
           NEW c \in Callers, NEW h \in Hooks, SubscribeRollbackHook(c, h)
    PROVE  Abstract!AbstractNext
  <1>1. TypeOK /\ SchedulerInv /\ OutcomeInv /\ OwnTransaction
    BY DEF IndInv, BackgroundInv
  <1>2. PICK t \in Txs : t = mine[c] /\ t <= begun
    BY <1>1, TransactionAssumption
       DEF SubscribeRollbackHook, SchedulerInv, Active, TypeOK, Txs
  <1>3. ending[t] = "none"
    BY <1>1, <1>2 DEF SubscribeRollbackHook, OwnTransaction, OutcomeInv, Outcome
  <1>4. /\ UNCHANGED <<begun, ending, winner, index>>
        /\ rollbackHooks' = [rollbackHooks EXCEPT ![t] = Append(@, h)]
    BY <1>2 DEF SubscribeRollbackHook
  <1>5. /\ absState' = [absState EXCEPT ![t] = AbstractState(t)']
        /\ absLog' = [absLog EXCEPT ![t] = AbstractLog(t)']
    BY <1>1, <1>4, Moves DEF TypeOK
  <1>6. begun \in Nat /\ t \in Nat
    BY <1>1, TransactionAssumption DEF TypeOK, Txs
  <1>7. AbstractState(t) = "open" /\ AbstractState(t)' = "open"
    BY <1>2, <1>3, <1>4, <1>6 DEF AbstractState
  <1>8. AbstractLog(t)' = Append(AbstractLog(t), h)
    BY <1>1, <1>3, <1>4 DEF AbstractLog, TypeOK
  <1>9. Abstract!Log(t, h)
    BY <1>5, <1>7, <1>8 DEF Abstract!Log, absState, absLog
  <1>10. QED
    BY <1>9 DEF Abstract!AbstractNext, Abstract!Txs, Txs

\* The swap of done by Commit commits, the one by rollback aborts.
LEMMA SwapStep ==
    ASSUME IndInv, NEW c \in Callers, CommitSwapsDone(c) \/ RollbackSwapsDone(c)
    PROVE  Abstract!AbstractNext
  <1>1. TypeOK /\ SchedulerInv /\ OutcomeInv
    BY DEF IndInv
  <1>2. PICK t \in Txs : t = mine[c] /\ t <= begun
    BY <1>1, TransactionAssumption
       DEF CommitSwapsDone, RollbackSwapsDone, Goto, SchedulerInv, Active,
           TypeOK, Txs
  <1>3. begun \in Nat /\ t \in Nat
    BY <1>1, TransactionAssumption DEF TypeOK, Txs
  <1>4. ending[t] = "none"
    BY <1>1, <1>2 DEF CommitSwapsDone, RollbackSwapsDone, SwapDoneForRollback,
       IsDone, OutcomeInv, Outcome, TypeOK
  <1>5. AbstractState(t) = "open" /\ AbstractLog(t) = rollbackHooks[t]
    BY <1>2, <1>3, <1>4 DEF AbstractState, AbstractLog
  <1>6. /\ absState' = [absState EXCEPT ![t] = AbstractState(t)']
        /\ absLog' = [absLog EXCEPT ![t] = AbstractLog(t)']
    BY <1>1, <1>2, Moves DEF CommitSwapsDone, RollbackSwapsDone,
       SwapDoneForRollback, TypeOK
  <1>7. CASE CommitSwapsDone(c)
    <2>1. ending'[t] = "cancel" /\ winner'[t] = "Commit" /\ begun' = begun
      BY <1>1, <1>2, <1>7 DEF CommitSwapsDone, TypeOK
    <2>2. AbstractState(t)' = "committed" /\ AbstractLog(t)' = <<>>
      BY <1>2, <1>3, <2>1 DEF AbstractState, AbstractLog
    <2>3. Abstract!AbstractCommit(t)
      BY <1>5, <1>6, <2>2 DEF Abstract!AbstractCommit, absState, absLog
    <2>4. QED
      BY <2>3 DEF Abstract!AbstractNext, Abstract!Txs, Txs
  <1>8. CASE RollbackSwapsDone(c)
    <2>1. /\ ending'[t] = "lock"
          /\ begun' = begun
          /\ rollbackHooks' = rollbackHooks
      BY <1>1, <1>2, <1>8 DEF RollbackSwapsDone, SwapDoneForRollback, TypeOK
    <2>2. AbstractState(t)' = "undoing" /\ AbstractLog(t)' = AbstractLog(t)
      BY <1>2, <1>3, <1>5, <2>1 DEF AbstractState, AbstractLog
    <2>3. Abstract!Abort(t)
      BY <1>5, <1>6, <2>2 DEF Abstract!Abort, absState, absLog
    <2>4. QED
      BY <2>3 DEF Abstract!AbstractNext, Abstract!Txs, Txs
  <1>9. QED
    BY <1>7, <1>8

\* A transaction whose ending has begun is one that was begun.
LEMMA EndingIsBegun ==
    ASSUME IndInv, NEW t \in Txs, ending[t] # "none"
    PROVE  t \in Nat /\ begun \in Nat /\ t <= begun
  BY TransactionAssumption
     DEF IndInv, TypeOK, SchedulerInv, OutcomeInv, Outcome, Txs

\* Of the steps that end a transaction, taking the lock, cancel and close change
\* nothing of the undo log, a hook takes an entry off it, and the end of the loop
\* ends the rollback.
LEMMA EndStep ==
    ASSUME IndInv, NEW t \in Txs, End(t)
    PROVE  Abstract!AbstractNext \/ UNCHANGED <<absState, absLog>>
  <1>1. TypeOK /\ Outcome(t) /\ HooksRun(t)
    BY DEF IndInv, OutcomeInv, HooksInv
  <1>2. t \in Nat /\ begun \in Nat /\ t <= begun
    BY EndingIsBegun DEF End, LockForHooks, RunHook, UnlockAfterHooks, Cancel,
       Close
  <1>3. /\ rollbackHooks[t] \in Seq(Hooks)
        /\ ran[t] \in Seq(Hooks)
        /\ index[t] \in Nat
    BY <1>1 DEF TypeOK
  <1>4. begun' = begun /\ winner' = winner
    BY DEF End, LockForHooks, RunHook, UnlockAfterHooks, Cancel, Close, history
  <1>5. /\ absState' = [absState EXCEPT ![t] = AbstractState(t)']
        /\ absLog' = [absLog EXCEPT ![t] = AbstractLog(t)']
    BY <1>1, <1>4, Moves DEF End, LockForHooks, RunHook, UnlockAfterHooks,
       Cancel, Close, TypeOK
  <1>6. ASSUME AbstractState(t)' = AbstractState(t),
               AbstractLog(t)' = AbstractLog(t)
        PROVE  UNCHANGED <<absState, absLog>>
    BY <1>5, <1>6 DEF absState, absLog
  <1>7. CASE LockForHooks(t)
    <2>1. /\ ending[t] = "lock"
          /\ ending'[t] = "hooks"
          /\ index'[t] = Len(rollbackHooks[t])
          /\ rollbackHooks' = rollbackHooks
      BY <1>1, <1>7 DEF LockForHooks, TypeOK
    <2>2. AbstractLog(t)' = AbstractLog(t)
      BY <1>3, <2>1, FullPrefix DEF AbstractLog
    <2>3. AbstractState(t)' = AbstractState(t)
      BY <1>2, <1>4, <2>1 DEF AbstractState
    <2>4. QED
      BY <1>6, <2>2, <2>3
  <1>8. CASE RunHook(t)
    <2>1. /\ ending[t] = "hooks"
          /\ ending' = ending
          /\ index[t] > 0
          /\ index'[t] = index[t] - 1
          /\ rollbackHooks' = rollbackHooks
      BY <1>1, <1>8 DEF RunHook, TypeOK
    <2>2. index[t] \in 1 .. Len(rollbackHooks[t])
      BY <1>1, <1>3, <2>1 DEF HooksRun
    <2>3. AbstractState(t) = "undoing" /\ AbstractState(t)' = "undoing"
      BY <1>2, <1>4, <2>1 DEF AbstractState
    <2>4. /\ AbstractLog(t) = SubSeq(rollbackHooks[t], 1, index[t])
          /\ AbstractLog(t)' = SubSeq(rollbackHooks[t], 1, index[t] - 1)
      BY <2>1 DEF AbstractLog
    <2>5. /\ AbstractLog(t) # <<>>
          /\ AbstractLog(t)' = SubSeq(AbstractLog(t), 1, Len(AbstractLog(t)) - 1)
      BY <1>3, <2>2, <2>4, ShorterPrefix
    <2>6. Abstract!Undo(t)
      BY <1>5, <2>3, <2>5 DEF Abstract!Undo, absState, absLog
    <2>7. QED
      BY <2>6 DEF Abstract!AbstractNext, Abstract!Txs, Txs
  <1>9. CASE UnlockAfterHooks(t)
    <2>1. /\ ending[t] = "hooks"
          /\ ending'[t] = "cancel"
          /\ index[t] = 0
          /\ winner[t] = "rollback"
      BY <1>1, <1>9 DEF UnlockAfterHooks, TypeOK, Outcome
    <2>2. AbstractState(t) = "undoing" /\ AbstractState(t)' = "rolledback"
      BY <1>2, <1>4, <2>1 DEF AbstractState
    <2>3. AbstractLog(t) = <<>> /\ AbstractLog(t)' = <<>>
      BY <1>3, <2>1 DEF AbstractLog
    <2>4. Abstract!Undone(t)
      BY <1>5, <2>2, <2>3 DEF Abstract!Undone, absState, absLog
    <2>5. QED
      BY <2>4 DEF Abstract!AbstractNext, Abstract!Txs, Txs
  <1>10. CASE Cancel(t) \/ Close(t)
    <2>1. /\ ending[t] \in {"cancel", "close"}
          /\ ending'[t] \in {"close", "closed"}
      BY <1>1, <1>10 DEF Cancel, Close, TypeOK
    <2>2. AbstractState(t)' = AbstractState(t)
      BY <1>2, <1>4, <2>1 DEF AbstractState
    <2>3. AbstractLog(t)' = AbstractLog(t)
      BY <2>1 DEF AbstractLog
    <2>4. QED
      BY <1>6, <2>2, <2>3
  <1>11. QED
    BY <1>7, <1>8, <1>9, <1>10 DEF End

\* Only BeginTx changes the number of transactions.
LEMMA BegunSteps ==
    ASSUME [Next]_vars
    PROVE  UNCHANGED begun \/ \E c \in Callers : BeginTx(c)
  <1>1. ASSUME NEW c \in Callers,
               CreateTransaction(c) \/ Routine(c) \/ Commit(c) \/ Rollback(c)
        PROVE  UNCHANGED begun \/ BeginTx(c)
    BY <1>1 DEF CreateTransaction, LockScheduler, RefuseTransaction,
       AcceptTransaction, Routine, SubscribeRollbackHook,
       SetAddOnContextCheck, SetAddOnContext, RoutineFails, Commit,
       CommitContextDone, CommitContextOpen, CommitTxDone, CommitSwapsDone,
       CommitReturns, Rollback, RollbackTxDone, RollbackSwapsDone,
       SwapDoneForRollback, RollbackReturns, txVars
  <1>2. ASSUME NEW t \in Txs, End(t) \/ AwaitDone(t) \/ ContextEnds(t)
        PROVE  UNCHANGED begun
    BY <1>2 DEF End, LockForHooks, RunHook, UnlockAfterHooks, Cancel, Close,
       AwaitDone, AwaiterWakes, AwaiterTxDone, AwaiterSwapsDone,
       SwapDoneForRollback, AwaiterReturns, ContextEnds, txVars
  <1>3. ASSUME NEW r \in Readers, TryGetAddOnInTransaction(r)
        PROVE  UNCHANGED begun
    BY <1>3 DEF TryGetAddOnInTransaction, ReaderFindsNone, ReaderFindsOpen,
       GetTransaction, AffectedAddOnDone, AffectedAddOnOpen, AffectedAddOn, txVars
  <1>4. QED
    BY <1>1, <1>2, <1>3 DEF Next, Finished, vars, txVars

\* Every step of the goroutines is a step of the undo log or changes nothing of it.
LEMMA RefinementStep ==
    ASSUME ~ContextMayEnd, IndInv, BackgroundInv, [Next]_vars
    PROVE  Abstract!AbstractNext \/ UNCHANGED <<absState, absLog>>
  <1>1. ASSUME NEW t \in Txs PROVE ~AwaiterSwapsDone(t)
    BY DEF AwaiterSwapsDone, SwapDoneForRollback, IsDone, BackgroundInv,
       BackgroundTx, IndInv, OutcomeInv, Outcome, TypeOK
  <1>2. CASE \E c \in Callers : BeginTx(c)
    BY <1>2, BeginStep
  <1>3. CASE UNCHANGED begun
    BY <1>1, <1>3, FateSteps, AbstractStutter, LogStep, SwapStep, EndStep
  <1>4. QED
    BY <1>2, <1>3, BegunSteps

\* The transactions of the program are the undo log of UndoLog: one at a time,
\* kept by Commit or undone from the youngest entry to the oldest.
THEOREM TransactionImplementsUndoLog ==
    ASSUME ~ContextMayEnd
    PROVE  Spec => ImplementsUndoLog
  <1>1. Init => Abstract!AbstractInit
    <2> SUFFICES ASSUME Init PROVE Abstract!AbstractInit
      OBVIOUS
    <2>1. ASSUME NEW t \in Txs
          PROVE  AbstractState(t) = "unborn" /\ AbstractLog(t) = <<>>
      BY InitIndInv, AbstractOf, TransactionAssumption DEF Init, Txs
    <2>2. QED
      BY <2>1 DEF Abstract!AbstractInit, Abstract!Txs, Txs
  <1>2. IndInv /\ BackgroundInv /\ [Next]_vars =>
           [Abstract!AbstractNext]_<<absState, absLog>>
    BY RefinementStep
  <1>3. IndInv /\ BackgroundInv /\ [Next]_vars =>
           [Abstract!AbstractNext]_(Abstract!abstractVars)
    BY <1>2 DEF Abstract!abstractVars, absState, absLog
  <1>4. QED
    BY <1>1, <1>3, Invariance, BackgroundInvariance, PTL
       DEF Spec, ImplementsUndoLog, Abstract!AbstractSpec

================================================================================
