----------------------- MODULE CapturePipelineProofs ------------------------
(***************************************************************************)
(* Theorems about the capture pipeline, for any set of jobs and any bounds: *)
(* its type invariant, OneOutcome, NoSilentDrop, PendingExact and          *)
(* CleanCloseIsClean.                                                      *)
(***************************************************************************)
EXTENDS CapturePipeline, FiniteSetTheorems, TLAPS

-----------------------------------------------------------------------------
(* The inductive invariant, action by action.                              *)

(* Somebody still owes the position of j an outcome: it is queued, being   *)
(* batched, claimable, committed and not yet written or lost, or on the    *)
(* list close() works through.                                             *)
Owed(j) ==
  \/ j \in queue
  \/ j \in batch /\ wpc \in {"batch", "register"}
  \/ j \in current
  \/ j \in ready
  \/ result[j] \in Reasons \cup {"end"}
  \/ j \in popped /\ cpc \in {"pop", "claim"}
  \/ j \in cleft

(* A job is in one place at a time.                                        *)
Placement ==
  /\ \A j \in queue \cup batch \cup popped \cup cleft : app[j] = "accepted"
  /\ queue \cap (batch \cup popped \cup cleft) = {}
  /\ batch \cap popped = {}
  /\ current \subseteq todo /\ todo \subseteq batch
  /\ ready \subseteq batch \ todo
  /\ \A j \in Jobs : result[j] # "none" => j \in batch \ (todo \cup ready)
  /\ cleft \cap (current \cup ready) = {}
  /\ \A j \in cleft : result[j] = "none"

(* What is empty at which place of the worker and of close().              *)
Control ==
  /\ wpc \in {"get", "exit"} => batch = {}
  /\ wpc # "prepare" => todo = {} /\ ready = {}
  /\ wpc \notin {"prepare", "settle"} => \A j \in Jobs : result[j] = "none"
  /\ wpc \in {"batch", "register"} => cleft \cap batch = {}
  /\ wpc = "batch" => spooling
  /\ ~spooling => \A i, j \in batch : i = j
  /\ cleft # {} => cpc = "report"
  /\ popped # {} => cpc \notin {"open", "flush"}
  /\ cpc # "open" => closed
  /\ cpc \in {"claim", "report", "closed"} => queue = {}

(* The outcome of a position is given exactly when nobody owes it any more. *)
Account(j) ==
  /\ app[j] \in {"idle", "reserved", "charged", "refused"} => Outcomes(j) = 0
  /\ app[j] = "dropped" => Outcomes(j) = 1
  /\ app[j] = "accepted" => Outcomes(j) = IF Owed(j) THEN 0 ELSE 1

Accounting == \A j \in Jobs : Account(j)

IInv == TypeOK /\ Placement /\ Control /\ Accounting

----------------------------------------------------------------------------
(* _recharge leaves the charge and what is given back natural numbers.     *)
LEMMA RechargeType ==
  ASSUME TypeOK, NEW j \in Jobs, Recharge(j)
  PROVE  charges' \in [Jobs -> Nat] /\ freeing' \in [Jobs -> Nat]
<1>1. Actual[j] \in Nat /\ charges[j] \in Nat /\ charges[j] > Actual[j]
  BY PipelineAssumption DEF TypeOK, Recharge
<1>2. charges[j] - Actual[j] \in Nat
  BY <1>1
<1>3. QED
  BY <1>1, <1>2 DEF TypeOK, Recharge

(* Budget.release never makes the count negative.                          *)
LEMMA ReleaseType ==
  ASSUME TypeOK, NEW j \in Jobs, Release(j)
  PROVE  used' \in Nat /\ freeing' \in [Jobs -> Nat]
<1>1. used \in Nat /\ freeing[j] \in Nat
  BY DEF TypeOK
<1>2. used' \in Nat
  BY <1>1 DEF Release
<1>3. QED
  BY <1>2 DEF TypeOK, Release

(* Every step of every thread keeps the state well typed.                  *)
LEMMA TypeStep == ASSUME TypeOK, [Next]_vars PROVE TypeOK'
<1> USE DEF TypeOK, appVars, workerVars, closeVars, budgetVars, history, Reasons
<1>1. ASSUME NEW j \in Jobs, ChargeRecord(j) PROVE TypeOK'
  <2>1. Charge[j] \in Nat /\ used + Charge[j] \in Nat
    BY PipelineAssumption
  <2>2. QED
    BY <1>1, <2>1 DEF ChargeRecord
<1>2. ASSUME NEW j \in Jobs, Submit(j) PROVE TypeOK'
  BY <1>2 DEF Submit
<1>3. ASSUME NEW j \in Jobs, DropRefused(j) PROVE TypeOK'
  BY <1>3 DEF DropRefused, Lose
<1>4. CASE WorkerGet
  BY <1>4, ZenonT(30) DEF WorkerGet
<1>5. CASE WorkerBatch
  BY <1>5, ZenonT(30) DEF WorkerBatch, TakeSentinel
<1>6. CASE WorkerRegister
  BY <1>6 DEF WorkerRegister
<1>7. ASSUME NEW j \in Jobs, SpoolPrepare(j) PROVE TypeOK'
  BY <1>7 DEF SpoolPrepare, Commit
<1>8. CASE SpoolBatch
  BY <1>8 DEF SpoolBatch
<1>9. ASSUME NEW j \in Jobs, EmitOne(j) PROVE TypeOK'
  BY <1>9 DEF EmitOne, Commit
<1>10. ASSUME NEW j \in Jobs, EndSpan(j) PROVE TypeOK'
  BY <1>10 DEF EndSpan
<1>11. ASSUME NEW j \in Jobs, WorkerLose(j) PROVE TypeOK'
  BY <1>11 DEF WorkerLose, Lose
<1>12. ASSUME NEW j \in Jobs, SettleWritten(j) PROVE TypeOK'
  BY <1>12 DEF SettleWritten
<1>13. CASE WorkerProcessed
  BY <1>13 DEF WorkerProcessed
<1>14. ASSUME NEW j \in Jobs, Done(j) PROVE TypeOK'
  BY <1>14 DEF Done
<1>15. CASE WorkerFinish
  BY <1>15 DEF WorkerFinish
<1>16. CASE CloseBegin
  BY <1>16 DEF CloseBegin
<1>17. CASE CloseFlush
  BY <1>17, ZenonT(30) DEF CloseFlush, Drained
<1>18. CASE ClosePop
  BY <1>18 DEF ClosePop
<1>19. CASE CloseClaim
  BY <1>19 DEF CloseClaim, Unfinished, LessPopped
<1>20. ASSUME NEW j \in Jobs, CloseReport(j) PROVE TypeOK'
  BY <1>20 DEF CloseReport, Lose
<1>21. CASE CloseReturn
  BY <1>21 DEF CloseReturn
<1>22. ASSUME NEW j \in Jobs, KeepCharge(j) PROVE TypeOK'
  <2>1. Charge[j] \in Nat
    BY PipelineAssumption
  <2>2. charges' \in [Jobs -> Nat]
    BY <1>22, <2>1 DEF KeepCharge
  <2>3. app' \in [Jobs -> {"idle", "reserved", "charged", "accepted", "refused", "dropped"}]
    BY <1>22 DEF KeepCharge
  <2>4. QED
    BY <1>22, <2>2, <2>3 DEF KeepCharge
<1>23. ASSUME NEW j \in Jobs, Recharge(j) PROVE TypeOK'
  BY <1>23, RechargeType DEF Recharge
<1>24. ASSUME NEW j \in Jobs, Release(j) PROVE TypeOK'
  BY <1>24, ReleaseType DEF Release
<1>25. CASE UNCHANGED vars
  BY <1>25 DEF vars
<1>26. QED
  BY <1>1, <1>2, <1>3, <1>4, <1>5, <1>6, <1>7, <1>8, <1>9, <1>10, <1>11, <1>12,
     <1>13, <1>14, <1>15, <1>16, <1>17, <1>18, <1>19, <1>20, <1>21, <1>22, <1>23,
     <1>24, <1>25, ZenonT(30)
  DEF Next, AppStep, WorkerStep, CloseStep, BudgetStep

(* No step puts a job in two places.                                       *)
LEMMA PlacementStep == ASSUME TypeOK, Placement, Control, [Next]_vars PROVE Placement'
<1> USE DEF TypeOK, Placement, Control, appVars, workerVars, closeVars, budgetVars, history, Reasons
<1>1. ASSUME NEW j \in Jobs, ChargeRecord(j) PROVE Placement'
  BY <1>1 DEF ChargeRecord
<1>2. ASSUME NEW j \in Jobs, Submit(j) PROVE Placement'
  BY <1>2 DEF Submit
<1>3. ASSUME NEW j \in Jobs, DropRefused(j) PROVE Placement'
  BY <1>3 DEF DropRefused, Lose
<1>4. CASE WorkerGet
  BY <1>4 DEF WorkerGet
<1>5. CASE WorkerBatch
  BY <1>5 DEF WorkerBatch, TakeSentinel
<1>6. CASE WorkerRegister
  BY <1>6, ZenonT(20) DEF WorkerRegister
<1>7. ASSUME NEW j \in Jobs, SpoolPrepare(j) PROVE Placement'
  BY <1>7 DEF SpoolPrepare, Commit
<1>8. CASE SpoolBatch
  BY <1>8 DEF SpoolBatch
<1>9. ASSUME NEW j \in Jobs, EmitOne(j) PROVE Placement'
  BY <1>9 DEF EmitOne, Commit
<1>10. ASSUME NEW j \in Jobs, EndSpan(j) PROVE Placement'
  BY <1>10 DEF EndSpan
<1>11. ASSUME NEW j \in Jobs, WorkerLose(j) PROVE Placement'
  BY <1>11 DEF WorkerLose, Lose
<1>12. ASSUME NEW j \in Jobs, SettleWritten(j) PROVE Placement'
  BY <1>12 DEF SettleWritten
<1>13. CASE WorkerProcessed
  BY <1>13 DEF WorkerProcessed
<1>14. ASSUME NEW j \in Jobs, Done(j) PROVE Placement'
  BY <1>14 DEF Done
<1>15. CASE WorkerFinish
  BY <1>15 DEF WorkerFinish
<1>16. CASE CloseBegin
  BY <1>16 DEF CloseBegin
<1>17. CASE CloseFlush
  BY <1>17 DEF CloseFlush, Drained
<1>18. CASE ClosePop
  BY <1>18 DEF ClosePop
<1>19. CASE CloseClaim
  BY <1>19 DEF CloseClaim, Unfinished, LessPopped
<1>20. ASSUME NEW j \in Jobs, CloseReport(j) PROVE Placement'
  BY <1>20 DEF CloseReport, Lose
<1>21. CASE CloseReturn
  BY <1>21 DEF CloseReturn
<1>22. ASSUME NEW j \in Jobs, KeepCharge(j) PROVE Placement'
  BY <1>22 DEF KeepCharge
<1>23. ASSUME NEW j \in Jobs, Recharge(j) PROVE Placement'
  BY <1>23 DEF Recharge
<1>24. ASSUME NEW j \in Jobs, Release(j) PROVE Placement'
  BY <1>24 DEF Release
<1>25. CASE UNCHANGED vars
  BY <1>25, Zenon DEF vars
<1>26. QED
  BY <1>1, <1>2, <1>3, <1>4, <1>5, <1>6, <1>7, <1>8, <1>9, <1>10, <1>11, <1>12,
     <1>13, <1>14, <1>15, <1>16, <1>17, <1>18, <1>19, <1>20, <1>21, <1>22, <1>23,
     <1>24, <1>25, ZenonT(30)
  DEF Next, AppStep, WorkerStep, CloseStep, BudgetStep

(* The worker's and the closer's local sets are empty where the code says. *)
LEMMA ControlStep == ASSUME TypeOK, Placement, Control, [Next]_vars PROVE Control'
<1> USE DEF TypeOK, Placement, Control, appVars, workerVars, closeVars, budgetVars, history, Reasons
<1>1. ASSUME NEW j \in Jobs, ChargeRecord(j) PROVE Control'
  BY <1>1 DEF ChargeRecord
<1>2. ASSUME NEW j \in Jobs, Submit(j) PROVE Control'
  BY <1>2 DEF Submit
<1>3. ASSUME NEW j \in Jobs, DropRefused(j) PROVE Control'
  BY <1>3 DEF DropRefused, Lose
<1>4. CASE WorkerGet
  BY <1>4 DEF WorkerGet
<1>5. CASE WorkerBatch
  BY <1>5 DEF WorkerBatch, TakeSentinel
<1>6. CASE WorkerRegister
  BY <1>6 DEF WorkerRegister
<1>7. ASSUME NEW j \in Jobs, SpoolPrepare(j) PROVE Control'
  BY <1>7 DEF SpoolPrepare, Commit
<1>8. CASE SpoolBatch
  BY <1>8 DEF SpoolBatch
<1>9. ASSUME NEW j \in Jobs, EmitOne(j) PROVE Control'
  BY <1>9 DEF EmitOne, Commit
<1>10. ASSUME NEW j \in Jobs, EndSpan(j) PROVE Control'
  BY <1>10 DEF EndSpan
<1>11. ASSUME NEW j \in Jobs, WorkerLose(j) PROVE Control'
  BY <1>11 DEF WorkerLose, Lose
<1>12. ASSUME NEW j \in Jobs, SettleWritten(j) PROVE Control'
  BY <1>12 DEF SettleWritten
<1>13. CASE WorkerProcessed
  BY <1>13 DEF WorkerProcessed
<1>14. ASSUME NEW j \in Jobs, Done(j) PROVE Control'
  BY <1>14 DEF Done
<1>15. CASE WorkerFinish
  BY <1>15 DEF WorkerFinish
<1>16. CASE CloseBegin
  BY <1>16 DEF CloseBegin
<1>17. CASE CloseFlush
  BY <1>17 DEF CloseFlush, Drained
<1>18. CASE ClosePop
  BY <1>18 DEF ClosePop
<1>19. CASE CloseClaim
  BY <1>19 DEF CloseClaim, Unfinished, LessPopped
<1>20. ASSUME NEW j \in Jobs, CloseReport(j) PROVE Control'
  BY <1>20 DEF CloseReport, Lose
<1>21. CASE CloseReturn
  BY <1>21 DEF CloseReturn
<1>22. ASSUME NEW j \in Jobs, KeepCharge(j) PROVE Control'
  BY <1>22 DEF KeepCharge
<1>23. ASSUME NEW j \in Jobs, Recharge(j) PROVE Control'
  BY <1>23 DEF Recharge
<1>24. ASSUME NEW j \in Jobs, Release(j) PROVE Control'
  BY <1>24 DEF Release
<1>25. CASE UNCHANGED vars
  BY <1>25, Zenon DEF vars
<1>26. QED
  BY <1>1, <1>2, <1>3, <1>4, <1>5, <1>6, <1>7, <1>8, <1>9, <1>10, <1>11, <1>12,
     <1>13, <1>14, <1>15, <1>16, <1>17, <1>18, <1>19, <1>20, <1>21, <1>22, <1>23,
     <1>24, <1>25, ZenonT(30)
  DEF Next, AppStep, WorkerStep, CloseStep, BudgetStep

(* An outcome is given by the step that stops owing it, and by no other.   *)
LEMMA AccountingStep == ASSUME IInv, [Next]_vars PROVE Accounting'
<1> USE DEF IInv, TypeOK, Placement, Control, Accounting, Account, Outcomes, Owed,
    appVars, workerVars, closeVars, budgetVars, history, Reasons
<1>1. ASSUME NEW j \in Jobs, ChargeRecord(j) PROVE Accounting'
  BY <1>1 DEF ChargeRecord
<1>2. ASSUME NEW j \in Jobs, Submit(j) PROVE Accounting'
  BY <1>2 DEF Submit
<1>3. ASSUME NEW j \in Jobs, DropRefused(j) PROVE Accounting'
  BY <1>3 DEF DropRefused, Lose
<1>4. CASE WorkerGet
  BY <1>4 DEF WorkerGet
<1>5. CASE WorkerBatch
  BY <1>5 DEF WorkerBatch, TakeSentinel
<1>6. CASE WorkerRegister
  BY <1>6 DEF WorkerRegister
<1>7. ASSUME NEW j \in Jobs, SpoolPrepare(j) PROVE Accounting'
  BY <1>7 DEF SpoolPrepare, Commit
<1>8. CASE SpoolBatch
  BY <1>8 DEF SpoolBatch
<1>9. ASSUME NEW j \in Jobs, EmitOne(j) PROVE Accounting'
  BY <1>9 DEF EmitOne, Commit
<1>10. ASSUME NEW j \in Jobs, EndSpan(j) PROVE Accounting'
  <2> SUFFICES ASSUME NEW k \in Jobs PROVE Account(k)'
    BY DEF Accounting
  <2>1. CASE k = j
    BY <1>10, <2>1 DEF EndSpan
  <2>2. CASE k # j
    BY <1>10, <2>2 DEF EndSpan
  <2>3. QED
    BY <2>1, <2>2, Zenon
<1>11. ASSUME NEW j \in Jobs, WorkerLose(j) PROVE Accounting'
  <2> SUFFICES ASSUME NEW k \in Jobs PROVE Account(k)'
    BY DEF Accounting
  <2>1. CASE k = j
    BY <1>11, <2>1 DEF WorkerLose, Lose
  <2>2. CASE k # j
    BY <1>11, <2>2 DEF WorkerLose, Lose
  <2>3. QED
    BY <2>1, <2>2, Zenon
<1>12. ASSUME NEW j \in Jobs, SettleWritten(j) PROVE Accounting'
  BY <1>12 DEF SettleWritten
<1>13. CASE WorkerProcessed
  BY <1>13, ZenonT(20) DEF WorkerProcessed
<1>14. ASSUME NEW j \in Jobs, Done(j) PROVE Accounting'
  BY <1>14 DEF Done
<1>15. CASE WorkerFinish
  BY <1>15 DEF WorkerFinish
<1>16. CASE CloseBegin
  BY <1>16 DEF CloseBegin
<1>17. CASE CloseFlush
  BY <1>17, Zenon DEF CloseFlush, Drained
<1>18. CASE ClosePop
  BY <1>18 DEF ClosePop
<1>19. CASE CloseClaim
  BY <1>19, Zenon DEF CloseClaim, Unfinished, LessPopped
<1>20. ASSUME NEW j \in Jobs, CloseReport(j) PROVE Accounting'
  <2> SUFFICES ASSUME NEW k \in Jobs PROVE Account(k)'
    BY DEF Accounting
  <2>1. CASE k = j
    BY <1>20, <2>1 DEF CloseReport, Lose
  <2>2. CASE k # j
    BY <1>20, <2>2, ZenonT(20) DEF CloseReport, Lose
  <2>3. QED
    BY <2>1, <2>2, Zenon
<1>21. CASE CloseReturn
  BY <1>21, ZenonT(20) DEF CloseReturn
<1>22. ASSUME NEW j \in Jobs, KeepCharge(j) PROVE Accounting'
  BY <1>22 DEF KeepCharge
<1>23. ASSUME NEW j \in Jobs, Recharge(j) PROVE Accounting'
  BY <1>23 DEF Recharge
<1>24. ASSUME NEW j \in Jobs, Release(j) PROVE Accounting'
  BY <1>24 DEF Release
<1>25. CASE UNCHANGED vars
  BY <1>25 DEF vars
<1>26. QED
  BY <1>1, <1>2, <1>3, <1>4, <1>5, <1>6, <1>7, <1>8, <1>9, <1>10, <1>11, <1>12,
     <1>13, <1>14, <1>15, <1>16, <1>17, <1>18, <1>19, <1>20, <1>21, <1>22, <1>23,
     <1>24, <1>25, ZenonT(30)
  DEF Next, AppStep, WorkerStep, CloseStep, BudgetStep

(* The invariant holds when the pipeline is created (_init_state).         *)
LEMMA InitIInv == Init => IInv
<1> SUFFICES ASSUME Init PROVE IInv
  OBVIOUS
<1> USE DEF Init
<1>1. TypeOK
  <2>1. app \in [Jobs -> {"idle", "reserved", "charged", "accepted", "refused", "dropped"}]
    OBVIOUS
  <2>2. result \in [Jobs -> Reasons \cup {"none", "end", "spooled"}]
    OBVIOUS
  <2>3. charges \in [Jobs -> Nat] /\ freeing \in [Jobs -> Nat]
        /\ written \in [Jobs -> Nat] /\ lost \in [Jobs -> Nat]
    OBVIOUS
  <2>4. spooling \in BOOLEAN /\ sentinel \in BOOLEAN /\ closed \in BOOLEAN /\ stopping \in BOOLEAN
    BY Zenon
  <2>5. drained \in BOOLEAN /\ clean \in BOOLEAN
    BY Zenon
  <2>6. QED
    BY <2>1, <2>2, <2>3, <2>4, <2>5 DEF TypeOK
<1>2. Placement
  BY DEF Placement
<1>3. Control
  BY DEF Control
<1>4. Accounting
  BY DEF Accounting, Account, Outcomes
<1>5. QED
  BY <1>1, <1>2, <1>3, <1>4 DEF IInv

(* The inductive invariant: every job is in one place, and its outcome is  *)
(* given exactly when that place no longer owes it one.                    *)
THEOREM PipelineInvariant == Spec => []IInv
<1>1. IInv /\ [Next]_vars => IInv'
  BY TypeStep, PlacementStep, ControlStep, AccountingStep DEF IInv
<1>2. QED
  BY InitIInv, <1>1, PTL DEF Spec

(* Type correctness of the pipeline's state.                               *)
THEOREM PipelineTypes == Spec => []TypeOK
  BY PipelineInvariant, PTL DEF IInv

(* _commit, submit and close together give no position two outcomes.       *)
THEOREM PipelineOneOutcome == Spec => []OneOutcome
<1>1. IInv => OneOutcome
  BY DEF IInv, TypeOK, Accounting, Account, OneOutcome
<1>2. QED
  BY PipelineInvariant, <1>1, PTL

(* When the worker has exited and close() has returned, every job handed   *)
(* over has exactly one outcome.                                           *)
THEOREM PipelineNoSilentDrop == Spec => []NoSilentDrop
<1>1. IInv => NoSilentDrop
  BY DEF IInv, NoSilentDrop, TypeOK, Placement, Control, Accounting, Account, Owed, Reasons
<1>2. QED
  BY PipelineInvariant, <1>1, PTL

----------------------------------------------------------------------------
(* The pending count, and what a clean close() left.                       *)

(* What _pending counts is finite, and a flush that saw it at zero leaves  *)
(* nothing behind: submit refuses once close() has begun.                  *)
Flushed ==
  /\ IsFiniteSet(queue) /\ IsFiniteSet(batch) /\ IsFiniteSet(popped)
  /\ drained => cpc \notin {"open", "flush"} /\ queue = {} /\ batch = {}
  /\ clean => drained /\ cpc = "closed"

PendingInv == PendingExact /\ Flushed

(* Moving an element between two finite sets.                              *)
LEMMA Moved ==
  ASSUME NEW U, NEW T, NEW x, IsFiniteSet(U), IsFiniteSet(T), x \in U, x \notin T
  PROVE  /\ IsFiniteSet(U \ {x}) /\ IsFiniteSet(T \cup {x})
         /\ Cardinality(U \ {x}) + Cardinality(T \cup {x}) = Cardinality(U) + Cardinality(T)
<1>1. Cardinality(U) \in Nat /\ Cardinality(T) \in Nat
  BY FS_CardinalityType
<1>2. IsFiniteSet(U \ {x}) /\ Cardinality(U \ {x}) = Cardinality(U) - 1
  BY FS_RemoveElement
<1>3. IsFiniteSet(T \cup {x}) /\ Cardinality(T \cup {x}) = Cardinality(T) + 1
  BY FS_AddElement
<1>4. QED
  BY <1>1, <1>2, <1>3

(* Every step counts the jobs it moves.                                    *)
LEMMA PendingStep == ASSUME IInv, PendingInv, [Next]_vars PROVE PendingInv'
<1> DEFINE taken == IF cpc = "pop" \/ cpc = "claim" THEN Cardinality(popped) ELSE 0
<1>1. /\ Cardinality(queue) \in Nat /\ Cardinality(batch) \in Nat /\ Cardinality(popped) \in Nat
      /\ pending = Cardinality(queue) + Cardinality(batch) + taken
  BY FS_CardinalityType DEF PendingInv, PendingExact, Flushed
<1>2. Cardinality({}) = 0 /\ IsFiniteSet({})
  BY FS_EmptySet
<1>3. ASSUME UNCHANGED <<queue, batch, popped, pending, cpc, drained, clean>> PROVE PendingInv'
  BY <1>3 DEF PendingInv, PendingExact, Flushed
<1>4. ASSUME NEW j \in Jobs, Submit(j) PROVE PendingInv'
  <2>1. CASE ~closed /\ Cardinality(queue) < QueueMax
    <3>1. /\ queue' = queue \cup {j} /\ pending' = pending + 1 /\ app[j] = "charged"
          /\ UNCHANGED <<batch, popped, cpc, drained, clean>>
      BY <1>4, <2>1 DEF Submit, workerVars, closeVars
    <3>2. j \notin queue
      BY <3>1 DEF IInv, Placement
    <3>3. IsFiniteSet(queue') /\ Cardinality(queue') = Cardinality(queue) + 1
      BY <3>1, <3>2, FS_AddElement DEF PendingInv, Flushed
    <3>4. ~drained /\ cpc \in {"open"}
      BY <2>1, Zenon DEF IInv, Control, TypeOK, PendingInv, Flushed
    <3>5. PendingExact'
      BY <1>1, <3>1, <3>3 DEF PendingExact
    <3>6. QED
      BY <3>1, <3>3, <3>4, <3>5 DEF PendingInv, Flushed
  <2>2. CASE ~(~closed /\ Cardinality(queue) < QueueMax)
    BY <1>3, <1>4, <2>2 DEF Submit, workerVars, closeVars
  <2>3. QED
    BY <2>1, <2>2
<1>5. CASE WorkerGet
  <2>1. UNCHANGED <<popped, cpc, pending, drained, clean>> /\ batch = {}
    BY <1>5 DEF WorkerGet, closeVars, IInv, Control
  <2>2. ASSUME NEW j \in queue, queue' = queue \ {j}, batch' = {j} PROVE PendingInv'
    <3>1. batch' = batch \cup {j} /\ j \notin batch
      BY <2>1, <2>2
    <3>2. /\ IsFiniteSet(queue') /\ IsFiniteSet(batch')
          /\ Cardinality(queue') + Cardinality(batch') = Cardinality(queue) + Cardinality(batch)
      BY <2>2, <3>1, Moved DEF PendingInv, Flushed
    <3>3. ~drained
      BY <2>2 DEF PendingInv, Flushed
    <3>4. Cardinality(queue') \in Nat /\ Cardinality(batch') \in Nat
      BY <3>2, FS_CardinalityType
    <3>5. PendingExact'
      BY <1>1, <2>1, <3>2, <3>4 DEF PendingExact
    <3>6. QED
      BY <2>1, <3>2, <3>3, <3>5 DEF PendingInv, Flushed
  <2>3. CASE UNCHANGED <<queue, batch>>
    BY <1>3, <2>1, <2>3
  <2>4. QED
    BY <1>5, <2>2, <2>3 DEF WorkerGet
<1>6. CASE WorkerBatch
  <2>1. UNCHANGED <<popped, cpc, pending, drained, clean>>
    BY <1>6 DEF WorkerBatch, closeVars
  <2>2. ASSUME NEW j \in queue, queue' = queue \ {j}, batch' = batch \cup {j} PROVE PendingInv'
    <3>1. j \notin batch
      BY DEF IInv, Placement
    <3>2. /\ IsFiniteSet(queue') /\ IsFiniteSet(batch')
          /\ Cardinality(queue') + Cardinality(batch') = Cardinality(queue) + Cardinality(batch)
      BY <2>2, <3>1, Moved DEF PendingInv, Flushed
    <3>3. ~drained
      BY <2>2 DEF PendingInv, Flushed
    <3>4. Cardinality(queue') \in Nat /\ Cardinality(batch') \in Nat
      BY <3>2, FS_CardinalityType
    <3>5. PendingExact'
      BY <1>1, <2>1, <3>2, <3>4 DEF PendingExact
    <3>6. QED
      BY <2>1, <3>2, <3>3, <3>5 DEF PendingInv, Flushed
  <2>3. CASE UNCHANGED <<queue, batch>>
    BY <1>3, <2>1, <2>3
  <2>4. QED
    BY <1>6, <2>2, <2>3 DEF WorkerBatch
<1>7. CASE WorkerFinish
  <2>1. /\ pending' = pending - Cardinality(batch) /\ batch' = {}
        /\ UNCHANGED <<queue, popped, cpc, drained, clean>>
    BY <1>7 DEF WorkerFinish, closeVars
  <2>2. PendingExact'
    BY <1>1, <1>2, <2>1 DEF PendingExact
  <2>3. QED
    BY <1>2, <2>1, <2>2 DEF PendingInv, Flushed
<1>8. CASE CloseBegin
  <2>1. /\ cpc = "open" /\ cpc' = "flush"
        /\ UNCHANGED <<queue, batch, popped, pending, drained, clean>>
    BY <1>8 DEF CloseBegin, workerVars
  <2>2. QED
    BY <2>1 DEF PendingInv, PendingExact, Flushed
<1>9. CASE CloseFlush
  <2>1. /\ cpc = "flush" /\ cpc' = "pop" /\ drained' \in {FALSE, pending = 0}
        /\ UNCHANGED <<queue, batch, popped, pending, clean>> /\ popped = {} /\ ~clean
    BY <1>9, Zenon DEF CloseFlush, Drained, workerVars, IInv, Control, PendingInv, Flushed
  <2>2. drained' => queue = {} /\ batch = {}
    <3>1. SUFFICES ASSUME pending = 0 PROVE queue = {} /\ batch = {}
      BY <2>1, Zenon
    <3>2. Cardinality(queue) = 0 /\ Cardinality(batch) = 0
      BY <1>1, <2>1, <3>1
    <3>3. QED
      BY <3>2, FS_EmptySet DEF PendingInv, Flushed
  <2>3. PendingExact'
    BY <1>1, <1>2, <2>1 DEF PendingExact
  <2>4. QED
    BY <2>1, <2>2, <2>3 DEF PendingInv, Flushed
<1>10. CASE ClosePop
  <2>1. cpc = "pop" /\ UNCHANGED <<batch, pending, drained, clean>>
    BY <1>10 DEF ClosePop, workerVars
  <2>2. ASSUME NEW j \in queue, queue' = queue \ {j}, popped' = popped \cup {j}, cpc' = cpc
        PROVE  PendingInv'
    <3>1. j \notin popped
      BY DEF IInv, Placement
    <3>2. /\ IsFiniteSet(queue') /\ IsFiniteSet(popped')
          /\ Cardinality(queue') + Cardinality(popped') = Cardinality(queue) + Cardinality(popped)
      BY <2>2, <3>1, Moved DEF PendingInv, Flushed
    <3>3. ~drained
      BY <2>2 DEF PendingInv, Flushed
    <3>4. Cardinality(queue') \in Nat /\ Cardinality(popped') \in Nat
      BY <3>2, FS_CardinalityType
    <3>5. PendingExact'
      BY <1>1, <2>1, <2>2, <3>2, <3>4 DEF PendingExact
    <3>6. QED
      BY <2>1, <2>2, <3>2, <3>3, <3>5 DEF PendingInv, Flushed
  <2>3. CASE cpc' = "claim" /\ UNCHANGED <<queue, popped>>
    BY <2>1, <2>3 DEF PendingInv, PendingExact, Flushed
  <2>4. QED
    BY <1>10, <2>2, <2>3 DEF ClosePop
<1>11. CASE CloseClaim
  <2>1. /\ cpc = "claim" /\ cpc' = "report" /\ pending' = pending - Cardinality(popped)
        /\ UNCHANGED <<queue, batch, popped, drained, clean>>
    BY <1>11 DEF CloseClaim, LessPopped, workerVars
  <2>2. PendingExact'
    BY <1>1, <2>1 DEF PendingExact
  <2>3. QED
    BY <2>1, <2>2 DEF PendingInv, Flushed
<1>12. CASE CloseReturn
  <2>1. /\ cpc = "report" /\ cpc' = "closed" /\ (clean' => drained)
        /\ UNCHANGED <<queue, batch, popped, pending, drained>>
    BY <1>12, Zenon DEF CloseReturn, workerVars
  <2>2. QED
    BY <2>1 DEF PendingInv, PendingExact, Flushed
<1>13. ASSUME NEW j \in Jobs,
              \/ ChargeRecord(j) \/ DropRefused(j) \/ SpoolPrepare(j) \/ EmitOne(j) \/ EndSpan(j)
              \/ WorkerLose(j) \/ SettleWritten(j) \/ CloseReport(j)
              \/ KeepCharge(j) \/ Recharge(j) \/ Done(j) \/ Release(j)
       PROVE  PendingInv'
  BY <1>3, <1>13, ZenonT(30) DEF ChargeRecord, DropRefused, SpoolPrepare, EmitOne, EndSpan, WorkerLose,
                     SettleWritten, CloseReport, KeepCharge, Recharge, Done, Release, workerVars, closeVars
<1>14. CASE WorkerRegister \/ SpoolBatch \/ WorkerProcessed \/ UNCHANGED vars
  BY <1>3, <1>14 DEF WorkerRegister, SpoolBatch, WorkerProcessed, closeVars, vars
<1>15. QED
  BY <1>4, <1>5, <1>6, <1>7, <1>8, <1>9, <1>10, <1>11, <1>12, <1>13, <1>14
  DEF Next, AppStep, WorkerStep, CloseStep, BudgetStep

(* The count and the flush, from the beginning.                            *)
THEOREM PipelinePendingInv == Spec => []PendingInv
<1>1. Init => PendingInv
  BY FS_EmptySet DEF Init, PendingInv, PendingExact, Flushed
<1>2. IInv /\ PendingInv /\ [Next]_vars => PendingInv'
  BY PendingStep
<1>3. QED
  BY PipelineInvariant, <1>1, <1>2, PTL DEF Spec

(* _pending is exact whatever the interleaving of submit, the worker and   *)
(* close().                                                                *)
THEOREM PipelinePending == Spec => []PendingExact
  BY PipelinePendingInv, PTL DEF PendingInv

(* A close() that returned True left nothing behind.                       *)
THEOREM PipelineCleanClose == Spec => []CleanCloseIsClean
<1>1. IInv /\ PendingInv => CleanCloseIsClean
  <2> SUFFICES ASSUME IInv, PendingInv, clean PROVE CleanCloseIsClean
    BY DEF CleanCloseIsClean
  <2>1. queue = {} /\ batch = {} /\ cpc = "closed"
    BY DEF PendingInv, Flushed
  <2>2. current = {} /\ ready = {} /\ cleft = {} /\ \A j \in Jobs : result[j] = "none"
    BY <2>1 DEF IInv, Placement, Control
  <2>3. \A j \in Jobs : ~Owed(j)
    BY <2>1, <2>2 DEF Owed, Reasons
  <2>4. QED
    BY <2>1, <2>2, <2>3 DEF CleanCloseIsClean, IInv, Accounting, Account
<1>2. QED
  BY PipelineInvariant, PipelinePendingInv, <1>1, PTL
=============================================================================
