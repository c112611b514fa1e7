--------------------------- MODULE CapturePipeline ---------------------------
(***************************************************************************)
(* The capture pipeline of fabric.wire (sdk/python/src/fabric/wire/        *)
(* _pipeline.py): application threads submit jobs, one worker thread       *)
(* protects and spools (or emits) them, and one thread closes the          *)
(* pipeline within a deadline.  Every job stands for one allocated         *)
(* position of the source's sequence; the pipeline owes it one outcome: a  *)
(* written record or a recorded loss.  One exception is in the code: a     *)
(* committed job whose span cannot be ended is only counted as an internal *)
(* error (the history `errored`).                                          *)
(*                                                                         *)
(* One action is one critical section (a use of _cond, of the queue's own  *)
(* lock, of the loss table's or the budget's lock) or one call that        *)
(* changes shared state.                                                   *)
(* The queue is kept as a set: the order of the jobs is visible to no      *)
(* property, and the stop sentinel is put after the last job because       *)
(* submit refuses once _closed is set.                                     *)
(***************************************************************************)
EXTENDS Integers, FiniteSets, Functions

CONSTANTS
  Jobs,        \* the jobs of this epoch, one per allocated position
  QueueMax,    \* queue_max_items
  BatchMax,    \* _BATCH_ITEMS (the worker takes one job at a time without a sender)
  BudgetLimit, \* max_inflight_bytes
  Charge,      \* inflight_charge of each job (a str body is charged len * 4)
  Actual       \* what a job's bodies weigh once encoded (_recharge)

ASSUME PipelineAssumption ==
  /\ QueueMax \in Nat \ {0}
  /\ BatchMax \in Nat \ {0}
  /\ BudgetLimit \in Nat
  /\ Charge \in [Jobs -> Nat]
  /\ Actual \in [Jobs -> Nat]
  /\ \A j \in Jobs : Actual[j] <= Charge[j]

VARIABLES
  spooling, \* TRUE: a spool sender is attached; FALSE: the provider path
  app,      \* app[j]: where the application thread of job j is
  queue,    \* _queue, without the sentinel
  sentinel, \* _STOP is in _queue
  closed,   \* _closed
  pending,  \* _pending
  current,  \* _current: jobs whose outcome close() may still claim
  used,     \* Budget.used
  charges,  \* _charges: what each job holds of the budget
  freeing,  \* bytes taken off a job's charge and not yet given back to the budget
  wpc,      \* the worker's place in _run
  batch,    \* the jobs of this turn
  todo,     \* jobs of this turn still to prepare
  ready,    \* committed jobs of this turn, not yet spooled
  result,   \* the outcome the worker owes each committed job
  stopping, \* the worker took the sentinel with this batch
  cpc,      \* the closer's place in close()
  drained,  \* what flush() returned to close()
  popped,   \* "lost" of close(): jobs it took from the queue
  claimed,  \* "current" of close(): jobs it took from _current
  cleft,    \* jobs of popped and claimed whose loss close() has yet to record
  clean,    \* what close() returned
  written,  \* history: how often a record of j became durable (or its span ended)
  lost,     \* history: how often a loss of j was recorded
  errored   \* history: committed jobs whose span could not be ended

budgetVars == <<used, charges, freeing>>
appVars == <<app, used, charges, freeing>>
workerVars == <<wpc, batch, todo, ready, result, stopping>>
closeVars == <<cpc, drained, popped, claimed, cleft, clean>>
history == <<written, lost, errored>>
vars == <<spooling, app, queue, sentinel, closed, pending, current, used, charges,
          freeing, wpc, batch, todo, ready, result, stopping, cpc, drained, popped, claimed,
          cleft, clean, written, lost, errored>>

Reasons == {"queue_full", "disk_full", "internal_error", "span_dropped"}

Init ==
  /\ spooling \in BOOLEAN
  /\ app = [j \in Jobs |-> "idle"]
  /\ queue = {} /\ sentinel = FALSE
  /\ closed = FALSE /\ pending = 0 /\ current = {}
  /\ used = 0 /\ charges = [j \in Jobs |-> 0] /\ freeing = [j \in Jobs |-> 0]
  /\ wpc = "get" /\ batch = {} /\ todo = {} /\ ready = {}
  /\ result = [j \in Jobs |-> "none"] /\ stopping = FALSE
  /\ cpc = "open" /\ drained = FALSE /\ popped = {} /\ claimed = {} /\ cleft = {}
  /\ clean = FALSE
  /\ written = [j \in Jobs |-> 0] /\ lost = [j \in Jobs |-> 0] /\ errored = {}

(* LossEmitter.record, reached through _lose: the single loss funnel.      *)
Lose(j) == lost' = [lost EXCEPT ![j] = @ + 1]

----------------------------------------------------------------------------
(* Application threads *)

(* charge_record, Budget.try_reserve: reserve the job's bytes; a job       *)
(* without any, or over the budget, is submitted without them.             *)
ChargeRecord(j) ==
  /\ app[j] = "idle"
  /\ IF Charge[j] > 0 /\ used + Charge[j] <= BudgetLimit
       THEN used' = used + Charge[j] /\ app' = [app EXCEPT ![j] = "reserved"]
       ELSE app' = [app EXCEPT ![j] = "charged"] /\ UNCHANGED used
  /\ UNCHANGED <<spooling, queue, sentinel, closed, pending, current, charges, freeing,
                 workerVars, closeVars, history>>

(* charge_record, under _cond: the reservation becomes the job's charge.   *)
KeepCharge(j) ==
  /\ app[j] = "reserved"
  /\ app' = [app EXCEPT ![j] = "charged"]
  /\ charges' = [charges EXCEPT ![j] = Charge[j]]
  /\ UNCHANGED <<spooling, queue, sentinel, closed, pending, current, used, freeing,
                 workerVars, closeVars, history>>

(* submit, under _cond: accepted, or refused and still to be dropped.      *)
Submit(j) ==
  /\ app[j] = "charged"
  /\ IF ~closed /\ Cardinality(queue) < QueueMax
       THEN /\ queue' = queue \cup {j}
            /\ pending' = pending + 1
            /\ app' = [app EXCEPT ![j] = "accepted"]
       ELSE /\ app' = [app EXCEPT ![j] = "refused"]
            /\ UNCHANGED <<queue, pending>>
  /\ UNCHANGED <<spooling, sentinel, closed, current, budgetVars, workerVars, closeVars,
                 history>>

(* _drop of a refused job: its loss (its budget follows, see Done).        *)
DropRefused(j) ==
  /\ app[j] = "refused"
  /\ app' = [app EXCEPT ![j] = "dropped"]
  /\ Lose(j)
  /\ UNCHANGED <<spooling, queue, sentinel, closed, pending, current, budgetVars, workerVars,
                 closeVars, written, errored>>

----------------------------------------------------------------------------
(* The budget of a finished job *)

(* The thread that finished j is in _done: the application thread after    *)
(* the loss of a refused job, the worker in its finally, or close() after  *)
(* the loss of a job it popped.                                            *)
Finishing(j) ==
  \/ app[j] = "dropped"
  \/ wpc = "done" /\ j \in batch
  \/ cpc = "report" /\ j \in popped \ cleft

\* Variant for mutation: the charge is given back but not popped.
DoneKeepsCharge(j) ==
  /\ Finishing(j) /\ charges[j] > 0 /\ freeing[j] = 0
  /\ freeing' = [freeing EXCEPT ![j] = charges[j]]
  /\ UNCHANGED <<spooling, app, queue, sentinel, closed, pending, current, used, charges,
                 workerVars, closeVars, history>>

(* _done, under _cond: pop what the job still holds.                       *)
Done(j) ==
  /\ Finishing(j) /\ charges[j] > 0
  /\ charges' = [charges EXCEPT ![j] = 0]
  /\ freeing' = [freeing EXCEPT ![j] = charges[j]]
  /\ UNCHANGED <<spooling, app, queue, sentinel, closed, pending, current, used, workerVars,
                 closeVars, history>>

(* Budget.release, after _cond is let go.                                  *)
Release(j) ==
  /\ freeing[j] > 0
  /\ used' = IF used >= freeing[j] THEN used - freeing[j] ELSE 0
  /\ freeing' = [freeing EXCEPT ![j] = 0]
  /\ UNCHANGED <<spooling, app, queue, sentinel, closed, pending, current, charges,
                 workerVars, closeVars, history>>

(* The thread working through the jobs of S is not inside _done or         *)
(* _recharge of one of them.                                               *)
AllReleased(S) == \A j \in S : freeing[j] = 0
AllDone(S) == \A j \in S : charges[j] = 0 /\ freeing[j] = 0

----------------------------------------------------------------------------
(* The worker: _run *)

(* _queue.get(): the first job of a batch, or the sentinel.                *)
WorkerGet ==
  /\ wpc = "get"
  /\ \/ \E j \in queue :
          /\ queue' = queue \ {j}
          /\ batch' = {j}
          /\ wpc' = IF spooling THEN "batch" ELSE "register"
          /\ UNCHANGED sentinel
     \/ /\ queue = {} /\ sentinel
        /\ sentinel' = FALSE
        /\ wpc' = "exit"
        /\ UNCHANGED <<queue, batch>>
  /\ UNCHANGED <<spooling, closed, pending, current, appVars, todo, ready, result, stopping,
                 closeVars, history>>

\* Variant for mutation: the sentinel taken with a batch is forgotten.
TakeSentinelSilently == sentinel /\ sentinel' = FALSE /\ UNCHANGED stopping

(* The sentinel taken behind the last job of a batch.                      *)
TakeSentinel == sentinel /\ sentinel' = FALSE /\ stopping' = TRUE

(* _batch: get_nowait while there is room (its byte bound may end it too). *)
WorkerBatch ==
  /\ wpc = "batch"
  /\ \/ /\ Cardinality(batch) < BatchMax
        /\ \E j \in queue : queue' = queue \ {j} /\ batch' = batch \cup {j}
        /\ UNCHANGED <<wpc, sentinel, stopping>>
     \/ /\ Cardinality(batch) < BatchMax /\ queue = {} /\ TakeSentinel
        /\ wpc' = "register"
        /\ UNCHANGED <<queue, batch>>
     \/ /\ wpc' = "register"
        /\ UNCHANGED <<queue, batch, sentinel, stopping>>
  /\ UNCHANGED <<spooling, closed, pending, current, appVars, todo, ready, result,
                 closeVars, history>>

(* _current.update under _cond: from here close() may claim the jobs.      *)
WorkerRegister ==
  /\ wpc = "register"
  /\ current' = current \cup batch
  /\ todo' = batch
  /\ wpc' = "prepare"
  /\ UNCHANGED <<spooling, queue, sentinel, closed, pending, appVars, batch, ready, result,
                 stopping, closeVars, history>>

(* No loss the worker owes is still unrecorded: it goes on to the next job. *)
NothingOwed == \A j \in Jobs : result[j] \notin Reasons

\* Variant for mutation: the excess goes back whether or not it was charged.
RechargeAlways(j) ==
  /\ wpc = "prepare" /\ j \in todo /\ NothingOwed /\ AllReleased(batch)
  /\ charges' = [charges EXCEPT ![j] = @ - (Charge[j] - Actual[j])]
  /\ freeing' = [freeing EXCEPT ![j] = Charge[j] - Actual[j]]
  /\ UNCHANGED <<spooling, app, queue, sentinel, closed, pending, current, used, workerVars,
                 closeVars, history>>

(* _recharge, under _cond, while a job's bodies are encoded: the excess is *)
(* taken off its charge.  A body that is omitted or of bytes never gets    *)
(* here: the worker may go on without this step.                           *)
Recharge(j) ==
  /\ wpc = "prepare" /\ j \in todo /\ NothingOwed /\ AllReleased(batch)
  /\ charges[j] > Actual[j]
  /\ charges' = [charges EXCEPT ![j] = Actual[j]]
  /\ freeing' = [freeing EXCEPT ![j] = charges[j] - Actual[j]]
  /\ UNCHANGED <<spooling, app, queue, sentinel, closed, pending, current, used, workerVars,
                 closeVars, history>>

\* Variant for mutation: the worker looks the job up without taking it.
CommitByLookup(j) == UNCHANGED current

(* _commit: TRUE for exactly one of the worker and close().                *)
Commit(j) == current' = current \ {j}

(* _prepare of one job of a spooled batch, then its commit.  A failed      *)
(* _prepare is an internal_error loss (_fail); a job close() claimed       *)
(* meanwhile is dropped without a word: its loss is close()'s.             *)
SpoolPrepare(j) ==
  /\ spooling /\ wpc = "prepare" /\ j \in todo /\ NothingOwed /\ AllReleased(batch)
  /\ todo' = todo \ {j}
  /\ IF j \in current
       THEN /\ Commit(j)
            /\ \/ ready' = ready \cup {j} /\ UNCHANGED result
               \/ result' = [result EXCEPT ![j] = "internal_error"] /\ UNCHANGED ready
       ELSE UNCHANGED <<current, ready, result>>
  /\ UNCHANGED <<spooling, appVars, queue, sentinel, closed, pending, wpc, batch, stopping,
                 closeVars, history>>

(* spool_exchanges over the committed jobs: each is written when its       *)
(* outcome is "spooled"; an exception makes every one an internal_error.   *)
SpoolBatch ==
  /\ spooling /\ wpc = "prepare" /\ todo = {} /\ NothingOwed
  /\ \E f \in [ready -> {"spooled", "queue_full", "disk_full", "internal_error"}] :
       /\ result' = [j \in Jobs |-> IF j \in ready THEN f[j] ELSE result[j]]
       /\ written' = [j \in Jobs |-> IF j \in ready /\ f[j] = "spooled"
                                       THEN written[j] + 1 ELSE written[j]]
  /\ ready' = {}
  /\ wpc' = "settle"
  /\ UNCHANGED <<spooling, app, queue, sentinel, closed, pending, current, budgetVars,
                 batch, todo, stopping, closeVars, lost, errored>>

(* _emit_one, the provider path: build the span and commit.  No provider,  *)
(* or a sampled-out span, is a span_dropped loss; an error before the      *)
(* commit is an internal_error loss; otherwise the span is to be ended.    *)
EmitOne(j) ==
  /\ ~spooling /\ wpc = "prepare" /\ j \in todo /\ AllReleased(batch)
  /\ todo' = todo \ {j}
  /\ wpc' = "settle"
  /\ IF j \in current
       THEN /\ Commit(j)
            /\ \E r \in {"end", "span_dropped", "internal_error"} :
                 result' = [result EXCEPT ![j] = r]
       ELSE UNCHANGED <<current, result>>
  /\ UNCHANGED <<spooling, appVars, queue, sentinel, closed, pending, batch, ready, stopping,
                 closeVars, history>>

(* span.end of a committed job.  An error here is counted and nothing      *)
(* more: the job is committed, so it never gets a second outcome.          *)
EndSpan(j) ==
  /\ wpc = "settle" /\ result[j] = "end"
  /\ \/ /\ written' = [written EXCEPT ![j] = @ + 1]
        /\ result' = [result EXCEPT ![j] = "spooled"]
        /\ UNCHANGED errored
     \/ /\ errored' = errored \cup {j}
        /\ result' = [result EXCEPT ![j] = "none"]
        /\ UNCHANGED written
  /\ UNCHANGED <<spooling, app, queue, sentinel, closed, pending, current, budgetVars,
                 wpc, batch, todo, ready, stopping, closeVars, lost>>

(* _lose of a committed job the worker did not write.                      *)
WorkerLose(j) ==
  /\ wpc \in {"prepare", "settle"} /\ result[j] \in Reasons
  /\ Lose(j)
  /\ result' = [result EXCEPT ![j] = "none"]
  /\ UNCHANGED <<spooling, app, queue, sentinel, closed, pending, current, budgetVars,
                 wpc, batch, todo, ready, stopping, closeVars, written, errored>>

(* _settle_written: the position's digest goes to its segment's seal.      *)
SettleWritten(j) ==
  /\ wpc = "settle" /\ result[j] = "spooled"
  /\ result' = [result EXCEPT ![j] = "none"]
  /\ UNCHANGED <<spooling, app, queue, sentinel, closed, pending, current, budgetVars,
                 wpc, batch, todo, ready, stopping, closeVars, history>>

WorkerProcessed ==
  /\ wpc = "settle"
  /\ \A j \in Jobs : result[j] = "none"
  /\ wpc' = "done"
  /\ UNCHANGED <<spooling, app, queue, sentinel, closed, pending, current, budgetVars,
                 batch, todo, ready, result, stopping, closeVars, history>>

(* The finally of _run: every job of the batch is through _done, then they *)
(* are counted done under _cond and, after the sentinel, the worker exits. *)
WorkerFinish ==
  /\ wpc = "done"
  /\ AllDone(batch)
  /\ pending' = pending - Cardinality(batch)
  /\ batch' = {}
  /\ wpc' = IF stopping THEN "exit" ELSE "get"
  /\ UNCHANGED <<spooling, queue, sentinel, closed, current, appVars, todo, ready, result,
                 stopping, closeVars, history>>

----------------------------------------------------------------------------
(* close() *)

CloseBegin ==
  /\ cpc = "open"
  /\ closed' = TRUE
  /\ cpc' = "flush"
  /\ UNCHANGED <<spooling, queue, sentinel, pending, current, appVars, workerVars, drained,
                 popped, claimed, cleft, clean, history>>

\* Variant for mutation: an empty queue is taken for a finished one.
QueueEmpty == queue = {}

(* What flush() waits for.                                                 *)
Drained == pending = 0

(* flush(): every accepted job was processed, or the deadline passed.      *)
CloseFlush ==
  /\ cpc = "flush"
  /\ drained' \in {FALSE, Drained}
  /\ cpc' = "pop"
  /\ UNCHANGED <<spooling, queue, sentinel, closed, pending, current, appVars, workerVars,
                 popped, claimed, cleft, clean, history>>

(* get_nowait until the queue is empty.                                    *)
ClosePop ==
  /\ cpc = "pop"
  /\ IF queue # {}
       THEN /\ \E j \in queue : queue' = queue \ {j} /\ popped' = popped \cup {j}
            /\ UNCHANGED cpc
       ELSE cpc' = "claim" /\ UNCHANGED <<queue, popped>>
  /\ UNCHANGED <<spooling, sentinel, closed, pending, current, appVars, workerVars, drained,
                 claimed, cleft, clean, history>>

\* Variant for mutation: only the queued jobs are reported.
OnlyPopped == popped

(* The jobs close() owes a shutdown loss.                                  *)
Unfinished == popped \cup current

\* Variant for mutation: the jobs in progress are subtracted here as well.
LessPoppedAndCurrent == pending - Cardinality(popped) - Cardinality(current)

(* The popped jobs are no longer pending; the worker subtracts its own.    *)
LessPopped == pending - Cardinality(popped)

(* Under _cond: the popped jobs are no longer pending, and every job in    *)
(* progress is close()'s to report.                                        *)
CloseClaim ==
  /\ cpc = "claim"
  /\ pending' = LessPopped
  /\ claimed' = current
  /\ current' = {}
  /\ cleft' = Unfinished
  /\ cpc' = "report"
  /\ UNCHANGED <<spooling, queue, sentinel, closed, appVars, workerVars, drained, popped,
                 clean, history>>

(* The popped jobs are dropped one by one (the budget too, see Done); a    *)
(* claimed one is only recorded: the worker releases its bytes when it     *)
(* returns.                                                                *)
CloseReport(j) ==
  /\ cpc = "report" /\ j \in cleft /\ AllDone(popped \ cleft)
  /\ j \in popped \/ cleft \cap popped = {}
  /\ cleft' = cleft \ {j}
  /\ Lose(j)
  /\ UNCHANGED <<spooling, appVars, queue, sentinel, closed, pending, current, workerVars, cpc,
                 drained, popped, claimed, clean, written, errored>>

(* put(_STOP), which waits for room, and the answer: drained, and nothing  *)
(* reported as lost.                                                       *)
CloseReturn ==
  /\ cpc = "report" /\ cleft = {} /\ AllDone(popped) /\ Cardinality(queue) < QueueMax
  /\ sentinel' = TRUE
  /\ clean' = (drained /\ popped = {} /\ claimed = {})
  /\ cpc' = "closed"
  /\ UNCHANGED <<spooling, queue, closed, pending, current, appVars, workerVars, drained,
                 popped, claimed, cleft, history>>

----------------------------------------------------------------------------
AppStep == \E j \in Jobs : ChargeRecord(j) \/ KeepCharge(j) \/ Submit(j) \/ DropRefused(j)

BudgetStep == \E j \in Jobs : Done(j) \/ Release(j)

WorkerStep ==
  \/ WorkerGet \/ WorkerBatch \/ WorkerRegister \/ SpoolBatch \/ WorkerProcessed
  \/ WorkerFinish
  \/ \E j \in Jobs : \/ Recharge(j) \/ SpoolPrepare(j) \/ EmitOne(j) \/ EndSpan(j)
                     \/ WorkerLose(j) \/ SettleWritten(j)

CloseStep ==
  \/ CloseBegin \/ CloseFlush \/ ClosePop \/ CloseClaim \/ CloseReturn
  \/ \E j \in Jobs : CloseReport(j)

Next == AppStep \/ WorkerStep \/ CloseStep \/ BudgetStep

Spec == Init /\ [][Next]_vars

(* The worker, the closer and a thread inside submit are running threads:  *)
(* each keeps taking steps while it can.  Nothing obliges an application   *)
(* to submit another job, or to close.                                     *)
FairSpec ==
  /\ Spec
  /\ WF_vars(WorkerStep)
  /\ WF_vars(CloseStep /\ cpc # "open")
  /\ \A j \in Jobs : /\ WF_vars(KeepCharge(j) \/ Submit(j) \/ DropRefused(j))
                    /\ WF_vars(Done(j) \/ Release(j))

----------------------------------------------------------------------------
TypeOK ==
  /\ spooling \in BOOLEAN
  /\ app \in [Jobs -> {"idle", "reserved", "charged", "accepted", "refused", "dropped"}]
  /\ queue \subseteq Jobs /\ current \subseteq Jobs
  /\ sentinel \in BOOLEAN /\ closed \in BOOLEAN /\ pending \in Int
  /\ used \in Nat /\ charges \in [Jobs -> Nat] /\ freeing \in [Jobs -> Nat]
  /\ wpc \in {"get", "batch", "register", "prepare", "settle", "done", "exit"}
  /\ batch \subseteq Jobs /\ todo \subseteq Jobs /\ ready \subseteq Jobs
  /\ result \in [Jobs -> Reasons \cup {"none", "end", "spooled"}]
  /\ stopping \in BOOLEAN
  /\ cpc \in {"open", "flush", "pop", "claim", "report", "closed"}
  /\ drained \in BOOLEAN /\ clean \in BOOLEAN
  /\ popped \subseteq Jobs /\ claimed \subseteq Jobs /\ cleft \subseteq Jobs
  /\ written \in [Jobs -> Nat] /\ lost \in [Jobs -> Nat] /\ errored \subseteq Jobs

(* How many outcomes the position of j has been given: a record, a loss,   *)
(* or, after the commit, an error that leaves neither and is only counted  *)
(* (internal_errors).                                                      *)
Outcomes(j) == written[j] + lost[j] + (IF j \in errored THEN 1 ELSE 0)

(* One position never gets two outcomes: the worker and close() race for   *)
(* the jobs in progress, _commit lets exactly one of them win, and a       *)
(* refused, popped or claimed job is reported once (_pipeline.py           *)
(* submit, close, _commit).                                                *)
OneOutcome == \A j \in Jobs : Outcomes(j) <= 1

(* No silent drop: once the worker has exited and close() has returned,    *)
(* every job an application handed over is written, recorded as lost, or   *)
(* counted as an error after its commit (_drop, close and the finally of   *)
(* _run between them leave nobody out).                                    *)
NoSilentDrop ==
  wpc = "exit" /\ cpc = "closed" =>
    \A j \in Jobs : app[j] \in {"accepted", "dropped"} => Outcomes(j) = 1

(* _pending counts the jobs queued, in the worker's hands, or taken from   *)
(* the queue by close() and not yet subtracted, whatever the interleaving  *)
(* of the three; in particular it never goes negative.                     *)
PendingExact ==
  pending = Cardinality(queue) + Cardinality(batch)
            + (IF cpc = "pop" \/ cpc = "claim" THEN Cardinality(popped) ELSE 0)

(* A close() that returns True left nothing behind: no job is queued or in *)
(* progress, and each accepted one already is written, lost or, after its  *)
(* commit, counted as an error, without close() having had to report it.   *)
CleanCloseIsClean ==
  clean => /\ queue = {} /\ batch = {} /\ current = {}
           /\ \A j \in Jobs : app[j] = "accepted" => Outcomes(j) = 1

(* Bytes the application thread of j has reserved and not yet stored.      *)
Reserved(j) == IF app[j] = "reserved" THEN Charge[j] ELSE 0

(* The in-flight budget: never over its limit, and exactly what is         *)
(* reserved, charged or on its way back, at every point between the        *)
(* budget's lock and _cond; a charge is held only by a job some thread     *)
(* still has to finish (charge_record, _recharge, _done).                  *)
BudgetExact ==
  /\ used <= BudgetLimit
  /\ used = FoldFunction(+, 0, [j \in Jobs |-> Reserved(j) + charges[j] + freeing[j]])
  /\ \A j \in Jobs : charges[j] > 0 =>
       \/ app[j] \in {"charged", "refused", "dropped"}
       \/ j \in queue \cup batch
       \/ j \in popped /\ cpc # "closed"

(* The docstring of close() (_pipeline.py 441-442): every job unfinished   *)
(* when the deadline passes, the one in progress too, is reported as a     *)
(* shutdown loss.  A job the worker has committed is its own to finish.    *)
CloseReportsUnfinished ==
  cpc = "closed" =>
    \A j \in Jobs : app[j] = "accepted" =>
      Outcomes(j) = 1 \/ j \in ready \/ result[j] # "none"

(* Every accepted job gets its outcome, whether or not anybody closes.     *)
(* (Accepted and given an outcome, a job stays so: this is one "leads to"  *)
(* for each job.)                                                          *)
AcceptedGetsOutcome == <>[](\A j \in Jobs : app[j] = "accepted" => Outcomes(j) = 1)

(* A close() ends, and after it the worker does: the sentinel is never     *)
(* lost to a batch and its put never blocks.                               *)
CloseStopsWorker == <>[](closed => cpc = "closed" /\ wpc = "exit")

=============================================================================
