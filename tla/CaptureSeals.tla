---------------------------- MODULE CaptureSeals ----------------------------
(***************************************************************************)
(* The close of a capture handle (WireHandle._close, sdk/python/src/fabric *)
(* /wire/__init__.py): the capture pipeline and the seal accumulator       *)
(* running together.  A record's position is allocated in a segment,       *)
(* charged and submitted; the pipeline settles it in the accumulator when  *)
(* it is written or lost; close() drains the pipeline, seals every open    *)
(* segment, waits for the seals, queues the final marker and detaches.     *)
(***************************************************************************)
EXTENDS CapturePipeline, Sequences

CONSTANTS Segments, NoSegment, Unsettled, ForcedAt, MaxPending, MaxPositions, MaxReclaim,
          MaxReclaimSegs, Drainers, Unbounded, StartFails

(* The accumulator's state; sealReady is its _ready.                       *)
VARIABLES segOf, entries, open, outstanding, requested, forced, forcing, sealReady,
          readyPositions, droppedSince, worker, builder, reclaim, reclaimer, drain,
          handed, dropped, emitted, unqueued, before, reported, startFailed

VARIABLES
  hpc,          \* where _close is: "open", "tee", "drain", "final", "seal", "closed"
  flushOk,      \* what the accumulator answered to the pipeline's flush
  answer,       \* what close() returned
  settleErrors, \* history: positions whose settle was swallowed with an exception
  inTime        \* history: positions settled when the final drain was called

S == INSTANCE SegmentSeals WITH ready <- sealReady, Positions <- Jobs,
                                SealEntries <- {"record", "loss"}

sealVars == <<segOf, entries, open, outstanding, requested, forced, forcing, sealReady,
              readyPositions, droppedSince, worker, builder, reclaim, reclaimer, drain,
              handed, dropped, emitted, unqueued, before, reported, startFailed>>
handleVars == <<hpc, flushOk, answer, settleErrors, inTime>>
allVars == <<vars, sealVars, handleVars>>

Closer == "close"

CInit ==
  /\ Init /\ S!SealInit
  /\ hpc = "open" /\ flushOk = FALSE /\ answer = "none" /\ settleErrors = {} /\ inTime = {}

(* The hook settles until _p1_detach clears it; a settle of a position     *)
(* that has an outcome, or whose segment is gone, changes nothing.         *)
SettleAs(j, o) ==
  IF hpc # "closed" /\ S!Fresh(j) THEN S!Settle(j, o) ELSE UNCHANGED sealVars

----------------------------------------------------------------------------
(* RecordsInput.submit: a position is allocated in its run's segment (none *)
(* once the run table is closed), then the job is charged and submitted.   *)
Allocate(j, s) ==
  /\ hpc \in {"open", "tee", "drain"}
  /\ S!NoteAllocated(s, j)
  /\ UNCHANGED <<vars, handleVars>>

RecordStep(j) ==
  /\ segOf[j] # NoSegment
  /\ ChargeRecord(j) \/ KeepCharge(j) \/ Submit(j)
  /\ UNCHANGED <<sealVars, handleVars>>

\* Variant for mutation: a lost position is settled like a written one.
LossSettledAsRecord(j) == SettleAs(j, "record")

(* LossEmitter.record settles the position it counts.                      *)
LossSettles(j) == SettleAs(j, "loss")

Lost(j) ==
  /\ DropRefused(j) \/ WorkerLose(j) \/ CloseReport(j)
  /\ LossSettles(j)
  /\ UNCHANGED handleVars

(* _settle_written; an exception on its way is swallowed.                  *)
Written(j) ==
  /\ SettleWritten(j)
  /\ \/ SettleAs(j, "record") /\ UNCHANGED handleVars
     \/ /\ settleErrors' = settleErrors \cup {j}
        /\ UNCHANGED <<sealVars, hpc, flushOk, answer, inTime>>

(* The worker's other steps, and the budget of finished jobs.              *)
PipelineStep ==
  /\ \/ WorkerGet \/ WorkerBatch \/ WorkerRegister \/ SpoolBatch \/ WorkerProcessed
     \/ WorkerFinish \/ BudgetStep
     \/ \E j \in Jobs : Recharge(j) \/ SpoolPrepare(j) \/ EmitOne(j) \/ EndSpan(j)
  /\ UNCHANGED <<sealVars, handleVars>>

(* A block exits: its open segment is sealed.                              *)
BlockExit(s) ==
  /\ hpc \in {"open", "tee", "drain"} /\ s \in open
  /\ S!RequestSeal(s)
  /\ UNCHANGED <<vars, handleVars>>

SealWork == S!SealStep /\ UNCHANGED <<vars, handleVars>>

----------------------------------------------------------------------------
(* WireHandle._close *)

(* _tee.close: the pipeline closes, its flush() waiting for the pending    *)
(* jobs and then for the seals.                                            *)
TeeClose ==
  /\ hpc = "open"
  /\ CloseBegin
  /\ hpc' = "tee"
  /\ UNCHANGED <<sealVars, flushOk, answer, settleErrors, inTime>>

TeeFlush ==
  /\ hpc = "tee"
  /\ CloseFlush /\ S!DrainCall(Closer)
  /\ hpc' = "drain"
  /\ UNCHANGED <<flushOk, answer, settleErrors, inTime>>

TeeDrained ==
  /\ hpc = "drain" /\ cpc = "pop" /\ drain[Closer] \in {"true", "false"}
  /\ ClosePop
  /\ flushOk' = (drain[Closer] = "true")
  /\ UNCHANGED <<sealVars, hpc, answer, settleErrors, inTime>>

TeeRest ==
  /\ hpc = "drain"
  /\ CloseClaim \/ CloseReturn
  /\ UNCHANGED <<sealVars, handleVars>>

(* on_final: the run table is closed under the allocator lock and every    *)
(* open segment's seal requested.                                          *)
FinalBegin ==
  /\ hpc = "drain" /\ cpc = "closed"
  /\ hpc' = "final"
  /\ UNCHANGED <<vars, sealVars, flushOk, answer, settleErrors, inTime>>

FinalSeal(s) ==
  /\ hpc = "final" /\ s \in open \ requested
  /\ S!RequestSeal(s)
  /\ UNCHANGED <<vars, handleVars>>

FinalDrain ==
  /\ hpc = "final" /\ open \subseteq requested
  /\ S!DrainCall(Closer)
  /\ hpc' = "seal"
  /\ inTime' = {j \in Jobs : entries[j] # Unsettled}
  /\ UNCHANGED <<vars, flushOk, answer, settleErrors>>

(* The closer inside drain().                                              *)
DrainStep ==
  /\ hpc \in {"drain", "seal"}
  /\ S!DrainStep(Closer)
  /\ UNCHANGED <<vars, handleVars>>

\* Variant for mutation: the seals waited for at the end are not looked at.
AnswerOfPipeline == clean /\ flushOk

(* close() returns True when the pipeline drained and every seal of the    *)
(* epoch was built, none dropped (delivery is the sender's).               *)
CloseAnswer == clean /\ flushOk /\ drain[Closer] = "true" /\ dropped = {}

(* loss.final and _p1_detach: nothing settles any more.                    *)
Detach ==
  /\ hpc = "seal" /\ drain[Closer] \in {"true", "false"}
  /\ hpc' = "closed"
  /\ answer' = IF CloseAnswer THEN "true" ELSE "false"
  /\ UNCHANGED <<vars, sealVars, flushOk, settleErrors, inTime>>

CNext ==
  \/ \E j \in Jobs, s \in Segments : Allocate(j, s)
  \/ \E j \in Jobs : RecordStep(j) \/ Lost(j) \/ Written(j)
  \/ PipelineStep \/ SealWork
  \/ \E s \in Segments : BlockExit(s) \/ FinalSeal(s)
  \/ TeeClose \/ TeeFlush \/ TeeDrained \/ TeeRest \/ FinalBegin \/ FinalDrain
  \/ DrainStep \/ Detach

CSpec == CInit /\ [][CNext]_allVars

----------------------------------------------------------------------------
Sealed == {emitted[i].seg : i \in DOMAIN emitted} \cup unqueued

(* A seal says of each position what became of it: a record entry for a    *)
(* position written and never lost, a loss entry for one lost and never    *)
(* written, with worker, close() and seal worker interleaved.              *)
SealTellsOutcome ==
  \A i \in DOMAIN emitted : \A e \in emitted[i].seal :
    LET j == e[1] IN
    IF e[2] = "record" THEN written[j] = 1 /\ lost[j] = 0
                       ELSE lost[j] = 1 /\ written[j] = 0

(* When close() returns True, a segment that is neither sealed nor counted *)
(* as built without a marker had a position still unsettled when the final *)
(* drain began, and only one of these: its job was not accepted before the *)
(* close (its thread was between allocation and submit, or had not yet     *)
(* recorded the refusal), or its span end or its settle raised an error.   *)
(* No segment is missing its seal for any other reason.                    *)
CleanCloseIsSealed ==
  answer = "true" =>
    \A s \in Segments : S!PositionsOf(s) # {} /\ s \notin Sealed =>
      \E j \in S!PositionsOf(s) \ inTime :
        j \in settleErrors \cup errored \/ app[j] # "accepted"

(* The docstring of _p1_final: it waits for the markers of the open        *)
(* segments' seals to be queued, and is False "when a seal is still        *)
(* pending at the deadline".  A seal that waits for an outstanding         *)
(* position is pending for nobody (drain() sees only what was handed off), *)
(* and a marker the sink refuses is counted and forgotten.                 *)
CloseTrueMeansSealed ==
  answer = "true" => \A s \in requested : \E i \in DOMAIN emitted : emitted[i].seg = s

=============================================================================
