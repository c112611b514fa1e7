---------------------------- MODULE SegmentSeals ----------------------------
(***************************************************************************)
(* The seal accumulator of the capture pipeline (sdk/python/src/fabric/    *)
(* _seal.py): positions are noted per segment when they are allocated and  *)
(* settled when they get an outcome; a segment whose seal was requested    *)
(* and whose positions are all settled is handed to a worker thread that   *)
(* builds its seal and queues the marker.  Past its bounds a seal is       *)
(* dropped and its state goes to a second thread that frees it.            *)
(*                                                                         *)
(* One action is one critical section of _lock (or of _build_lock around   *)
(* it).  The sequence number of a position carries no information beyond   *)
(* its identity here, and the digest of a seal is the set of its entries.  *)
(***************************************************************************)
EXTENDS Naturals, FiniteSets, Sequences

CONSTANTS
  Segments,      \* segment ids
  NoSegment,     \* none of them
  Positions,     \* positions of the source's sequence
  SealEntries,      \* what a position can settle with: a digest, or loss:<reason>
  Unsettled,     \* no outcome yet
  ForcedAt,      \* FORCED_SEAL_ENTRIES
  MaxPending,    \* MAX_PENDING_SEALS
  MaxPositions,  \* MAX_PENDING_SEAL_POSITIONS
  MaxReclaim,    \* MAX_RECLAIM_POSITIONS
  MaxReclaimSegs,\* MAX_RECLAIM_SEGMENTS
  Drainers,      \* threads that call drain()
  Unbounded,     \* the drainers that pass no timeout
  StartFails     \* TRUE: a thread may fail to start (interpreter shutdown)

ASSUME SealsAssumption ==
  /\ NoSegment \notin Segments /\ Unsettled \notin SealEntries
  /\ {ForcedAt, MaxPending, MaxPositions, MaxReclaim, MaxReclaimSegs} \subseteq Nat
  /\ Unbounded \subseteq Drainers /\ StartFails \in BOOLEAN

Builders == Drainers \cup {"worker"}

VARIABLES
  segOf,       \* the segment each allocated position belongs to
  entries,     \* entries[p]: what p settled with in its segment
  open,        \* _segments: the segments not handed off yet
  outstanding, \* outstanding positions of each segment
  requested,   \* segments with a seal request
  forced,      \* segments that reached ForcedAt
  forcing,     \* the segment on_forced is sealing, under the allocator lock
  ready,       \* _ready
  readyPositions,
  droppedSince,\* _dropped_since_drain
  worker,      \* the seal worker thread
  builder,     \* the segment each builder is building, or NoSegment
  reclaim,     \* _reclaim and the segment being freed (its head)
  reclaimer,   \* the reclaimer thread
  drain,       \* where each drain() call is
  handed,      \* history: segments in hand-off order, dropped ones left out
  dropped,     \* history: segments whose seal was dropped
  emitted,     \* history: the seals whose marker was queued, in order
  unqueued,    \* history: seals taken whose marker was not queued (only counted)
  before,      \* history: segments handed off or dropped when each drain() was called
  reported,    \* history: dropped segments a drain() has answered False for
  startFailed  \* history: a seal worker could not be started

segVars == <<segOf, entries, open, outstanding, requested, forced, forcing>>
sealVars == <<segOf, entries, open, outstanding, requested, forced, forcing, ready,
              readyPositions, droppedSince, worker, builder, reclaim, reclaimer, drain,
              handed, dropped, emitted, unqueued, before, reported, startFailed>>
drainVars == <<drain, before, reported, startFailed>>
sealed == <<handed, dropped, emitted, unqueued>>

PositionsOf(s) == {p \in Positions : segOf[p] = s}
Settled(s) == {p \in PositionsOf(s) : entries[p] # Unsettled}

SealInit ==
  /\ segOf = [p \in Positions |-> NoSegment]
  /\ entries = [p \in Positions |-> Unsettled]
  /\ open = {} /\ outstanding = [s \in Segments |-> 0]
  /\ requested = {} /\ forced = {} /\ forcing = NoSegment
  /\ ready = <<>> /\ readyPositions = 0 /\ droppedSince = FALSE
  /\ worker = "none" /\ builder = [b \in Builders |-> NoSegment]
  /\ reclaim = <<>> /\ reclaimer = "none"
  /\ drain = [d \in Drainers |-> "idle"]
  /\ handed = <<>> /\ dropped = {} /\ emitted = <<>> /\ unqueued = {}
  /\ before = [d \in Drainers |-> {}] /\ reported = {} /\ startFailed = FALSE

(* What the reclaimer still holds: queued and being freed.                 *)
ReclaimPositions == LET size[i \in 0..Len(reclaim)] ==
                          IF i = 0 THEN 0 ELSE size[i-1] + reclaim[i]
                    IN size[Len(reclaim)]

----------------------------------------------------------------------------
(* note_allocated, under the allocator lock: the run table allocates only  *)
(* in segments it has not sealed.                                          *)
NoteAllocated(s, p) ==
  /\ forcing = NoSegment
  /\ segOf[p] = NoSegment /\ s \notin requested
  /\ segOf' = [segOf EXCEPT ![p] = s]
  /\ open' = open \cup {s}
  /\ outstanding' = [outstanding EXCEPT ![s] = @ + 1]
  /\ LET full == s \notin forced /\ Cardinality(Settled(s)) + outstanding[s] + 1 >= ForcedAt
     IN /\ forced' = IF full THEN forced \cup {s} ELSE forced
        /\ forcing' = IF full THEN s ELSE NoSegment
  /\ UNCHANGED <<entries, requested, ready, readyPositions, droppedSince, worker, builder,
                 reclaim, reclaimer, drainVars, sealed>>

\* Variant for mutation: the number of pending seals is off by one.
OverBoundLate(n) ==
  /\ ready # <<>>
  /\ \/ Len(ready) > MaxPending
     \/ readyPositions + ReclaimPositions + n > MaxPositions

(* A bound a seal may not be queued past, unless none is waiting.          *)
OverBound(n) ==
  /\ ready # <<>>
  /\ \/ Len(ready) >= MaxPending
     \/ readyPositions + ReclaimPositions + n > MaxPositions

\* Variant for mutation: a queued seal's positions are not counted.
ReadyUncounted(n) == readyPositions

(* _ready_positions after a seal of n positions is queued.                 *)
ReadyWith(n) == readyPositions + n

(* _hand_off, for a segment with n settled positions that can seal now:    *)
(* queued for the worker, or dropped and its state given to the reclaimer  *)
(* (_discard; past the reclaim bounds the dropping thread frees it).       *)
HandOff(s, n) ==
  /\ open' = open \ {s}
  /\ IF OverBound(n)
       THEN /\ droppedSince' = TRUE
            /\ dropped' = dropped \cup {s}
            /\ IF ReclaimPositions + n > MaxReclaim \/ Len(reclaim) >= MaxReclaimSegs
                 THEN UNCHANGED <<reclaim, reclaimer>>
                 ELSE /\ reclaim' = Append(reclaim, n)
                      /\ reclaimer' = IF reclaimer = "none" THEN "starting" ELSE reclaimer
            /\ UNCHANGED <<ready, readyPositions, worker, handed>>
       ELSE /\ ready' = Append(ready, s)
            /\ readyPositions' = ReadyWith(n)
            /\ handed' = Append(handed, s)
            /\ worker' = IF worker = "none" THEN "starting" ELSE worker
            /\ UNCHANGED <<droppedSince, dropped, reclaim, reclaimer>>

KeepOpen == UNCHANGED <<ready, readyPositions, droppedSince, worker, reclaim, reclaimer,
                        handed, dropped>>

(* settle acts on a position of an open segment that has no outcome yet;   *)
(* any other settle is a late or a second one and changes nothing.         *)
Fresh(p) == segOf[p] \in open /\ entries[p] = Unsettled

\* Variant for mutation: the seal does not wait for positions in flight.
CanSealOnRequest(s, n, reqs) == s \in reqs

(* A segment seals when a seal is requested and nothing is outstanding.    *)
CanSeal(s, n, reqs) == s \in reqs /\ n = 0

Settle(p, o) ==
  LET s == segOf[p]
      left == IF outstanding[s] > 0 THEN outstanding[s] - 1 ELSE 0
  IN
  /\ Fresh(p)
  /\ entries' = [entries EXCEPT ![p] = o]
  /\ outstanding' = [outstanding EXCEPT ![s] = left]
  /\ IF CanSeal(s, left, requested)
       THEN HandOff(s, Cardinality(Settled(s) \cup {p}))
       ELSE open' = open /\ KeepOpen
  /\ UNCHANGED <<segOf, requested, forced, forcing, builder, drainVars, emitted, unqueued>>

(* request_seal, from the run table under the allocator lock: at a block   *)
(* exit, an epoch's end, a fork, or on_forced for the segment just filled. *)
(* A segment without positions is created here.                            *)
RequestSeal(s) ==
  /\ s \notin requested
  /\ forcing \in {NoSegment, s}
  /\ forcing' = NoSegment
  /\ requested' = requested \cup {s}
  /\ IF CanSeal(s, outstanding[s], requested \cup {s})
       THEN HandOff(s, Cardinality(Settled(s)))
       ELSE open' = open \cup {s} /\ KeepOpen
  /\ UNCHANGED <<segOf, entries, outstanding, forced, builder, drainVars, emitted, unqueued>>

----------------------------------------------------------------------------
(* Threads: a hand-off constructs the worker under the lock and starts it  *)
(* after; a start that fails leaves none, and the seals stay pending.      *)

(* The outcome of a thread's start().                                      *)
Started == IF StartFails THEN {"running", "none"} ELSE {"running"}

StartWorker ==
  /\ worker = "starting" /\ \A d \in Drainers : drain[d] # "start"
  /\ worker' \in Started
  /\ startFailed' = (startFailed \/ worker' = "none")
  /\ UNCHANGED <<segVars, ready, readyPositions, droppedSince, builder, reclaim, reclaimer,
                 drain, before, reported, sealed>>

StartReclaimer ==
  /\ reclaimer = "starting"
  /\ reclaimer' \in Started
  /\ UNCHANGED <<segVars, ready, readyPositions, droppedSince, worker, builder, reclaim,
                 drainVars, sealed>>

\* Variant for mutation: the queue is not looked at again after the idle wait.
IdleAfterWait == builder["worker"] = NoSegment

(* Nothing to build: checked after the wait, under the lock.               *)
Idle == ready = <<>> /\ builder["worker"] = NoSegment

(* _work: exit when idle; the next hand-off starts a new worker.           *)
WorkerExit ==
  /\ worker = "running" /\ Idle
  /\ worker' = "none"
  /\ UNCHANGED <<segVars, ready, readyPositions, droppedSince, builder, reclaim, reclaimer,
                 drainVars, sealed>>

\* Variant for mutation: two threads may build at once.
AnyBuilder(b) == builder[b] = NoSegment

(* _build_lock: one builder at a time.                                     *)
BuildLockFree(b) == \A c \in Builders : builder[c] = NoSegment

(* _build_next, first half: take the oldest seal.                          *)
BuildBegin(b) ==
  /\ IF b = "worker" THEN worker = "running" ELSE drain[b] = "build"
  /\ BuildLockFree(b)
  /\ ready # <<>>
  /\ builder' = [builder EXCEPT ![b] = Head(ready)]
  /\ ready' = Tail(ready)
  /\ readyPositions' = readyPositions - Cardinality(Settled(Head(ready)))
  /\ UNCHANGED <<segVars, droppedSince, worker, reclaim, reclaimer, drainVars, sealed>>

(* _build_next, second half: the digest of its entries, and the marker.    *)
(* Without a source or a sink, when the sink refuses, or on an error, the  *)
(* marker is not queued and a counter is all that tells.                   *)
BuildEnd(b) ==
  LET s == builder[b] IN
  /\ s # NoSegment
  /\ \/ /\ emitted' = Append(emitted, [seg |-> s, seal |-> {<<p, entries[p]>> : p \in Settled(s)}])
        /\ UNCHANGED unqueued
     \/ unqueued' = unqueued \cup {s} /\ UNCHANGED emitted
  /\ builder' = [builder EXCEPT ![b] = NoSegment]
  /\ drain' = IF b = "worker" THEN drain ELSE [drain EXCEPT ![b] = "wait"]
  /\ UNCHANGED <<segVars, ready, readyPositions, droppedSince, worker, reclaim, reclaimer,
                 before, reported, startFailed, handed, dropped>>

(* _reclaim_work: the state at the head is freed, then no longer counted;  *)
(* it exits when idle.                                                     *)
Reclaim ==
  /\ reclaimer = "running"
  /\ IF reclaim = <<>>
       THEN reclaimer' = "none" /\ UNCHANGED reclaim
       ELSE reclaim' = Tail(reclaim) /\ UNCHANGED reclaimer
  /\ UNCHANGED <<segVars, ready, readyPositions, droppedSince, worker, builder, drainVars,
                 sealed>>

----------------------------------------------------------------------------
(* drain() *)

DrainCall(d) ==
  /\ drain[d] \in {"idle", "true", "false"}
  /\ drain' = [drain EXCEPT ![d] = "wait"]
  /\ before' = [before EXCEPT ![d] = {handed[i] : i \in DOMAIN handed} \cup dropped]
  /\ UNCHANGED <<segVars, ready, readyPositions, droppedSince, worker, builder, reclaim,
                 reclaimer, reported, startFailed, sealed>>

Building == \E b \in Builders : builder[b] # NoSegment

\* Variant for mutation: the seal being built is not waited for.
QueueDrained == ready = <<>>

(* What drain() waits for.                                                 *)
AllBuilt == ready = <<>> /\ ~Building

(* The answer: everything handed off is built, and nothing was dropped     *)
(* since the drain before it.                                              *)
DrainReturn(d) ==
  /\ drain[d] = "wait" /\ AllBuilt
  /\ drain' = [drain EXCEPT ![d] = IF droppedSince THEN "false" ELSE "true"]
  /\ droppedSince' = FALSE
  /\ reported' = IF droppedSince THEN dropped ELSE reported
  /\ UNCHANGED <<segVars, ready, readyPositions, worker, builder, reclaim, reclaimer, before,
                 startFailed, sealed>>

(* Seals are pending and no worker runs: construct one, under the lock...  *)
DrainRestart(d) ==
  /\ drain[d] = "wait" /\ ready # <<>> /\ worker = "none"
  /\ drain' = [drain EXCEPT ![d] = "start"]
  /\ worker' = "starting"
  /\ UNCHANGED <<segVars, ready, readyPositions, droppedSince, builder, reclaim, reclaimer,
                 before, reported, startFailed, sealed>>

(* ... and start it.  When it cannot start, a bounded drain returns False  *)
(* and an unbounded one builds the next seal itself.                       *)
DrainStarted(d) ==
  /\ drain[d] = "start"
  /\ worker' \in Started
  /\ drain' = [drain EXCEPT ![d] = IF worker' = "running" THEN "wait"
                                    ELSE IF d \in Unbounded THEN "build" ELSE "false"]
  /\ startFailed' = (startFailed \/ worker' = "none")
  /\ UNCHANGED <<segVars, ready, readyPositions, droppedSince, builder, reclaim, reclaimer,
                 before, reported, sealed>>

(* An unbounded drain finds that another builder emptied the queue.        *)
DrainNothingToBuild(d) ==
  /\ drain[d] = "build" /\ BuildLockFree(d) /\ ready = <<>>
  /\ drain' = [drain EXCEPT ![d] = "wait"]
  /\ UNCHANGED <<segVars, ready, readyPositions, droppedSince, worker, builder, reclaim,
                 reclaimer, before, reported, startFailed, sealed>>

(* The deadline passed while somebody was building.                        *)
DrainTimeout(d) ==
  /\ drain[d] = "wait" /\ d \notin Unbounded
  /\ ~AllBuilt /\ (worker # "none" \/ ready = <<>>)
  /\ drain' = [drain EXCEPT ![d] = "false"]
  /\ UNCHANGED <<segVars, ready, readyPositions, droppedSince, worker, builder, reclaim,
                 reclaimer, before, reported, startFailed, sealed>>

----------------------------------------------------------------------------
(* The threads of the accumulator itself.                                  *)
SealStep ==
  \/ StartWorker \/ StartReclaimer \/ WorkerExit \/ Reclaim
  \/ \E b \in Builders : BuildBegin(b) \/ BuildEnd(b)

DrainStep(d) ==
  \/ DrainReturn(d) \/ DrainRestart(d) \/ DrainStarted(d) \/ DrainNothingToBuild(d)
  \/ DrainTimeout(d)

SealNext ==
  \/ \E s \in Segments, p \in Positions : NoteAllocated(s, p)
  \/ \E p \in Positions, o \in SealEntries : Settle(p, o)
  \/ \E s \in Segments : RequestSeal(s)
  \/ SealStep
  \/ \E d \in Drainers : DrainCall(d) \/ DrainStep(d)

SealSpec == SealInit /\ [][SealNext]_sealVars

(* The worker runs while there is work; nobody is obliged to allocate, to  *)
(* settle, to request a seal or to drain.                                  *)
BuildSteps == StartWorker \/ \E b \in Builders : BuildBegin(b) \/ BuildEnd(b)
SealFairSpec == SealSpec /\ WF_sealVars(BuildSteps)

----------------------------------------------------------------------------
SealTypeOK ==
  /\ segOf \in [Positions -> Segments \cup {NoSegment}]
  /\ entries \in [Positions -> SealEntries \cup {Unsettled}]
  /\ open \subseteq Segments /\ requested \subseteq Segments /\ forced \subseteq Segments
  /\ forcing \in Segments \cup {NoSegment}
  /\ outstanding \in [Segments -> Nat]
  /\ ready \in Seq(Segments) /\ readyPositions \in Nat /\ droppedSince \in BOOLEAN
  /\ worker \in {"none", "starting", "running"}
  /\ reclaimer \in {"none", "starting", "running"}
  /\ builder \in [Builders -> Segments \cup {NoSegment}]
  /\ reclaim \in Seq(Nat)
  /\ drain \in [Drainers -> {"idle", "wait", "start", "build", "true", "false"}]
  /\ dropped \subseteq Segments /\ unqueued \subseteq Segments /\ startFailed \in BOOLEAN

EmittedSegs == {emitted[i].seg : i \in DOMAIN emitted}

(* A seal names every position of its segment, each with the outcome it    *)
(* settled with first: no position allocated in the segment is missing     *)
(* from it, whatever order the outcomes arrived in (settle, _hand_off).    *)
SealCoversSegment ==
  \A i \in DOMAIN emitted :
    emitted[i].seal = {<<p, entries[p]>> : p \in PositionsOf(emitted[i].seg)}
    /\ \A p \in PositionsOf(emitted[i].seg) : entries[p] # Unsettled

(* Markers are queued in hand-off order and each segment is sealed at most *)
(* once, with the worker and unbounded drains building concurrently.       *)
InHandOffOrder ==
  /\ SelectSeq(handed, LAMBDA s : s \in EmittedSegs)
       = [i \in DOMAIN emitted |-> emitted[i].seg]
  /\ \A i, j \in DOMAIN handed : handed[i] = handed[j] => i = j

(* The pending bounds, whatever threads fail to start or stall: only the   *)
(* seal admitted into an empty queue may hold more positions than the      *)
(* bound, and dropped state waiting to be freed is bounded in positions    *)
(* and in segments (_hand_off, _discard).                                  *)
SealsBounded ==
  /\ Len(ready) <= MaxPending
  /\ Len(ready) > 1 => readyPositions <= MaxPositions
  /\ ReclaimPositions <= MaxReclaim /\ Len(reclaim) <= MaxReclaimSegs

(* A drain() that returned True waited until every seal handed off before  *)
(* the call had left its builder (its marker queued, or counted as not     *)
(* queued), and every seal dropped before it was owned up to by a drain()  *)
(* that returned False, with other drains and builders interleaved.        *)
DrainIsHonest ==
  \A d \in Drainers : drain[d] = "true" =>
    before[d] \subseteq EmittedSegs \cup unqueued \cup reported

(* drain()'s docstring: it waits "until every seal handed off so far is    *)
(* built and its marker queued".  A marker the sink refuses is only        *)
(* counted (_emit), and the drain returns True.                            *)
DrainTrueMeansQueued ==
  \A d \in Drainers : drain[d] = "true" => before[d] \subseteq EmittedSegs \cup reported

(* A segment handed off is sealed in the end unless a worker could not be  *)
(* started: the worker exits when idle and is restarted, and no hand-off   *)
(* falls between the two.  (Both sides of the inclusion only grow, so this *)
(* is one "leads to" for each segment.)                                    *)
SealEventuallyBuilt ==
  <>[](startFailed \/ {handed[i] : i \in DOMAIN handed} \subseteq EmittedSegs \cup unqueued)

=============================================================================
