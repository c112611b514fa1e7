---------------------------- MODULE LossEmitter ----------------------------
(***************************************************************************)
(* The loss emitter (sdk/python/src/fabric/_loss.py) on the provider path: *)
(* losses are merged into bounded range tables and markers appended to a   *)
(* bounded queue; a background thread and the helper threads of flush()    *)
(* drain both and emit them as spans, one drain at a time.                 *)
(*                                                                         *)
(* One action is one critical section of _lock; a drain holds _emit_lock   *)
(* from its take to its last span.  A flush is one call of flush() (or of  *)
(* close()); its helper runs on when the call has timed out.  Keys other   *)
(* than one exact and one merged one behave like these two.  The loss of a *)
(* range the table holds can always be built (loss_attributes repeats what *)
(* retain did with it); a marker may be one marker_span refuses.           *)
(***************************************************************************)
EXTENDS Integers, FiniteSets, Sequences, SequencesExt

CONSTANTS
  InSegment,   \* positions lost inside a segment: their ranges stay exact
  Outside,   \* positions lost outside every segment: one merged range
  Markers,     \* markers queued
  Sources,     \* allocators, whose heartbeats a drain adds when they are due
  Children,    \* forked children (_beat_sources), heard with every drain
  MaxRanges,   \* _MAX_PENDING_RANGES
  MaxMarkers,  \* MAX_QUEUED_MARKERS
  Flushes      \* calls of flush()

ASSUME LossAssumption ==
  /\ InSegment \subseteq Nat /\ Outside \subseteq Nat /\ InSegment \cap Outside = {}
  /\ MaxRanges \in Nat /\ MaxMarkers \in Nat

LossPositions == InSegment \cup Outside
Keys == {"segment", "none"}
KeyOf(p) == IF p \in InSegment THEN "segment" ELSE "none"
LossDrainers == Flushes \cup {"thread"}

VARIABLES
  pending,        \* _pending: the ranges <<first, last, count>> of each key
  ranges,         \* _ranges
  beats,          \* _beats
  active,         \* _sources: "on" since it was last heard, "off", or not noted
  undelivered,    \* _undelivered
  emitLock,       \* who holds _emit_lock
  hand,           \* what each drain has taken and not emitted yet
  flushing,       \* _flushing: the flush whose event is registered
  busy,           \* the flush each call waits for first
  fpc,            \* where each flush() call is
  helper,         \* where its helper thread is
  answer,         \* what the helper computed
  stopped,        \* _stop, set by close()
  recorded,       \* history: positions recorded
  gaps,           \* history: positions refused at the range bound
  queued,         \* history: markers queued, in order
  droppedMarkers, \* history: markers refused at the queue bound (markers_dropped)
  sent,           \* history: markers emitted, in order
  delivered,      \* history: positions and markers whose span was recorded
  failed,         \* history: those whose span was sampled out, refused or failed
  unbuilt,        \* history: markers marker_span refused
  earlier,        \* history: what each flush() call found recorded, queued or noted
  heard           \* history: the sources among these heard, or ended, since the call

emitVars == <<sent, delivered, failed, unbuilt, heard>>
flushVars == <<flushing, busy, fpc, helper, answer, earlier>>
lossVars == <<pending, ranges, beats, active, undelivered, emitLock, hand, flushVars, stopped,
              recorded, gaps, queued, droppedMarkers, emitVars>>

LossInit ==
  /\ pending = [k \in Keys |-> <<>>] /\ ranges = 0 /\ beats = <<>>
  /\ active = [s \in Sources |-> "none"] /\ undelivered = FALSE /\ emitLock = "free"
  /\ hand = [t \in LossDrainers |-> <<>>]
  /\ flushing = "none" /\ busy = [f \in Flushes |-> "none"]
  /\ fpc = [f \in Flushes |-> "idle"] /\ helper = [f \in Flushes |-> "none"]
  /\ answer = [f \in Flushes |-> FALSE]
  /\ stopped = FALSE
  /\ recorded = {} /\ gaps = {} /\ queued = <<>> /\ droppedMarkers = {}
  /\ sent = <<>> /\ delivered = {} /\ failed = {} /\ unbuilt = {}
  /\ earlier = [f \in Flushes |-> {}] /\ heard = [f \in Flushes |-> {}]

----------------------------------------------------------------------------
(* The range table *)

Min2(a, b) == IF a < b THEN a ELSE b
Max2(a, b) == IF a > b THEN a ELSE b

(* Two ranges overlap or are adjacent.                                     *)
Touch(r, s) == r[1] <= s[2] + 1 /\ s[1] <= r[2] + 1

Join(r, s) == <<Min2(r[1], s[1]), Max2(r[2], s[2]), r[3] + s[3]>>

(* _merge_exact's loop: the new range grown by every range it touches, and *)
(* the ranges kept.                                                        *)
Absorb(rs, new) ==
  FoldLeft(LAMBDA acc, r : IF Touch(r, acc.new)
                             THEN [acc EXCEPT !.new = Join(@, r)]
                             ELSE [acc EXCEPT !.kept = Append(@, r)],
           [new |-> new, kept |-> <<>>], rs)

MergeExact(rs, new) ==
  LET a == Absorb(rs, new) IN SortSeq(Append(a.kept, a.new), LAMBDA r, s : r[1] < s[1])

(* retain: what a key's ranges become, the bound left aside.               *)
Merged(k, rs, new) ==
  IF rs = <<>> THEN <<new>>
  ELSE IF k = "none" THEN <<Join(rs[1], new)>>
  ELSE MergeExact(rs, new)

(* record and retain: past the bound a new range is only a gap.            *)
Record(p) ==
  LET k == KeyOf(p)
      rs == Merged(k, pending[k], <<p, p, 1>>)
      more == Len(rs) - Len(pending[k])
  IN
  /\ p \notin recorded
  /\ recorded' = recorded \cup {p}
  /\ IF more > 0 /\ ranges >= MaxRanges
       THEN gaps' = gaps \cup {p} /\ UNCHANGED <<pending, ranges>>
       ELSE /\ pending' = [pending EXCEPT ![k] = rs]
            /\ ranges' = ranges + more
            /\ UNCHANGED gaps
  /\ UNCHANGED <<beats, active, undelivered, emitLock, hand, flushVars, stopped, queued,
                 droppedMarkers, emitVars>>

(* note_activity and heartbeat: the source is due at the next period.      *)
NoteActivity(s) ==
  /\ active[s] # "on" /\ active' = [active EXCEPT ![s] = "on"]
  /\ UNCHANGED <<pending, ranges, beats, undelivered, emitLock, hand, flushVars, stopped, recorded,
                 gaps, queued, droppedMarkers, emitVars>>

\* Variant for mutation: one marker more than the bound.
RoomAtBound == Len(beats) <= MaxMarkers

(* The queue is below its bound (entries and bytes alike).                 *)
Room == Len(beats) < MaxMarkers

(* _queue: appended, or dropped and counted.                               *)
Enqueue(m) ==
  /\ m \notin Range(queued) \cup droppedMarkers
  /\ IF Room
       THEN beats' = Append(beats, m) /\ queued' = Append(queued, m) /\ UNCHANGED droppedMarkers
       ELSE droppedMarkers' = droppedMarkers \cup {m} /\ UNCHANGED <<beats, queued>>

QueueMarker(m) ==
  /\ Enqueue(m)
  /\ UNCHANGED <<pending, ranges, active, undelivered, emitLock, hand, flushVars, stopped, recorded,
                 gaps, emitVars>>

(* final: the source leaves _sources, and its marker is queued.            *)
Final(m, s) ==
  /\ active[s] # "none" /\ active' = [active EXCEPT ![s] = "none"]
  /\ Enqueue(m)
  /\ heard' = [f \in Flushes |-> heard[f] \cup (earlier[f] \cap {s})]
  /\ UNCHANGED <<pending, ranges, undelivered, emitLock, hand, flushVars, stopped, recorded, gaps,
                 sent, delivered, failed, unbuilt>>

----------------------------------------------------------------------------
(* _drain, by the background thread or a flush helper *)

\* Variant for mutation: a drain does not wait for the one in progress.
AnyDrain == TRUE

(* _emit_lock is free.                                                     *)
MayDrain == emitLock = "free"

(* The sources whose heartbeat a take adds: the active ones when the       *)
(* period is over, every one noted for a flush.                            *)
Due(period) ==
  CASE period = "no" -> {}
    [] period = "over" -> {s \in Sources : active[s] = "on"}
    [] period = "flush" -> {s \in Sources : active[s] # "none"}

\* Variant for mutation: the number of ranges is not reset with the table.
TakeKeepsCount(t, period) ==
  /\ MayDrain
  /\ emitLock' = t
  /\ \E c \in SUBSET Children :
       hand' = [hand EXCEPT ![t] = pending["segment"] \o pending["none"] \o beats
                                     \o SetToSeq(Due(period)) \o SetToSeq(c)]
  /\ active' = [s \in Sources |-> IF s \in Due(period) THEN "off" ELSE active[s]]
  /\ pending' = [k \in Keys |-> <<>>] /\ beats' = <<>> /\ UNCHANGED ranges

(* take, under _lock: the losses first, then the markers, then heartbeats  *)
(* of the sources that are due and of the children that have one.          *)
Take(t, period) ==
  /\ MayDrain
  /\ emitLock' = t
  /\ \E c \in SUBSET Children :
       hand' = [hand EXCEPT ![t] = pending["segment"] \o pending["none"] \o beats
                                     \o SetToSeq(Due(period)) \o SetToSeq(c)]
  /\ active' = [s \in Sources |-> IF s \in Due(period) THEN "off" ELSE active[s]]
  /\ pending' = [k \in Keys |-> <<>>] /\ ranges' = 0 /\ beats' = <<>>

\* Variant for mutation: the lock is not given back.
KeepLocked == UNCHANGED emitLock

(* The finally that releases _emit_lock.                                   *)
Unlock == emitLock' = "free"

(* The positions a range of losses names, or the marker itself; nothing    *)
(* for a heartbeat.                                                        *)
Named(item) ==
  IF item \in Markers THEN {item}
  ELSE IF item \in Sources \cup Children THEN {}
  ELSE {p \in (IF item[1] \in InSegment THEN InSegment ELSE Outside) :
          item[1] <= p /\ p <= item[2]}

(* _emit of one span: recorded, or sampled out, refused or failed, which   *)
(* the flag remembers.                                                     *)
Emit(t) ==
  /\ hand[t] # <<>>
  /\ hand' = [hand EXCEPT ![t] = Tail(@)]
  /\ sent' = IF Head(hand[t]) \in Markers THEN Append(sent, Head(hand[t])) ELSE sent
  /\ heard' = [f \in Flushes |-> IF Head(hand[t]) \in earlier[f] \cap Sources
                                    THEN heard[f] \cup {Head(hand[t])} ELSE heard[f]]
  /\ \/ delivered' = delivered \cup Named(Head(hand[t])) /\ UNCHANGED <<failed, undelivered>>
     \/ /\ failed' = failed \cup Named(Head(hand[t]))
        /\ undelivered' = TRUE
        /\ UNCHANGED delivered
  /\ UNCHANGED <<pending, ranges, beats, active, emitLock, flushVars, stopped, recorded, gaps, queued,
                 droppedMarkers, unbuilt>>

(* A marker that marker_span refuses: no span, and the flag stays.         *)
EmitNothing(t) ==
  /\ hand[t] # <<>> /\ Head(hand[t]) \in Markers
  /\ hand' = [hand EXCEPT ![t] = Tail(@)]
  /\ unbuilt' = unbuilt \cup {Head(hand[t])}
  /\ UNCHANGED <<pending, ranges, beats, active, undelivered, emitLock, flushVars, stopped, recorded,
                 gaps, queued, droppedMarkers, sent, delivered, failed, heard>>

ThreadTake ==
  /\ ~stopped /\ emitLock # "thread"
  /\ \E period \in {"no", "over"} : Take("thread", period)
  /\ UNCHANGED <<undelivered, flushVars, stopped, recorded, gaps, queued, droppedMarkers, emitVars>>

ThreadRelease ==
  /\ emitLock = "thread" /\ hand["thread"] = <<>>
  /\ Unlock
  /\ UNCHANGED <<pending, ranges, beats, active, undelivered, hand, flushVars, stopped, recorded,
                 gaps, queued, droppedMarkers, emitVars>>

----------------------------------------------------------------------------
(* flush() *)

tableVars == <<pending, ranges, beats, active, stopped, recorded, gaps, queued, droppedMarkers,
               emitVars>>

(* The flush registered now is read under _lock...                         *)
FlushCall(f) ==
  /\ fpc[f] = "idle"
  /\ fpc' = [fpc EXCEPT ![f] = "wait"]
  /\ busy' = [busy EXCEPT ![f] = flushing]
  /\ earlier' = [earlier EXCEPT ![f] = recorded \cup Range(queued)
                                          \cup {s \in Sources : active[s] # "none"}]
  /\ UNCHANGED <<tableVars, undelivered, emitLock, hand, flushing, helper, answer>>

(* ... waited for, and replaced by this one, whose helper starts; it may   *)
(* not start (no new threads at interpreter shutdown).                     *)
FlushProceed(f) ==
  /\ fpc[f] = "wait"
  /\ busy[f] # "none" => helper[busy[f]] = "done"
  /\ flushing' = f
  /\ \/ fpc' = [fpc EXCEPT ![f] = "running"] /\ helper' = [helper EXCEPT ![f] = "also"]
     \/ fpc' = [fpc EXCEPT ![f] = "false"] /\ helper' = [helper EXCEPT ![f] = "done"]
  /\ UNCHANGED <<tableVars, undelivered, emitLock, hand, busy, answer, earlier>>

(* The deadline: the call returns, its helper goes on.                     *)
FlushTimeout(f) ==
  /\ \/ fpc[f] = "wait" /\ busy[f] # "none" /\ helper[busy[f]] # "done"
     \/ fpc[f] = "running" /\ helper[f] # "done"
  /\ fpc' = [fpc EXCEPT ![f] = "false"]
  /\ UNCHANGED <<tableVars, undelivered, emitLock, hand, flushing, busy, helper,
                 answer, earlier>>

(* _flush_until: force_flush of the exchange providers (what it returned   *)
(* is part of the answer),                                                 *)
HelperAlso(f) ==
  /\ helper[f] = "also"
  /\ helper' = [helper EXCEPT ![f] = "lock"]
  /\ UNCHANGED <<tableVars, undelivered, emitLock, hand, flushing, busy, fpc, answer, earlier>>

(* then a drain of its own (or no lock in time),                           *)
HelperTake(f) ==
  /\ helper[f] = "lock"
  /\ Take(f, "flush")
  /\ helper' = [helper EXCEPT ![f] = "emit"]
  /\ UNCHANGED <<undelivered, flushing, busy, fpc, answer, earlier, stopped,
                 recorded, gaps, queued, droppedMarkers, emitVars>>

HelperNoLock(f) ==
  /\ helper[f] = "lock" /\ emitLock # "free"
  /\ helper' = [helper EXCEPT ![f] = "done"]
  /\ UNCHANGED <<tableVars, undelivered, emitLock, hand, flushing, busy, fpc,
                 answer, earlier>>

HelperRelease(f) ==
  /\ helper[f] = "emit" /\ hand[f] = <<>>
  /\ Unlock
  /\ helper' = [helper EXCEPT ![f] = "export"]
  /\ UNCHANGED <<tableVars, undelivered, hand, flushing, busy, fpc, answer, earlier>>

(* then force_flush of the loss provider, and the answer under _lock: both *)
(* force_flushes succeeded, nothing failed and nothing is left.            *)
HelperAnswer(f) ==
  /\ helper[f] = "export"
  /\ \E exported \in BOOLEAN :
       answer' = [answer EXCEPT ![f] =
         exported /\ ~undelivered /\ beats = <<>> /\ \A k \in Keys : pending[k] = <<>>]
  /\ undelivered' = FALSE
  /\ helper' = [helper EXCEPT ![f] = "done"]
  /\ UNCHANGED <<tableVars, emitLock, hand, flushing, busy, fpc, earlier>>

FlushReturn(f) ==
  /\ fpc[f] = "running" /\ helper[f] = "done"
  /\ fpc' = [fpc EXCEPT ![f] = IF answer[f] THEN "true" ELSE "false"]
  /\ UNCHANGED <<tableVars, undelivered, emitLock, hand, flushing, busy, helper,
                 answer, earlier>>

(* close(): after its flush the background thread is stopped.              *)
Stop ==
  /\ ~stopped /\ \E f \in Flushes : fpc[f] \in {"true", "false"}
  /\ stopped' = TRUE
  /\ UNCHANGED <<pending, ranges, beats, active, undelivered, emitLock, hand, flushVars, recorded,
                 gaps, queued, droppedMarkers, emitVars>>

----------------------------------------------------------------------------
ThreadStep == ThreadTake \/ Emit("thread") \/ EmitNothing("thread") \/ ThreadRelease

HelperStep(f) ==
  \/ HelperAlso(f) \/ HelperTake(f) \/ HelperNoLock(f) \/ Emit(f) \/ EmitNothing(f)
  \/ HelperRelease(f) \/ HelperAnswer(f)

LossNext ==
  \/ \E p \in LossPositions : Record(p)
  \/ \E m \in Markers : QueueMarker(m)
  \/ \E s \in Sources : NoteActivity(s) \/ \E m \in Markers : Final(m, s)
  \/ ThreadStep \/ Stop
  \/ \E f \in Flushes : \/ FlushCall(f) \/ FlushProceed(f) \/ FlushTimeout(f)
                        \/ FlushReturn(f) \/ HelperStep(f)

LossSpec == LossInit /\ [][LossNext]_lossVars

(* The background thread wakes up every tick and tries the lock again; a   *)
(* helper runs on its own thread to its end (an exporter answers or times  *)
(* out).                                                                   *)
LossFairSpec ==
  /\ LossSpec
  /\ WF_lossVars(ThreadStep)
  /\ \A f \in Flushes : WF_lossVars(HelperStep(f))

----------------------------------------------------------------------------
LossTypeOK ==
  /\ DOMAIN pending = Keys /\ ranges \in 0..MaxRanges
  /\ Range(beats) \subseteq Markers /\ Len(beats) <= MaxMarkers
  /\ active \in [Sources -> {"none", "on", "off"}]
  /\ undelivered \in BOOLEAN /\ emitLock \in LossDrainers \cup {"free"}
  /\ flushing \in Flushes \cup {"none"} /\ busy \in [Flushes -> Flushes \cup {"none"}]
  /\ fpc \in [Flushes -> {"idle", "wait", "running", "true", "false"}]
  /\ helper \in [Flushes -> {"none", "also", "lock", "emit", "export", "done"}]
  /\ recorded \subseteq LossPositions /\ gaps \subseteq recorded

(* The exact table: its ranges are sorted, never touch, count exactly the  *)
(* positions they span, and span exactly the recorded positions of the     *)
(* segment that are neither taken nor gaps; _ranges counts both tables.    *)
RangesExact ==
  LET rs == pending["segment"]
      taken == delivered \cup failed
                 \cup UNION {Named(x) : x \in UNION {Range(hand[t]) : t \in LossDrainers}}
  IN /\ \A i \in 1..(Len(rs) - 1) : rs[i][2] + 1 < rs[i+1][1]
     /\ \A i \in DOMAIN rs : rs[i][3] = rs[i][2] - rs[i][1] + 1
     /\ UNION {rs[i][1]..rs[i][2] : i \in DOMAIN rs} = ((recorded \cap InSegment) \ gaps) \ taken
     /\ ranges = Len(pending["segment"]) + Len(pending["none"])

(* Markers leave in the order they were queued, each at most once, however *)
(* many drains there are: a final marker never overtakes an earlier one,   *)
(* and only one that marker_span refused is left out.                      *)
MarkersInOrder == IsPrefix(sent, SelectSeq(queued, LAMBDA m : m \notin unbuilt))

(* A flush() that returned True left nothing of what it found behind: each *)
(* loss and marker accepted before the call was handed to the provider (or *)
(* was one range too many, or a marker with no span), even when another    *)
(* drain had taken it, and each source noted before the call was heard     *)
(* since, unless its epoch ended meanwhile (final).                        *)
FlushCoversEarlier ==
  \A f \in Flushes : fpc[f] = "true" =>
    earlier[f] \subseteq delivered \cup failed \cup unbuilt \cup gaps \cup heard[f]

(* The docstring of flush() (_loss.py 606-607): True only when all was     *)
(* delivered and nothing sampled away.  What another flush() found too and *)
(* has not answered True for is excused, and a marker that has no span.    *)
FlushTrueMeansDelivered ==
  \A f \in Flushes : fpc[f] = "true" =>
    earlier[f] \subseteq delivered \cup unbuilt \cup gaps \cup Sources
      \cup UNION {earlier[g] : g \in {h \in Flushes : fpc[h] # "true"}}

(* What is recorded or queued is emitted in the end, unless close()        *)
(* stopped the emitter: no flush, blocked helper or full table starves the *)
(* thread.  (Both sides of the inclusion only grow, so this is one "leads  *)
(* to" for each position and marker.)                                      *)
RecordedGetsEmitted ==
  <>[](\/ stopped
       \/ recorded \cup Range(queued) \subseteq delivered \cup failed \cup unbuilt \cup gaps)

=============================================================================
