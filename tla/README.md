# Verification of SingleAxis Fabric

This directory holds TLA+ models of the parts of SingleAxis Fabric in which
several threads, processes or crashes meet, the TLC configurations that check
them on small instances, and theorems checked by TLAPS. Each module names the
source file it is written from; `PROJECT.json` maps every definition to its
lines, lists the runs, the mutants that show each property can fail, the hazards
of the code and the findings.

Fabric records what an AI agent did. Its central promise is about *positions*:
each exchange or record of an agent process takes one position of the process's
sequence, and each position should later be found either as a delivered record or
as a declared loss, never as both and never as neither. The models follow that
promise from the allocation of a position to the acceptance of its record.

## The system

| Part | State | Operations | What makes it hard |
|---|---|---|---|
| Tee transports, exchange (`wire/_stream.py`, `_transport.py`, `_aiohttp.py`) | retained chunks, budget | add, detach, finish, reap | host thread, garbage collector and worker share an exchange |
| Sequence allocator, run scopes and segments (`_sequence.py`, `_segments.py`) | epoch, next position, open segments, resume tokens | allocate, enter, exit, fork hooks, final | threads and forks under one lock |
| Capture pipeline (`wire/_pipeline.py`) | queue, jobs in progress, pending count, in-flight budget | charge, submit, worker loop, flush, close | worker and close race for the jobs in progress |
| Seal accumulator (`_seal.py`) | open segments, outcomes, ready seals, reclaim queue | note, settle, request, build, drain | a worker that exits when idle, bounded queues, drains that build |
| Loss emitter (`_loss.py`) | range tables, marker queue, undelivered flag | record, queue, take, emit, flush, close | several drains, helpers that outlive their caller |
| Fork ledger (`wire/_forks.py`) | shared slots | claim, store, read | children die without a word |
| Spool (`wire/_spool.py`) | directory, byte ledger, receipts, locks | admit, write, rename, retire, settle, rescan, quarantine, migrate | several processes, crashes, power loss |
| Sender, drain command, loss ledger, registration (`wire/_sender.py`, `_drain.py`, `_ledger.py`, `_registration.py`) | held markers, slots, registration files | pump, drain, flush, recover, declare orphans | death of a process at any step |
| Capture handle (`wire/__init__.py`) | installed parts | install, flush, close | order of close across all the above |
| Explicit APIs, content writer, byte and source spools, metadata delivery | journals, retry queues | append, seal, deliver | crash between intent and effect |
| Node (`components/otel-collector-fabric`) | content objects, loss outbox, host-record epochs, audit cursor | put, stage, acknowledge, quarantine, checkpoint | crash between staging and cursor, concurrent writers |
| Host emitter (`components/host-emitter`) | spool of batches | enqueue, next, acknowledge | failing directory sync |
| Reconstruction, gate, guard, `fabricctl`, TypeScript SDK, charts, contracts | none shared | sequential | data rather than control |

An application thread allocates a position, charges the budget and submits a
job. The worker protects it and hands it to the spool (or, without a spool, ends
a span). Whoever decides the outcome settles the position in the seal of its
segment; a loss also goes to the loss emitter. The sender drains the spool to the
Node and leaves a receipt for a record of another process.

## Modules

| Module | Models | Abstraction |
|---|---|---|
| `CapturePipeline` | `_pipeline.py`: `charge_record`, `submit`, `_run`, `_batch`, `_prepare`, `_emit_one`, `flush`, `close`, `Budget` | A job is its position; what protection does to its text is a choice of outcomes. The queue is a set: no property sees the order. The budget has a lock of its own, so reserving, storing, popping and releasing a charge are steps apart. The initial state chooses the spool path or the provider path. |
| `CapturePipelineProofs` | theorems about it | |
| `SegmentSeals` | `_seal.py`: accumulator, worker, reclaimer, `drain` | A digest is the set of entries it is taken over. |
| `CaptureSeals` | `WireHandle._close` over `CapturePipeline` (extended) and `SegmentSeals` (instantiated) | Each lost or written position is settled in the same step that decides it, as the code's hook does. |
| `LossEmitter` | `_loss.py` on the provider path: range merge, marker queue, heartbeats of active sources and of children, background thread, flush helpers, close | One key with exact ranges and one merged key. Time is a choice: a periodic heartbeat may be due at any take of the thread. A marker whose span cannot be built is emitted as nothing. |
| `ForkHooks` | fork hooks of `_segments.py`, `ForkLedger` | One run with one open segment; a child is one allocator with at most one slot. Allocation is two steps, so a fork can fall inside it. |
| `SpoolAdmission` | `_spool.py`: admission under the flock, directory scan, reservation, renames, migration of plaintext records | A file is a record and its present name; a scan reads one name per step. |
| `SpoolLedger` | `_spool.py`: the byte ledger of one process beside other processes: writes, failed writes, retirement and its retry, quarantine, `settle`, `_trim`, `rescan` | lstat, unlink and charge are separate steps; sizes are full, receipt or none. A file of age is one no write is using: a write in flight is younger than the hour after which the scan removes. |
| `SpoolRecords` | `_spool.py` and the drain of `_sender.py`: write, fsync, rename, directory fsync, export, retire, receipt, settle, quarantine | The disk has a visible layer and the set of contents a power loss may leave. |

An `MC*` module gives a model its constants; the comment at its head says what
its bounds allow to happen. `MCProcess`, `MCReports` and `MCSpool` hold several
components that share no state: a variable `part` chosen at the start says whose
behaviour this is, and the others stay as they begin, so that one run answers for
each of them without their product. An action is one critical section of the
code's own locks, or one system call where the code holds none. Definitions marked
*Variant for mutation* are the mutated forms `PROJECT.json` names; nothing else
uses them.

## Runs

Four runs pass.

| Run | Part and instance | Shows |
|---|---|---|
| `process` | pipeline: 3 jobs, queue 2, batch 2, budget 4 | `OneOutcome`, `NoSilentDrop`: no interleaving of submit, worker and close gives a position two outcomes, and once the worker has exited and `close()` has returned each job handed over has one. `PendingExact`, `BudgetExact`, `CleanCloseIsClean`: the counters are exact and a close that says True left nothing. `AcceptedGetsOutcome`, `CloseStopsWorker`: liveness. |
| | forks: 1 forking and 2 allocating threads, 3 children, 2 slots | `LockReleased`, `ContinuedForkIsDeclared`: a child that continues the run was not forked inside an allocation, its predecessor is sealed and that seal requested, and the parent's next segment declares it. `ChildEventuallyReported`. |
| | ledger: 1 own and 1 foreign record, 1 receipt kept, 1 failing read | `NeverUncharged`, `NeverChargedTwice`, `LedgerConverges`. |
| `reports` | loss emitter: 4 positions, 3 markers, tables of 2, one source and one child, one flush | `RangesExact`, `MarkersInOrder`, `FlushCoversEarlier`, `RecordedGetsEmitted`. The merge is also compared with its reference, the maximal runs of a set, for every order of every subset of six positions. |
| | seals: 3 segments, 2 positions, 2 pending seals of 1 position, reclaimer bounds of 1, two drains | `SealCoversSegment`, `InHandOffOrder`, `SealsBounded`, `DrainIsHonest`, `SealEventuallyBuilt`. |
| `close_seals` | 2 jobs, 2 segments, queue 1 | `SealTellsOutcome`, `CleanCloseIsSealed`: seals agree with outcomes; and when a close says True, a segment is unsealed only because one of its positions was not yet accepted when the close began, or met an error at the end of its span or in its settlement. |
| `spool` | admission: 2 writers, 3 records, with migration | `SharedBound`, `ScanSeesEveryFile`. |
| | records: 2 processes; 1 record with 3 faults, 2 with 1 | `WrittenSurvives`, `SettledAsDelivered`, `OncePerExcuse`, `CorruptIsUndelivered`. |

**What an outcome is.** On the provider path a span that is committed and whose
`end()` raises leaves neither a record nor a loss; the code counts it in
`internal_errors`. The variable `errored` holds such positions and `Outcomes` counts
them, so `OneOutcome`, `NoSilentDrop` and `CleanCloseIsClean` say *written, lost or
counted as an internal error*. On the spool path there is no such case. A seal
never tells of an errored position: it stays outstanding, which is one of the
exceptions of `CleanCloseIsSealed`.

**What delivery promises.** A record is exported at least once. `OncePerExcuse` bounds
the surplus: beyond the first acceptance there is at most one more for each time
the Node accepted it and the answer was lost, or its drainer ended or stopped before
the retirement was complete. A retirement that fails and is retried adds none.

**Bounds.** Each instance has one participant more than the scarce resource: a
job more than the queue holds, a segment more than may wait, a marker or range
more than its table takes, a child more than there are slots. Races in this code are
between two parties over one item, so two items and three parties reach every
pairing. The work of the loss emitter is split into workloads (`MCReports`): ranges
of one segment, markers, both with a merged range, heartbeats of a source and a
child; each is interleaved in full with the thread and a flush. Segments, positions
and markers that are interchangeable are used in one fixed order (`InOrder`,
`NamedInOrder`), which loses only renamings. In `close_seals` the budget is left out
(charges of zero) since `process` covers it. With two records there is no power loss
(`FewLosses`): the disk of one record is independent of the other's but for the
directory fsync, which one record meets with three faults.

**Deadlock** checking is off in every configuration: nothing obliges an
application to submit, fork or close again, so each system may come to rest. That
it does not rest too early is what the liveness properties say.

**Fairness.** Weak, and only for threads that run by themselves: the capture
worker, a closer inside `close()`, a thread inside `submit`, the steps of `_done`
(pipeline); the seal worker's start and its builds (seals); the emitter's ticking
thread and the flush helpers (loss emitter); the sender's retirement, trim and scan,
a write and a settlement under way (ledger); the parent's periodic read of the slots
(forks). One is strong: the start of a rescan in the ledger. The sender's loop
(`_sender.py`, 463-471) rescans whenever five seconds have passed, before it drains
again, so a retirement that fails and is retried for ever cannot keep it from
scanning between two tries. None is assumed of applications or of processes that
may die; a worker thread that cannot be started excuses `SealEventuallyBuilt`.
The liveness properties have the form *eventually always*: their parts only grow
within a bound, so this says what a *leads to* for each job, child or segment says.

## Findings

Eight runs show a disagreement between the code and what one of its comments or
tests says; each checks that one statement and finds it violated.

| Run | What the code does |
|---|---|
| `pipeline_close_doc` | A job the worker has taken from the queue and not yet registered in `_current` is reported by nobody when `close()` times out; its record is written later. The docstring says every unfinished job is reported. No position is lost: `NoSilentDrop` holds. |
| `fork_lock_doc` | Two threads that fork at once share `_fork_locked`; the second one's reset leaves the allocator lock held for good. |
| `fork_slot_doc` | Two threads that fork at once share `_claim`: both children may store into one slot. The docstring says that no child races another. |
| `fork_skip_doc` | When the allocator lock stays busy for a second the fork goes on without it, inside another thread's allocation. The docstring says the lock is held across the fork. Such a child continues no segment: `ContinuedForkIsDeclared` holds. |
| `loss_flush_doc` | Two concurrent flushes share `_undelivered`; one consumes it and the other answers True for a loss that was sampled away. |
| `seal_drain_doc` | A seal whose marker the queue refuses is counted and forgotten; a drain that waited for it answers True. The docstring says *built and its marker queued*. `DrainIsHonest` states what holds: built, or counted. |
| `close_seals_doc` | `_p1_final` waits for the seals that were handed off. A segment with an outstanding position is not, so `close()` answers True with the segment unsealed. The docstring says False when a seal is still pending. `CleanCloseIsSealed` states when this can happen. |
| `spool_fsync_doc` | A directory fsync that fails after the rename makes the write a failure, hence a loss, while the file stays and is delivered. |

The properties of the fork hooks in `process` are therefore about one forking thread:
with two, `LockReleased` fails, and after it nothing else of the hooks can be relied on.

Two more were seen while modelling and have no run: on the provider path `flush` does
not look at `markers_dropped`, nor at a marker whose span could not be built; and the
temp file of the plaintext migration is not admitted (the term `Migrated` in
`SharedBound`).

## Proofs

`CapturePipelineProofs` proves, for every set of jobs, queue length, batch size
and budget that satisfies `PipelineAssumption`:

- `PipelineTypes`: `Spec => []TypeOK`;
- `PipelineOneOutcome`: `Spec => []OneOutcome`;
- `PipelineNoSilentDrop`: `Spec => []NoSilentDrop`;
- `PipelinePending`: `Spec => []PendingExact`;
- `PipelineCleanClose`: `Spec => []CleanCloseIsClean`.

None but the first is inductive: that the worker gives a job no second
outcome depends on where the job is and on who has promised it one. The
inductive invariant `IInv` (theorem `PipelineInvariant`) therefore has three parts
beside the types. `Placement` says that a job is in one place at a time: queue,
batch, popped by `close()`, or on its list. `Control` says what is empty at which
place of the worker and of `close()`. `Accounting` says that an accepted job has no
outcome while somebody still owes it one (`Owed`) and exactly one afterwards.
`OneOutcome` follows at once; `NoSilentDrop` follows because nothing is owed once
the worker has exited and `close()` has returned. `PendingInv` is carried on top of
`IInv`: the count is exact, the sets it counts are finite, and a `close()` whose flush
found the count at zero finds nothing in the queue or in the batch from then on
(`Flushed`, which needs that nothing is accepted once `_closed` is set). With it
`CleanCloseIsClean` follows from `Accounting`.

Only model-checked: all liveness properties (fairness is outside what the prover
handles); `BudgetExact`, which sums charges over a set of jobs; and the
properties of the other modules, whose proofs are planned below.

## Not modelled

Text processing (matching, protection, redaction, configuration, pseudonyms) is
sequential and turns on data: in the pipeline it is a choice of outcomes.
Reconstruction reads stored records offline. The TypeScript SDK runs on one event
loop; its content writer is left until the Python one is modelled. `fabricctl`, the
charts and the contracts have no state that processes share. The integrations
belong to the frameworks they hook. Cryptographic sealing is taken as a check that
succeeds or fails. `PROJECT.json` lists every part with its reason, and the hazards
of the parts that are planned.

## Plan

1. `Sender`: `pump`, held markers, orphan recovery, `flush` and `close` of
   `_sender.py` with the slots of `_ledger.py`. Properties: the spooled markers of
   an epoch are a prefix; a loss is in memory, in a slot or on disk at every death;
   a recovered slot is exported with the same identity; `final_durable`, which reads
   the held markers without the pump's lock, and the drain command's test for an
   empty spool never answer for a marker that is in neither place.
2. `EpochRegistration`: registration file, mirror, flock, scan and declaration.
   Property: an epoch is declared an orphan or final, and never with fewer
   positions than it allocated.
3. `SegmentTable`: scopes, segments, resume and fork; refinement of an abstract
   specification in which each position belongs to one segment, sealed once.
4. `Exchange`: retain, detach and hand-off against the budget of the pipeline.
5. `HostRecords` and the audit cursor composed over it; `ContentStore` for the
   Node's write-once files; `HostEmitterSpool`, with a directory sync that fails after
   the rename; `ByteSpool` and `SourceJournal` for the journals that record an intent
   before its effect.
6. An abstract specification of a position's life (allocated, then delivered or
   lost), implemented by `CapturePipeline` and by `SpoolRecords`.
7. Proofs: the refinement of step 6; `SealCoversSegment` and `InHandOffOrder`;
   `SharedBound`; `WrittenSurvives` and `SettledAsDelivered`; `LockReleased` for one
   forking thread.
