---------------------------- MODULE SpoolRecords ----------------------------
(***************************************************************************)
(* The life of a record file in the agent spool (sdk/python/src/fabric/    *)
(* wire/_spool.py with the drain of _sender.py): written through a temp    *)
(* file, an fsync, a rename and a directory fsync; read, exported and      *)
(* retired by the one process that holds the drain lock; acknowledged to   *)
(* its writer, when that is another process, by a receipt in its place.    *)
(*                                                                         *)
(* The disk has two layers.  entry and data are what a process sees;       *)
(* mayEntry and mayData are what each may be after a power loss, collapsed *)
(* to the present by an fsync of the directory or of the file.  Processes  *)
(* stop, die and restart; the machine may lose power.                      *)
(***************************************************************************)
EXTENDS Integers, FiniteSets

CONSTANTS
  Procs,          \* processes that share the spool
  Records,        \* record files
  WriterOf,       \* WriterOf[r]: the process that writes r
  MaxFaults,      \* MaxFaults[n]: bound on process deaths, power losses, lost answers and
                  \* damaged records in a behaviour that writes n records
  MaxLosses       \* MaxLosses[n]: bound on the power losses among them

ASSUME SpoolRecordsAssumption ==
  /\ WriterOf \in [Records -> Procs]
  /\ MaxFaults \in [1 .. Cardinality(Records) -> Nat]
  /\ MaxLosses \in [1 .. Cardinality(Records) -> Nat] /\ "none" \notin Procs

Entries == {"none", "tmp", "rec", "ack", "corrupt"}
Contents == {"blank", "full", "zero"}
InFlight == {"reserved", "written", "fsynced", "renamed", "synced"}

VARIABLES
  entry, mayEntry,  \* r's directory entry, and what it may be after a power loss
  data, mayData,    \* r's bytes, likewise
  status,           \* "up", "closed" (its sender stopped) or "down"
  wpc,              \* how far the write of r has come
  mine,             \* Spool.mine
  ownRetiring,      \* Spool._own_retiring
  looking,          \* own records a settle in progress is looking at
  holder,           \* who holds .lock
  batch,            \* records the drainer has read
  retiring,         \* Sender._retiring: exported, not yet retired
  stepped,          \* of those: renamed or unlinked, directory not fsynced yet
  accepts,          \* accepts[r]: how often the Node accepted r
  excuses,          \* excuses[r]: how often the answer to an export of r was lost, or its
                    \* drainer stopped between the answer and the retirement
  settled, failed,  \* own records a process counts delivered, or failed
  expired,          \* records whose receipt was expired
  cut,              \* records a power loss met between their retirement and its fsync
  deaths, losses, unanswered, damaged

diskVars == <<entry, mayEntry, data, mayData>>
drainVars == <<holder, batch, retiring, stepped>>
exportVars == <<accepts, excuses>>
outcomeVars == <<exportVars, settled, failed, expired, cut>>
boundVars == <<deaths, losses, unanswered, damaged>>
recordVars == <<diskVars, status, wpc, mine, ownRetiring, looking, drainVars, outcomeVars,
                boundVars>>

RecordsInit ==
  /\ entry = [r \in Records |-> "none"] /\ mayEntry = [r \in Records |-> {"none"}]
  /\ data = [r \in Records |-> "blank"] /\ mayData = [r \in Records |-> {"blank"}]
  /\ status = [p \in Procs |-> "up"]
  /\ \E used \in SUBSET Records \ {{}} :
       wpc = [r \in Records |-> IF r \in used THEN "new" ELSE "unused"]
  /\ mine = [p \in Procs |-> {}] /\ ownRetiring = [p \in Procs |-> {}]
  /\ looking = [p \in Procs |-> {}]
  /\ holder = "none" /\ batch = {} /\ retiring = {} /\ stepped = {}
  /\ accepts = [r \in Records |-> 0] /\ excuses = [r \in Records |-> 0]
  /\ expired = {} /\ cut = {}
  /\ settled = [p \in Procs |-> {}] /\ failed = [p \in Procs |-> {}]
  /\ deaths = 0 /\ losses = 0 /\ unanswered = 0 /\ damaged = {}

(* A rename, creation or unlink, on its way to the disk.                   *)
SetEntry(r, e) ==
  /\ entry' = [entry EXCEPT ![r] = e]
  /\ mayEntry' = [mayEntry EXCEPT ![r] = @ \cup {e}]

(* The effect of _sync_dir: every entry is on disk as it is.               *)
Synced(e) == [r \in Records |-> {e[r]}]

(* One more for each record of S.                                          *)
OneMore(count, S) == [r \in Records |-> IF r \in S THEN count[r] + 1 ELSE count[r]]

NumUsed == Cardinality({r \in Records : wpc[r] # "unused"})

MoreFaults == deaths + losses + unanswered + Cardinality(damaged) < MaxFaults[NumUsed]

----------------------------------------------------------------------------
(* write_batch, for one record; a capture worker may still write when the  *)
(* sender of its process has stopped                                       *)

Writing(r, from, to) ==
  /\ status[WriterOf[r]] # "down" /\ wpc[r] = from
  /\ wpc' = [wpc EXCEPT ![r] = to]

Reserve(r) ==
  /\ Writing(r, "new", "reserved")
  /\ SetEntry(r, "tmp")
  /\ data' = [data EXCEPT ![r] = "blank"] /\ mayData' = [mayData EXCEPT ![r] = {"blank"}]
  /\ UNCHANGED <<status, mine, ownRetiring, looking, drainVars, outcomeVars,
                 boundVars>>

WriteBytes(r) ==
  /\ Writing(r, "reserved", "written")
  /\ data' = [data EXCEPT ![r] = "full"]
  /\ mayData' = [mayData EXCEPT ![r] = @ \cup {"full"}]
  /\ UNCHANGED <<entry, mayEntry, status, mine, ownRetiring, looking, drainVars, outcomeVars,
                 boundVars>>

\* Variant for mutation: the file is never fsynced.
NoFsync(r) ==
  /\ Writing(r, "written", "fsynced")
  /\ UNCHANGED <<diskVars, status, mine, ownRetiring, looking, drainVars, outcomeVars,
                 boundVars>>

Fsync(r) ==
  /\ Writing(r, "written", "fsynced")
  /\ mayData' = [mayData EXCEPT ![r] = {data[r]}]
  /\ UNCHANGED <<entry, mayEntry, data, status, mine, ownRetiring, looking, drainVars, outcomeVars,
                 boundVars>>

Rename(r) ==
  /\ Writing(r, "fsynced", "renamed") /\ entry[r] = "tmp"
  /\ SetEntry(r, "rec")
  /\ UNCHANGED <<data, mayData, status, mine, ownRetiring, looking, drainVars, outcomeVars,
                 boundVars>>

SyncDir(r) ==
  /\ Writing(r, "renamed", "synced")
  /\ mayEntry' = Synced(entry)
  /\ UNCHANGED <<entry, data, mayData, status, mine, ownRetiring, looking, drainVars, outcomeVars,
                 boundVars>>

(* The name is returned: from here on the record counts as written.        *)
Written(r) ==
  /\ Writing(r, "synced", "returned")
  /\ mine' = [mine EXCEPT ![WriterOf[r]] = @ \cup {r}]
  /\ UNCHANGED <<diskVars, status, ownRetiring, looking, drainVars, outcomeVars, boundVars>>

(* fail(): any step up to the directory fsync fails and the caller is told *)
(* so; the temp file is unlinked, which may fail too, and a record already *)
(* renamed stays.                                                          *)
WriteFails(r) ==
  /\ wpc[r] \in {"reserved", "written", "fsynced", "renamed"}
  /\ Writing(r, wpc[r], "failed")
  /\ \/ entry[r] = "tmp" /\ SetEntry(r, "none")
     \/ UNCHANGED <<entry, mayEntry>>
  /\ UNCHANGED <<data, mayData, status, mine, ownRetiring, looking, drainVars, outcomeVars,
                 boundVars>>

----------------------------------------------------------------------------
(* The drain: _run, _drain, retire_many, quarantine *)

\* Variant for mutation: the lock is not exclusive.
LockAlways == TRUE

LockFree == holder = "none"

TryLock(p) ==
  /\ status[p] = "up" /\ holder # p /\ LockFree
  /\ holder' = p /\ batch' = {} /\ retiring' = {} /\ stepped' = {}
  /\ UNCHANGED <<diskVars, status, wpc, mine, ownRetiring, looking, outcomeVars, boundVars>>

\* Variant for mutation: a receipt not yet truncated is read as a record.
ReadableUnchecked(p, r) ==
  /\ holder = p /\ retiring = {} /\ r \notin batch /\ entry[r] \in {"rec", "ack"}
  /\ ~(WriterOf[r] = p /\ wpc[r] \in InFlight)

(* names(): records on disk that are not an own write in flight.  Nothing  *)
(* is read while an exported record is not retired.                        *)
Readable(p, r) ==
  /\ holder = p /\ retiring = {} /\ r \notin batch /\ entry[r] = "rec"
  /\ ~(WriterOf[r] = p /\ wpc[r] \in InFlight)

Read(p, r) ==
  /\ Readable(p, r) /\ data[r] = "full"
  /\ batch' = batch \cup {r}
  /\ UNCHANGED <<diskVars, status, wpc, mine, ownRetiring, looking, holder, retiring, stepped,
                 outcomeVars, boundVars>>

(* quarantine of a record whose frame does not verify: an own one is       *)
(* counted failed first.  The rename may fail, and the directory fsync.    *)
Quarantine(p, r) ==
  /\ Readable(p, r) /\ data[r] # "full"
  /\ mine' = [mine EXCEPT ![p] = @ \ {r}]
  /\ failed' = IF r \in mine[p] THEN [failed EXCEPT ![p] = @ \cup {r}] ELSE failed
  /\ \/ SetEntry(r, "corrupt")
     \/ entry' = [entry EXCEPT ![r] = "corrupt"] /\ mayEntry' = Synced(entry')
     \/ UNCHANGED <<entry, mayEntry>>
  /\ UNCHANGED <<data, mayData, status, wpc, ownRetiring, looking, drainVars, exportVars, settled,
                 expired, cut, boundVars>>

(* The exporter's answer for the batch.                                    *)
Export(p) ==
  /\ holder = p /\ batch # {}
  /\ accepts' = OneMore(accepts, batch)
  /\ retiring' = batch /\ batch' = {}
  /\ UNCHANGED <<diskVars, status, wpc, mine, ownRetiring, looking, holder, stepped, excuses, settled,
                 failed, expired, cut, boundVars>>

(* It is not SUCCESS: the batch stays pending, whether the Node never had  *)
(* it or accepted it and the answer was lost.                              *)
ExportFails(p) ==
  /\ holder = p /\ batch # {}
  /\ batch' = {}
  /\ \/ UNCHANGED <<exportVars, unanswered>>
     \/ /\ MoreFaults /\ unanswered' = unanswered + 1
        /\ accepts' = OneMore(accepts, batch) /\ excuses' = OneMore(excuses, batch)
  /\ UNCHANGED <<diskVars, status, wpc, mine, ownRetiring, looking, holder, retiring, stepped,
                 settled, failed, expired, cut, deaths, losses, damaged>>

(* retire_many, an own record: settled, then unlinked; when the unlink     *)
(* fails the name stays in _own_retiring and the next try unlinks it.      *)
RetireOwn(p, r) ==
  /\ holder = p /\ r \in retiring \ stepped /\ r \in mine[p] \cup ownRetiring[p]
  /\ mine' = [mine EXCEPT ![p] = @ \ {r}]
  /\ ownRetiring' = [ownRetiring EXCEPT ![p] = @ \cup {r}]
  /\ settled' = [settled EXCEPT ![p] = @ \cup {r}]
  /\ \/ SetEntry(r, "none") /\ stepped' = stepped \cup {r}
     \/ UNCHANGED <<entry, mayEntry, stepped>>
  /\ UNCHANGED <<data, mayData, status, wpc, looking, holder, batch, retiring, exportVars, failed,
                 expired, cut, boundVars>>

(* Another writer's: renamed to its receipt ...                            *)
RetireRename(p, r) ==
  /\ holder = p /\ r \in retiring \ stepped /\ r \notin mine[p] \cup ownRetiring[p]
  /\ entry[r] = "rec"
  /\ SetEntry(r, "ack")
  /\ UNCHANGED <<data, mayData, status, wpc, mine, ownRetiring, looking, drainVars, outcomeVars,
                 boundVars>>

(* ... and truncated, with an fsync, unless its writer consumed it first.  *)
RetireTruncate(p, r) ==
  /\ holder = p /\ r \in retiring \ stepped /\ r \notin mine[p] \cup ownRetiring[p]
  /\ entry[r] # "rec"
  /\ IF entry[r] = "ack"
       THEN data' = [data EXCEPT ![r] = "zero"] /\ mayData' = [mayData EXCEPT ![r] = {"zero"}]
       ELSE UNCHANGED <<data, mayData>>
  /\ stepped' = stepped \cup {r}
  /\ UNCHANGED <<entry, mayEntry, status, wpc, mine, ownRetiring, looking, holder, batch, retiring,
                 outcomeVars, boundVars>>

(* One directory fsync for the records done, a prefix when a step failed.  *)
RetireSync(p) ==
  /\ holder = p /\ stepped # {}
  /\ mayEntry' = Synced(entry)
  /\ retiring' = retiring \ stepped /\ stepped' = {}
  /\ ownRetiring' = [ownRetiring EXCEPT ![p] = @ \ stepped]
  /\ UNCHANGED <<entry, data, mayData, status, wpc, mine, looking, holder, batch, outcomeVars,
                 boundVars>>

(* It fails: nothing counts as retired, every step is tried again.         *)
RetireSyncFails(p) ==
  /\ holder = p /\ stepped # {}
  /\ stepped' = {}
  /\ UNCHANGED <<diskVars, status, wpc, mine, ownRetiring, looking, holder, batch, retiring, outcomeVars,
                 boundVars>>

(* _trim and the receipt age in rescan.                                    *)
Expire(p, r) ==
  /\ holder = p /\ entry[r] = "ack"
  /\ SetEntry(r, "none")
  /\ expired' = expired \cup {r}
  /\ UNCHANGED <<data, mayData, status, wpc, mine, ownRetiring, looking, drainVars, exportVars,
                 settled, failed, cut, boundVars>>

(* rescan finishes a truncation that a death interrupted, and removes old  *)
(* temp files.                                                             *)
FinishTruncation(p, r) ==
  /\ holder = p /\ entry[r] = "ack" /\ data[r] # "zero"
  /\ data' = [data EXCEPT ![r] = "zero"] /\ mayData' = [mayData EXCEPT ![r] = {"zero"}]
  /\ UNCHANGED <<entry, mayEntry, status, wpc, mine, ownRetiring, looking, drainVars, outcomeVars,
                 boundVars>>

RemoveTemp(p, r) ==
  /\ holder = p /\ entry[r] = "tmp" /\ wpc[r] \notin InFlight
  /\ SetEntry(r, "none")
  /\ UNCHANGED <<data, mayData, status, wpc, mine, ownRetiring, looking, drainVars, outcomeVars,
                 boundVars>>

----------------------------------------------------------------------------
(* The drainer of this process took it out of mine since.                  *)
Settled(p, r) == r \notin mine[p]

\* Variant for mutation: a disappearance is taken for a delivery.
GoneIsDelivered(r) == TRUE

(* A receipt is what proves a delivery.                                    *)
HasReceipt(r) == entry[r] = "ack"

(* settle: the records pending now ...                                     *)
SettleLook(p) ==
  /\ status[p] # "down" /\ looking[p] = {} /\ mine[p] # {}
  /\ looking' = [looking EXCEPT ![p] = mine[p]]
  /\ UNCHANGED <<diskVars, status, wpc, mine, ownRetiring, drainVars, outcomeVars, boundVars>>

(* ... each of which is still there, or gone, its receipt consumed; it is  *)
(* counted unless this process settled it meanwhile.                       *)
Settle(p, r) ==
  /\ status[p] # "down" /\ r \in looking[p]
  /\ looking' = [looking EXCEPT ![p] = @ \ {r}]
  /\ mine' = IF entry[r] = "rec" THEN mine ELSE [mine EXCEPT ![p] = @ \ {r}]
  /\ IF entry[r] = "rec" \/ Settled(p, r) THEN UNCHANGED <<settled, failed>>
     ELSE IF HasReceipt(r)
       THEN settled' = [settled EXCEPT ![p] = @ \cup {r}] /\ UNCHANGED failed
       ELSE failed' = [failed EXCEPT ![p] = @ \cup {r}] /\ UNCHANGED settled
  /\ IF entry[r] = "ack" THEN SetEntry(r, "none") ELSE UNCHANGED <<entry, mayEntry>>
  /\ UNCHANGED <<data, mayData, status, wpc, ownRetiring, drainVars, exportVars, expired, cut,
                 boundVars>>

----------------------------------------------------------------------------
\* Variant for mutation: the next drainer inherits what was not retired.
LetGoLockOnly(ps) ==
  IF holder \in ps
    THEN holder' = "none" /\ UNCHANGED <<batch, retiring, stepped, excuses>>
    ELSE UNCHANGED <<drainVars, excuses>>

(* The drain lock of p goes, with what the drainer had in memory.          *)
LetGo(ps) ==
  IF holder \in ps
    THEN /\ holder' = "none" /\ batch' = {} /\ retiring' = {} /\ stepped' = {}
         /\ excuses' = OneMore(excuses, retiring)
    ELSE UNCHANGED <<drainVars, excuses>>

(* The sender thread stops (close) and releases the lock; writes in flight *)
(* go on.                                                                  *)
Stop(p) ==
  /\ status[p] = "up"
  /\ status' = [status EXCEPT ![p] = "closed"]
  /\ LetGo({p})
  /\ UNCHANGED <<diskVars, wpc, mine, ownRetiring, looking, accepts, settled, failed, expired, cut,
                 boundVars>>

(* The processes ps end: what they knew is gone, their writes in flight    *)
(* stop where they are, and the system drops their locks.                  *)
Forget(ps) ==
  /\ status' = [p \in Procs |-> IF p \in ps THEN "down" ELSE status[p]]
  /\ mine' = [p \in Procs |-> IF p \in ps THEN {} ELSE mine[p]]
  /\ ownRetiring' = [p \in Procs |-> IF p \in ps THEN {} ELSE ownRetiring[p]]
  /\ looking' = [p \in Procs |-> IF p \in ps THEN {} ELSE looking[p]]
  /\ wpc' = [r \in Records |-> IF WriterOf[r] \in ps /\ wpc[r] \in InFlight
                                 THEN "dead" ELSE wpc[r]]
  /\ LetGo(ps)

Die(p) ==
  /\ status[p] # "down" /\ MoreFaults
  /\ deaths' = deaths + 1
  /\ Forget({p})
  /\ UNCHANGED <<diskVars, accepts, settled, failed, expired, cut, losses, unanswered, damaged>>

Outcomes(S, may) == {f \in [Records -> S] : \A r \in Records : f[r] \in may[r]}

(* Each entry and each file is left as it last may be.                     *)
PowerLoss ==
  /\ MoreFaults /\ losses < MaxLosses[NumUsed] /\ losses' = losses + 1
  /\ Forget(Procs)
  /\ \E e \in Outcomes(Entries, mayEntry), d \in Outcomes(Contents, mayData) :
       /\ entry' = e /\ mayEntry' = Synced(e)
       /\ data' = d /\ mayData' = [r \in Records |-> {d[r]}]
  /\ cut' = cut \cup {r \in Records : entry[r] # "rec" /\ "rec" \in mayEntry[r]}
  /\ UNCHANGED <<accepts, settled, failed, expired, deaths, unanswered, damaged>>

(* The medium damages a pending record.                                    *)
Damage(r) ==
  /\ entry[r] = "rec" /\ data[r] = "full" /\ MoreFaults
  /\ damaged' = damaged \cup {r}
  /\ data' = [data EXCEPT ![r] = "blank"] /\ mayData' = [mayData EXCEPT ![r] = {"blank"}]
  /\ UNCHANGED <<entry, mayEntry, status, wpc, mine, ownRetiring, looking, drainVars, outcomeVars,
                 deaths, losses, unanswered>>

(* A new process on the same volume.                                       *)
Restart(p) ==
  /\ status[p] = "down"
  /\ status' = [status EXCEPT ![p] = "up"]
  /\ UNCHANGED <<diskVars, wpc, mine, ownRetiring, looking, drainVars, outcomeVars, boundVars>>

----------------------------------------------------------------------------
RecordsNext ==
  \/ \E r \in Records :
       \/ Reserve(r) \/ WriteBytes(r) \/ Fsync(r) \/ Rename(r) \/ SyncDir(r)
       \/ Written(r) \/ WriteFails(r) \/ Damage(r)
  \/ \E p \in Procs :
       \/ TryLock(p) \/ Export(p) \/ ExportFails(p) \/ RetireSync(p) \/ RetireSyncFails(p)
       \/ Stop(p) \/ Die(p) \/ Restart(p) \/ SettleLook(p)
       \/ \E r \in Records :
            \/ Read(p, r) \/ Quarantine(p, r) \/ RetireOwn(p, r) \/ RetireRename(p, r)
            \/ RetireTruncate(p, r) \/ Expire(p, r) \/ FinishTruncation(p, r)
            \/ RemoveTemp(p, r) \/ Settle(p, r)
  \/ PowerLoss

RecordsSpec == RecordsInit /\ [][RecordsNext]_recordVars

----------------------------------------------------------------------------
(* The state's types; exported records wait for retirement only while      *)
(* someone holds the drain lock (Sender._retiring, release).               *)
RecordsTypeOK ==
  /\ entry \in [Records -> Entries] /\ mayEntry \in [Records -> SUBSET Entries]
  /\ data \in [Records -> Contents] /\ mayData \in [Records -> SUBSET Contents]
  /\ status \in [Procs -> {"up", "closed", "down"}]
  /\ wpc \in [Records -> InFlight \cup {"unused", "new", "returned", "failed", "dead"}]
  /\ mine \in [Procs -> SUBSET Records] /\ ownRetiring \in [Procs -> SUBSET Records]
  /\ looking \in [Procs -> SUBSET Records]
  /\ holder \in Procs \cup {"none"}
  /\ batch \subseteq Records /\ retiring \subseteq Records /\ stepped \subseteq retiring
  /\ (holder = "none" => batch \cup retiring = {})
  /\ settled \in [Procs -> SUBSET Records] /\ failed \in [Procs -> SUBSET Records]
  /\ accepts \in [Records -> Nat] /\ excuses \in [Records -> Nat]
  /\ expired \subseteq Records /\ cut \subseteq Records
  /\ deaths \in Nat /\ losses \in Nat /\ unanswered \in Nat /\ damaged \subseteq Records

delivered == {r \in Records : accepts[r] > 0}

(* A record whose name write_batch returned is on disk, whole and under    *)
(* its name, until the Node has accepted it: no process death and no power *)
(* loss loses it ("counts as written only after its file and the directory *)
(* were fsync'd"), only damage of the medium does.                         *)
WrittenSurvives ==
  \A r \in Records \ damaged : wpc[r] = "returned" /\ r \notin delivered =>
    entry[r] = "rec" /\ data[r] = "full"

(* settle: a writer counts a record delivered only if the Node accepted    *)
(* it, and failed only if it was not, unless its receipt was expired first *)
(* (_trim: "delivery is no longer provable") or its file was damaged after *)
(* an export whose answer was lost or whose drainer stopped.               *)
SettledAsDelivered ==
  \A p \in Procs :
    /\ settled[p] \subseteq delivered
    /\ failed[p] \cap delivered \subseteq expired \cup {r \in damaged : excuses[r] > 0}

(* A record reaches the Node once, and once more for each time the answer  *)
(* to its export was lost or its drainer stopped or died before it was     *)
(* retired: no failed or repeated retirement, no receipt and no power loss *)
(* brings a retired record back (_retire_delivered: "so it is never        *)
(* exported again"; retire_many: "a retry is idempotent").                 *)
OncePerExcuse == \A r \in Records : accepts[r] <= 1 + excuses[r]

(* A record that was delivered is never taken for corrupt, unless its file *)
(* was damaged or the machine lost power after the record left its name    *)
(* (_rename to the receipt) and before a directory fsync: then it may be   *)
(* back under its name, truncated.                                         *)
CorruptIsUndelivered ==
  \A r \in Records \ damaged : entry[r] = "corrupt" /\ r \in delivered => r \in cut

(* A record whose write was reported as failed, for which a loss is        *)
(* recorded, is not delivered as well ("never both a span and a loss").    *)
NeverBothSpanAndLoss == \A r \in Records : wpc[r] = "failed" => r \notin delivered

=============================================================================
