--------------------------- MODULE SpoolAdmission ---------------------------
(***************************************************************************)
(* The shared bound of the agent spool (sdk/python/src/fabric/wire/        *)
(* _spool.py): every process that shares the directory admits a batch of   *)
(* records under one flock, against a scan of what is on disk, and         *)
(* reserves each admitted record with a temp file of its full size before  *)
(* the lock is released.  Records are renamed when written, become         *)
(* receipts when delivered, or are quarantined, always under that lock.    *)
(*                                                                         *)
(* The scan reads one directory entry per step, so that a rename beside it *)
(* would hide a file under both of its names.  A file is its record and    *)
(* the name it has now.                                                    *)
(***************************************************************************)
EXTENDS Integers, FiniteSets, FiniteSetsExt

CONSTANTS
  AdmRecords,   \* records
  Writers,      \* writing threads, of any process
  BatchOf,      \* BatchOf[w]: the records w writes as one batch
  Size,         \* Size[r]: bytes of r's file
  Receipt,      \* RECEIPT_OVERHEAD
  MaxBytes,     \* the bound
  ReserveBytes, \* what loss and marker records may exceed it by
  Reserved,     \* the loss and marker records
  Envelope,     \* what sealing adds to a record
  Migrating     \* TRUE: the drainer seals plaintext records in place

ASSUME AdmissionAssumption ==
  /\ BatchOf \in [Writers -> SUBSET AdmRecords] /\ Size \in [AdmRecords -> Nat]
  /\ \A v, w \in Writers : v # w => BatchOf[v] \cap BatchOf[w] = {}
  /\ {Receipt, MaxBytes, ReserveBytes, Envelope} \subseteq Nat
  /\ \A r \in AdmRecords : Receipt <= Size[r]
  /\ Reserved \subseteq AdmRecords /\ Migrating \in BOOLEAN

Kinds == {"tmp", "rec", "ack", "corrupt"}

VARIABLES
  name,      \* the name r's file has, or "none"
  short,     \* receipts truncated to zero
  sealing,   \* the record with a second temp file, of the migration
  sealed,    \* records the migration has sealed
  lock,      \* who holds the admission lock
  apc,       \* where each writer is
  seen,      \* entries the scan in progress has passed
  total      \* what it has counted

admissionVars == <<name, short, sealing, sealed, lock, apc, seen, total>>
fileVars == <<name, short, sealing, sealed>>
scanVars == <<lock, seen, total>>

AdmissionInit ==
  /\ name = [r \in AdmRecords |-> "none"] /\ short = {} /\ sealing = {} /\ sealed = {}
  /\ lock = "free" /\ apc = [w \in Writers |-> "new"] /\ seen = {} /\ total = 0

(* _accounted: what r's file counts for under its name.                    *)
Accounted(r) ==
  CASE name[r] = "none" -> 0
    [] name[r] = "ack" /\ r \in short -> Receipt
    [] r \in sealed -> Size[r] + Envelope
    [] OTHER -> Size[r]

----------------------------------------------------------------------------
(* write_batch *)

(* _admission: the lock, taken when it is free.                            *)
AdmitLock(w) ==
  /\ apc[w] = "new" /\ lock = "free"
  /\ lock' = w /\ seen' = {} /\ total' = 0
  /\ apc' = [apc EXCEPT ![w] = "scan"]
  /\ UNCHANGED fileVars

(* ADMIT_TIMEOUT_S passed, or the total cannot be observed: refused.       *)
AdmitBusy(w) ==
  /\ apc[w] = "new" /\ lock # "free"
  /\ apc' = [apc EXCEPT ![w] = "refused"]
  /\ UNCHANGED <<fileVars, scanVars>>

(* _shared_total, one directory entry at a time.  The names a file may     *)
(* have are passed in any order; those of another file come before or      *)
(* after them, for no step concerns the names of two files.                *)
ScanEntry(w, r, k) ==
  /\ apc[w] = "scan" /\ <<r, k>> \notin seen
  /\ \A s \in AdmRecords \ {r} :
       Cardinality({j \in Kinds : <<s, j>> \in seen}) \in {0, Cardinality(Kinds)}
  /\ seen' = seen \cup {<<r, k>>}
  /\ total' = total + (IF name[r] = k THEN Accounted(r) ELSE 0)
                    + (IF k = "tmp" /\ r \in sealing THEN Size[r] + Envelope ELSE 0)
  /\ UNCHANGED <<fileVars, lock, apc>>

\* Variant for mutation: the size of the record itself is left out.
BelowLimit(r, t) == t <= MaxBytes + (IF r \in Reserved THEN ReserveBytes ELSE 0)

(* The record still fits, given the total so far.                          *)
Fits(r, t) == t + Size[r] <= MaxBytes + (IF r \in Reserved THEN ReserveBytes ELSE 0)

(* _reserve_many: each record of the batch in turn, at its full size; a    *)
(* creation may fail too.                                                  *)
ReserveMany(w, r) ==
  /\ apc[w] = "scan" /\ seen = AdmRecords \X Kinds
  /\ r \in BatchOf[w] /\ name[r] = "none" /\ Fits(r, total)
  /\ name' = [name EXCEPT ![r] = "tmp"]
  /\ total' = total + Size[r]
  /\ UNCHANGED <<short, sealing, sealed, lock, apc, seen>>

AdmitUnlock(w) ==
  /\ apc[w] = "scan" /\ seen = AdmRecords \X Kinds
  /\ lock' = "free"
  /\ apc' = [apc EXCEPT ![w] = "write"]
  /\ UNCHANGED <<fileVars, seen, total>>

(* A write, an fsync or a rename that fails: its temp file is unlinked.    *)
ReservedFails(w, r) ==
  /\ apc[w] = "write" /\ r \in BatchOf[w] /\ name[r] = "tmp"
  /\ name' = [name EXCEPT ![r] = "none"]
  /\ UNCHANGED <<short, sealing, sealed, scanVars, apc>>

\* Variant for mutation: a rename does not take the admission lock.
RenameAnytime == TRUE

(* _rename and _rename_many hold the admission lock.                       *)
MayRename == lock = "free"

(* _rename_many; a record that failed and whose temp file could not be     *)
(* unlinked keeps that file.                                               *)
RenameBatch(w, written) ==
  /\ apc[w] = "write" /\ written \subseteq {r \in BatchOf[w] : name[r] = "tmp"}
  /\ MayRename
  /\ name' = [r \in AdmRecords |-> IF r \in written THEN "rec" ELSE name[r]]
  /\ apc' = [apc EXCEPT ![w] = "done"]
  /\ UNCHANGED <<short, sealing, sealed, scanVars>>

\* Variant for mutation: the dead process's lock is never released.
WriterDiesLocked(w) ==
  /\ apc[w] \in {"scan", "write"}
  /\ apc' = [apc EXCEPT ![w] = "dead"]
  /\ UNCHANGED <<fileVars, scanVars>>

(* The process dies: its lock is released, its temp files stay.            *)
WriterDies(w) ==
  /\ apc[w] \in {"scan", "write"}
  /\ apc' = [apc EXCEPT ![w] = "dead"]
  /\ lock' = IF lock = w THEN "free" ELSE lock
  /\ UNCHANGED <<fileVars, seen, total>>

----------------------------------------------------------------------------
(* The drainer, and a writer that settles *)

(* retire of another process's record: its receipt, then truncated.        *)
RetireToReceipt(r) ==
  /\ name[r] = "rec" /\ MayRename
  /\ name' = [name EXCEPT ![r] = "ack"]
  /\ UNCHANGED <<short, sealing, sealed, scanVars, apc>>

TruncateReceipt(r) ==
  /\ name[r] = "ack" /\ r \notin short
  /\ short' = short \cup {r}
  /\ UNCHANGED <<name, sealing, sealed, scanVars, apc>>

QuarantineFile(r) ==
  /\ name[r] = "rec" /\ MayRename
  /\ name' = [name EXCEPT ![r] = "corrupt"]
  /\ UNCHANGED <<short, sealing, sealed, scanVars, apc>>

(* An own record retired, a receipt consumed or expired, a quarantined     *)
(* record removed by the operator, a dead writer's temp file aged out.     *)
Remove(r) ==
  /\ \/ name[r] \in {"rec", "ack", "corrupt"}
     \/ name[r] = "tmp" /\ \E w \in Writers : r \in BatchOf[w] /\ apc[w] \in {"dead", "done"}
  /\ name' = [name EXCEPT ![r] = "none"]
  /\ short' = short \ {r} /\ sealed' = sealed \ {r}
  /\ UNCHANGED <<sealing, scanVars, apc>>

(* migrate_plaintext: one record at a time, the temp file created beside   *)
(* it without the admission lock and renamed over it with it.              *)
MigrateCreate(r) ==
  /\ Migrating /\ name[r] = "rec" /\ r \notin sealed /\ sealing = {}
  /\ sealing' = {r}
  /\ UNCHANGED <<name, short, sealed, scanVars, apc>>

MigrateRename(r) ==
  /\ r \in sealing /\ name[r] = "rec" /\ MayRename
  /\ sealing' = {} /\ sealed' = sealed \cup {r}
  /\ UNCHANGED <<name, short, scanVars, apc>>

(* The rename finds the lock busy, or the write fails: the temp file goes. *)
MigrateFails ==
  /\ sealing # {} /\ sealing' = {}
  /\ UNCHANGED <<name, short, sealed, scanVars, apc>>

----------------------------------------------------------------------------
AdmissionNext ==
  \/ \E w \in Writers :
       \/ AdmitLock(w) \/ AdmitBusy(w) \/ AdmitUnlock(w) \/ WriterDies(w)
       \/ \E written \in SUBSET BatchOf[w] : RenameBatch(w, written)
       \/ \E r \in AdmRecords : ReserveMany(w, r) \/ ReservedFails(w, r)
       \/ \E r \in AdmRecords, k \in Kinds : ScanEntry(w, r, k)
  \/ \E r \in AdmRecords : \/ RetireToReceipt(r) \/ TruncateReceipt(r) \/ QuarantineFile(r)
                        \/ Remove(r) \/ MigrateCreate(r) \/ MigrateRename(r)
  \/ MigrateFails

AdmissionSpec == AdmissionInit /\ [][AdmissionNext]_admissionVars

----------------------------------------------------------------------------
(* The state's types; the admission lock is held by the writer that scans. *)
AdmissionTypeOK ==
  /\ name \in [AdmRecords -> Kinds \cup {"none"}]
  /\ short \subseteq AdmRecords /\ sealing \subseteq AdmRecords /\ sealed \subseteq AdmRecords
  /\ apc \in [Writers -> {"new", "scan", "write", "done", "refused", "dead"}]
  /\ lock \in Writers \cup {"free"} /\ \A w \in Writers : lock = w <=> apc[w] = "scan"
  /\ seen \subseteq AdmRecords \X Kinds /\ total \in Nat

Copies(rs) == MapThenSumSet(LAMBDA r : Size[r] + Envelope, sealing \cap rs)
Bytes(rs) == MapThenSumSet(Accounted, rs) + Copies(rs)

(* What the migration of plaintext records may add: the envelopes of the   *)
(* records it sealed and the one copy it is making.                        *)
Migrated(rs) == Envelope * Cardinality(sealed \cap rs) + Copies(rs)

(* Whatever the processes do and wherever one dies, the files on disk stay *)
(* within the bound: exchanges and records within max_bytes, loss and      *)
(* marker records within the reserve beyond it (_reserve_many: "only while *)
(* the spool's on-disk total plus its size stays within limit").  Only     *)
(* the migration goes over it, by what it adds itself.                     *)
SharedBound ==
  /\ Bytes(AdmRecords) <= MaxBytes + ReserveBytes + Migrated(AdmRecords)
  /\ Bytes(AdmRecords \ Reserved) <= MaxBytes + Migrated(AdmRecords \ Reserved)

(* What an admission has counted when it admits is never less than what is *)
(* on disk, a copy the migration started beside the scan left aside        *)
(* (_shared_total: "the scan sees each file under one name").              *)
ScanSeesEveryFile ==
  \A w \in Writers : apc[w] = "scan" /\ seen = AdmRecords \X Kinds =>
    total + Copies(AdmRecords) >= Bytes(AdmRecords)

=============================================================================
