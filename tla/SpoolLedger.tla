---------------------------- MODULE SpoolLedger -----------------------------
(***************************************************************************)
(* The byte ledger of one process's Spool (sdk/python/src/fabric/wire/     *)
(* _spool.py): what each spool file is charged, by name, kept by the       *)
(* capture worker that writes records, the sender thread that retires,     *)
(* quarantines and rescans, and flush helpers that settle receipts, while  *)
(* other processes write, retire and quarantine in the same directory.     *)
(* A file is read (lstat) in one step and charged in a later one, a rename *)
(* and its ledger side are separate steps, and a rescan lists the          *)
(* directory, reads the files one by one and then replaces the ledger.     *)
(***************************************************************************)
EXTENDS Integers, FiniteSets, FiniteSetsExt

CONSTANTS
  Own,       \* records this process writes
  Foreign,   \* records other processes write
  MaxReceipts, \* Spool.max_receipts
  MaxErrors  \* bound on reads (lstat) that fail

ASSUME LedgerAssumption ==
  /\ Own \cap Foreign = {} /\ MaxReceipts \in Nat /\ MaxErrors \in Nat
  /\ "none" \notin Own

Records == Own \cup Foreign
Kinds == {"tmp", "rec", "ack", "corrupt"}
Names == Records \X Kinds
Full == 2     \* the size of a record's file
Receipt == 1  \* RECEIPT_OVERHEAD

VARIABLES
  disk,      \* the kind of name r's file has, or "none"
  short,     \* receipts truncated
  files,     \* the ledger: name -> charge (0: no entry)
  writing,   \* Spool._writing
  mine,      \* Spool.mine
  ownRetiring,  \* Spool._own_retiring
  settling,  \* the record whose receipt a settle has looked for, or "none"
  touched,   \* Spool._touched, while a rescan runs
  scanning, listed, scanned, unknown,  \* the rescan: is one running, names to read,
                                       \* what it read, whether a read failed
  holder,    \* Spool.holder: this process drains (else another one may)
  wstep,       \* where the write of an own record is
  spc,       \* what the sender thread is doing: <<step, record>>
  stat,      \* what each thread's last lstat saw
  others,    \* records another process has written, renamed or removed
  errors

retireVars == <<ownRetiring, settling>>
ledgerVars == <<disk, short, files, writing, mine, retireVars, touched, scanning, listed, scanned,
                unknown, holder, wstep, spc, stat, others, errors>>
scanVars == <<holder, scanning, listed, scanned, unknown>>
restVars == <<scanVars, spc, retireVars, others>>  \* what a write leaves alone

LedgerInit ==
  /\ disk = [r \in Records |-> "none"] /\ short = {}
  /\ files = [n \in Names |-> 0] /\ writing = {} /\ mine = {} /\ touched = {}
  /\ ownRetiring = {} /\ settling = "none"
  /\ scanning = FALSE /\ listed = {} /\ unknown = FALSE /\ scanned = [n \in Names |-> 0]
  /\ wstep = [r \in Own |-> "new"] /\ spc = <<"idle">>
  /\ stat = [t \in Own \cup {"sender"} |-> 0]
  /\ others = {} /\ errors = 0 /\ holder = FALSE

(* _accounted of an entry on disk; 0 when there is none.                   *)
OnDisk(n) == IF disk[n[1]] # n[2] THEN 0
             ELSE IF n[2] = "ack" /\ n[1] \in short THEN Receipt ELSE Full

(* An lstat fails with something else than absence.                        *)
ReadFails == errors < MaxErrors /\ errors' = errors + 1

(* _account, for several names in one step under _lock.                    *)
Account(charges) ==
  /\ files' = [n \in Names |-> IF n \in DOMAIN charges THEN charges[n] ELSE files[n]]
  /\ touched' = IF scanning THEN touched \cup DOMAIN charges ELSE touched

One(n, c) == [x \in {n} |-> c]

(* The first half of _move: dst takes over src's charge, in one step.      *)
Moved(src, dst) ==
  IF files[src] = 0 THEN [x \in {} |-> 0]
  ELSE [x \in {src, dst} |-> IF x = src THEN 0 ELSE Max({files[src], files[dst]})]

----------------------------------------------------------------------------
(* write_batch, for one own record *)

WriteStep(r, from, to) == wstep[r] = from /\ wstep' = [wstep EXCEPT ![r] = to]

\* Variant for mutation: a write in flight is charged only when it ends.
AdmitUncharged(r) ==
  /\ WriteStep(r, "new", "admitted")
  /\ writing' = writing \cup {r}
  /\ UNCHANGED <<disk, short, files, touched, mine, restVars, stat, errors>>

(* Local admission: charged at full size until the outcome is known.       *)
Admit(r) ==
  /\ WriteStep(r, "new", "admitted")
  /\ writing' = writing \cup {r}
  /\ Account(One(<<r, "rec">>, Full))
  /\ UNCHANGED <<disk, short, mine, restVars, stat, errors>>

(* Refused across processes: the charge is released.                       *)
Refused(r) ==
  /\ WriteStep(r, "admitted", "refused")
  /\ writing' = writing \ {r}
  /\ Account(One(<<r, "rec">>, 0))
  /\ UNCHANGED <<disk, short, mine, restVars, stat, errors>>

CreateTemp(r) ==
  /\ WriteStep(r, "admitted", "temp")
  /\ disk' = [disk EXCEPT ![r] = "tmp"]
  /\ UNCHANGED <<short, files, touched, writing, mine, restVars, stat, errors>>

RenameTemp(r) ==
  /\ WriteStep(r, "temp", "renamed")
  /\ disk' = [disk EXCEPT ![r] = "rec"]
  /\ UNCHANGED <<short, files, touched, writing, mine, restVars, stat, errors>>

WriteDone(r) ==
  /\ WriteStep(r, "renamed", "done")
  /\ writing' = writing \ {r} /\ mine' = mine \cup {r}
  /\ Account(One(<<r, "rec">>, Full))
  /\ UNCHANGED <<disk, short, restVars, stat, errors>>

(* fail(): the temp file is unlinked, or that fails too.                   *)
FailUnlink(r) ==
  /\ wstep[r] \in {"admitted", "temp", "renamed"} /\ WriteStep(r, wstep[r], "failing")
  /\ disk' \in {disk, [disk EXCEPT ![r] = IF @ = "tmp" THEN "none" ELSE @]}
  /\ UNCHANGED <<short, files, touched, writing, mine, restVars, stat, errors>>

(* _failed_write: is the temp file still there?  An error keeps the charge.*)
FailLook(r) ==
  /\ wstep[r] = "failing"
  /\ \/ /\ wstep' = [wstep EXCEPT ![r] = IF disk[r] = "tmp" THEN "move" ELSE "observe"]
        /\ UNCHANGED errors
     \/ wstep' = [wstep EXCEPT ![r] = "discard"] /\ ReadFails
  /\ UNCHANGED <<disk, short, files, touched, writing, mine, restVars, stat>>

(* Its charge goes to the temp name; then the temp file is read.           *)
FailMove(r) ==
  /\ WriteStep(r, "move", "stat tmp")
  /\ Account(Moved(<<r, "rec">>, <<r, "tmp">>))
  /\ UNCHANGED <<disk, short, writing, mine, restVars, stat, errors>>

(* The lstat of _move or _observe: in _move an absent file, in both an     *)
(* error, leaves the entry as it is.                                       *)
FailStat(r) ==
  /\ wstep[r] \in {"stat tmp", "observe"}
  /\ LET kind == IF wstep[r] = "stat tmp" THEN "tmp" ELSE "rec"
     IN \/ /\ kind = "rec" \/ OnDisk(<<r, kind>>) # 0
           /\ stat' = [stat EXCEPT ![r] = OnDisk(<<r, kind>>)] /\ UNCHANGED errors
           /\ wstep' = [wstep EXCEPT ![r] = IF kind = "tmp" THEN "charge tmp" ELSE "charge rec"]
        \/ /\ wstep' = [wstep EXCEPT ![r] = "discard"] /\ UNCHANGED stat
           /\ ReadFails \/ (kind = "tmp" /\ OnDisk(<<r, kind>>) = 0 /\ UNCHANGED errors)
  /\ UNCHANGED <<disk, short, files, touched, writing, mine, restVars>>

FailCharge(r) ==
  /\ wstep[r] \in {"charge tmp", "charge rec"} /\ WriteStep(r, wstep[r], "discard")
  /\ Account(One(<<r, IF wstep[r] = "charge tmp" THEN "tmp" ELSE "rec">>, stat[r]))
  /\ UNCHANGED <<disk, short, writing, mine, restVars, stat, errors>>

FailDiscard(r) ==
  /\ WriteStep(r, "discard", "failed")
  /\ writing' = writing \ {r}
  /\ UNCHANGED <<disk, short, files, touched, mine, restVars, stat, errors>>

----------------------------------------------------------------------------
(* The sender thread, while it drains *)

(* try_lock: the process that drained has let go.                          *)
TryLock ==
  /\ ~holder /\ ~scanning /\ spc = <<"idle">>
  /\ holder' = TRUE
  /\ UNCHANGED <<disk, short, files, touched, writing, mine, retireVars, scanning, listed, scanned,
                 unknown, wstep, spc, stat, others, errors>>

SenderStep(step, next, r) == spc = <<step, r>> /\ spc' = next

(* retire_many: an own record leaves mine and is unlinked; when that fails *)
(* it is still own at the next try, which finds it there or gone.          *)
RetireOwn(r) ==
  /\ holder /\ spc = <<"idle">> /\ ~scanning
  /\ r \in ownRetiring \/ (r \in mine /\ disk[r] = "rec")
  /\ mine' = mine \ {r} /\ ownRetiring' = ownRetiring \cup {r}
  /\ disk' \in {disk, [disk EXCEPT ![r] = "none"]}
  /\ spc' = <<"observe rec", r>>
  /\ UNCHANGED <<short, files, touched, writing, settling, scanVars, wstep, stat, others, errors>>

(* Another's record is renamed, a damaged one quarantined; neither while   *)
(* an exported record is not retired.  When the rename fails, a damaged    *)
(* own record has left mine all the same.                                  *)
RenameAway(r, kind) ==
  /\ holder /\ spc = <<"idle">> /\ ~scanning /\ disk[r] = "rec" /\ r \notin writing
  /\ ownRetiring = {} /\ (kind = "ack" => r \notin mine)
  /\ mine' = mine \ {r}
  /\ \/ /\ disk' = [disk EXCEPT ![r] = kind]
        /\ spc' = <<IF kind = "ack" THEN "truncate" ELSE "move corrupt", r>>
     \/ UNCHANGED <<disk, spc>>
  /\ UNCHANGED <<short, files, touched, writing, retireVars, scanVars, wstep, stat, others, errors>>

(* The receipt is truncated, which may fail.                               *)
Truncate(r) ==
  /\ SenderStep("truncate", <<"move ack", r>>, r)
  /\ short' \in {short, short \cup {r}}
  /\ UNCHANGED <<disk, files, touched, writing, mine, retireVars, scanVars, wstep, stat, others,
                 errors>>

MoveCharge(r, kind) ==
  /\ \/ kind = "ack" /\ SenderStep("move ack", <<"stat ack", r>>, r)
     \/ kind = "corrupt" /\ SenderStep("move corrupt", <<"stat corrupt", r>>, r)
  /\ Account(Moved(<<r, "rec">>, <<r, kind>>))
  /\ UNCHANGED <<disk, short, writing, mine, retireVars, scanVars, wstep, stat, others, errors>>

(* A quarantine ends here, a retirement with RetireEnd.                    *)
AfterStat(r, kind) == IF kind = "corrupt" THEN <<"idle">> ELSE <<"retired", r>>

(* The lstat that follows: of the renamed file (absent or an error: the    *)
(* charge stays), or of an own record's name (absent: charge none).        *)
SenderStat(r, kind) ==
  /\ \/ spc = <<"stat ack", r>> /\ kind = "ack"
     \/ spc = <<"stat corrupt", r>> /\ kind = "corrupt"
     \/ spc = <<"observe rec", r>> /\ kind = "rec"
  /\ \/ /\ kind = "rec" \/ OnDisk(<<r, kind>>) # 0
        /\ stat' = [stat EXCEPT !["sender"] = OnDisk(<<r, kind>>)]
        /\ spc' = <<"charge", r, kind>> /\ UNCHANGED errors
     \/ /\ spc' = AfterStat(r, kind) /\ UNCHANGED stat
        /\ ReadFails \/ (kind # "rec" /\ OnDisk(<<r, kind>>) = 0 /\ UNCHANGED errors)
  /\ UNCHANGED <<disk, short, files, touched, writing, mine, retireVars, scanVars, wstep, others>>

SenderCharge(r, kind) ==
  /\ spc = <<"charge", r, kind>> /\ spc' = AfterStat(r, kind)
  /\ Account(One(<<r, kind>>, stat["sender"]))
  /\ UNCHANGED <<disk, short, writing, mine, retireVars, scanVars, wstep, stat, others, errors>>

(* The end of retire_many: a record unlinked, with its directory fsynced,  *)
(* is done with; receipts are trimmed.                                     *)
RetireEnd(r) ==
  /\ SenderStep("retired", <<"trim">>, r)
  /\ ownRetiring' \in {ownRetiring, IF disk[r] = "none" THEN ownRetiring \ {r} ELSE ownRetiring}
  /\ UNCHANGED <<disk, short, files, touched, writing, mine, settling, scanVars, wstep, stat, others,
                 errors>>

(* _trim, after a retirement and after a rescan: of the receipts listed,   *)
(* those beyond the bound, the oldest ...                                  *)
Receipts == {n \in Names : n[2] = "ack" /\ files[n] # 0}

Trim ==
  /\ spc = <<"trim">>
  /\ LET acks == {r \in Records : disk[r] = "ack"}
         over == Cardinality(acks) - MaxReceipts
     IN IF ~holder \/ Cardinality(Receipts) <= MaxReceipts \/ over <= 0
          THEN spc' = <<"idle">>
          ELSE \E oldest \in kSubset(over, acks) : spc' = <<"expire", oldest>>
  /\ UNCHANGED <<disk, short, files, touched, writing, mine, retireVars, scanVars, wstep, stat,
                 others, errors>>

(* ... each unlinked (already gone counts too), or left when that fails,   *)
TrimUnlink(r) ==
  /\ spc[1] = "expire" /\ r \in spc[2]
  /\ \/ /\ disk' = [disk EXCEPT ![r] = IF @ = "ack" THEN "none" ELSE @] /\ short' = short \ {r}
        /\ spc' = <<"expired", spc[2] \ {r}, r>>
     \/ spc' = <<"expire", spc[2] \ {r}>> /\ UNCHANGED <<disk, short>>
  /\ UNCHANGED <<files, touched, writing, mine, retireVars, scanVars, wstep, stat, others, errors>>

(* and then no longer charged.                                             *)
TrimCharge(r) ==
  /\ spc[1] = "expired" /\ spc[3] = r /\ spc' = <<"expire", spc[2]>>
  /\ Account(One(<<r, "ack">>, 0))
  /\ UNCHANGED <<disk, short, writing, mine, retireVars, scanVars, wstep, stat, others, errors>>

TrimEnd ==
  /\ spc = <<"expire", {}>> /\ spc' = <<"idle">>
  /\ UNCHANGED <<disk, short, files, touched, writing, mine, retireVars, scanVars, wstep, stat,
                 others, errors>>

(* settle, by a flush helper or the sender thread, one at a time: an own   *)
(* record that is gone (its own drainer may be retiring it); its receipt,  *)
(* if any, is consumed ...                                                 *)
SettleUnlink(r) ==
  /\ settling = "none" /\ r \in mine \cup ownRetiring /\ disk[r] # "rec"
  /\ disk' = [disk EXCEPT ![r] = IF @ = "ack" THEN "none" ELSE @] /\ short' = short \ {r}
  /\ settling' = r
  /\ UNCHANGED <<files, touched, writing, mine, ownRetiring, scanVars, wstep, spc, stat, others,
                 errors>>

(* ... and then no longer charged.                                         *)
SettleCharge(r) ==
  /\ settling = r /\ settling' = "none"
  /\ mine' = mine \ {r}
  /\ Account(One(<<r, "ack">>, 0))
  /\ UNCHANGED <<disk, short, writing, ownRetiring, scanVars, wstep, spc, stat, others, errors>>

----------------------------------------------------------------------------
(* rescan *)

\* Variant for mutation: writes already in flight are not newer than the scan.
NothingNewer == {}

(* _touched starts as the writes in flight, under their names.             *)
NewerAtStart == {<<r, "rec">> : r \in writing}

\* Variant for mutation: one failed read makes every later scan incomplete.
ScanStartUnknown ==
  /\ ~scanning /\ spc = <<"idle">>
  /\ scanning' = TRUE /\ touched' = NewerAtStart
  /\ listed' = {n \in Names : OnDisk(n) # 0}
  /\ scanned' = [n \in Names |-> 0]
  /\ UNCHANGED <<disk, short, files, writing, mine, retireVars, holder, unknown, wstep, spc, stat,
                 others, errors>>

(* One listing of the directory.                                           *)
ScanStart ==
  /\ ~scanning /\ spc = <<"idle">>
  /\ scanning' = TRUE /\ touched' = NewerAtStart
  /\ listed' = {n \in Names : OnDisk(n) # 0}
  /\ scanned' = [n \in Names |-> 0] /\ unknown' = FALSE
  /\ UNCHANGED <<disk, short, files, writing, mine, retireVars, holder, wstep, spc, stat, others,
                 errors>>

(* One listed name: read, gone, or not readable.  The drainer truncates a  *)
(* receipt that a death left at its size, unless that fails too.           *)
ScanRead(n) ==
  /\ scanning /\ n \in listed /\ listed' = listed \ {n}
  /\ UNCHANGED disk
  /\ \/ /\ short' \in {short, IF holder /\ n[2] = "ack" /\ OnDisk(n) # 0 THEN short \cup {n[1]}
                                                                  ELSE short}
        /\ scanned' = [scanned EXCEPT ![n] = OnDisk(n)'] /\ UNCHANGED <<unknown, errors>>
     \/ unknown' = TRUE /\ ReadFails /\ UNCHANGED <<short, scanned>>
  /\ UNCHANGED <<files, writing, mine, retireVars, touched, holder, scanning, wstep, spc, stat,
                 others>>

(* The drainer removes a temp file or a receipt older than an hour; a      *)
(* write in flight is younger.                                             *)
ScanRemove(n) ==
  /\ scanning /\ holder /\ n \in listed /\ listed' = listed \ {n}
  /\ n[2] \in {"tmp", "ack"} /\ OnDisk(n) # 0 /\ n[1] \notin writing
  /\ disk' = [disk EXCEPT ![n[1]] = "none"] /\ short' = short \ {n[1]}
  /\ UNCHANGED <<files, writing, mine, retireVars, touched, holder, scanning, scanned, unknown, wstep,
                 spc, stat, others, errors>>

\* Variant for mutation: the temp file of an own write is counted as well.
CountedAsTemp(n, newer) == FALSE

(* The temp file of an own write that is charged under its own name.       *)
ChargedByName(n, newer) ==
  n[2] = "tmp" /\ <<n[1], "rec">> \in newer /\ files[<<n[1], "rec">>] # 0

(* The merge: an incomplete scan releases nothing; an own write in flight  *)
(* or changed meanwhile keeps its newer entry and is not counted again as  *)
(* its temp file.                                                          *)
ScanEnd ==
  /\ scanning /\ listed = {}
  /\ LET newer == touched \cup {<<r, "rec">> : r \in writing}
         base == [n \in Names |-> IF unknown /\ scanned[n] = 0 THEN files[n] ELSE scanned[n]]
     IN files' = [n \in Names |->
                    IF n \in newer THEN files[n]
                    ELSE IF ChargedByName(n, newer) THEN 0 ELSE base[n]]
  /\ scanning' = FALSE /\ touched' = {} /\ spc' = <<"trim">>
  /\ UNCHANGED <<disk, short, writing, mine, retireVars, holder, listed, scanned, unknown, errors,
                 wstep, stat, others>>

----------------------------------------------------------------------------
(* Other processes: write their own records; retire, quarantine or remove  *)
(* what they find, when one of them is the drainer.                        *)
OtherWrites(r) ==
  /\ r \in Foreign \ others /\ disk[r] = "none"
  /\ disk' = [disk EXCEPT ![r] = "rec"] /\ others' = others \cup {r}
  /\ UNCHANGED <<short, files, writing, mine, retireVars, touched, scanVars, wstep, spc, stat,
                 errors>>

OtherRetires(r, kind) ==
  /\ ~holder /\ disk[r] = "rec"
  /\ disk' = [disk EXCEPT ![r] = kind]
  /\ short' = IF kind = "ack" THEN short \cup {r} ELSE short
  /\ others' = others \cup {r}
  /\ UNCHANGED <<files, writing, mine, retireVars, touched, scanVars, wstep, spc, stat, errors>>

(* A receipt goes: its writer consumes it, or the other drainer expires it.*)
OtherConsumes(r) ==
  /\ disk[r] = "ack" /\ (r \in Foreign \/ ~holder)
  /\ disk' = [disk EXCEPT ![r] = "none"] /\ short' = short \ {r}
  /\ others' = others \cup {r}
  /\ UNCHANGED <<files, writing, mine, retireVars, touched, scanVars, wstep, spc, stat, errors>>

LedgerNext ==
  \/ \E r \in Own :
       \/ Admit(r) \/ Refused(r) \/ CreateTemp(r) \/ RenameTemp(r) \/ WriteDone(r)
       \/ FailUnlink(r) \/ FailLook(r) \/ FailMove(r) \/ FailStat(r) \/ FailCharge(r)
       \/ FailDiscard(r) \/ RetireOwn(r) \/ SettleUnlink(r) \/ SettleCharge(r)
  \/ \E r \in Records :
       \/ Truncate(r) \/ RetireEnd(r) \/ TrimUnlink(r) \/ TrimCharge(r)
       \/ OtherWrites(r) \/ OtherConsumes(r)
       \/ \E kind \in {"ack", "corrupt"} : RenameAway(r, kind) \/ MoveCharge(r, kind)
       \/ \E kind \in {"rec", "ack", "corrupt"} : SenderStat(r, kind) \/ SenderCharge(r, kind)
       \/ \E kind \in {"ack", "corrupt", "none"} : OtherRetires(r, kind)
  \/ TryLock \/ Trim \/ TrimEnd \/ ScanStart \/ ScanEnd
  \/ \E n \in Names : ScanRead(n) \/ ScanRemove(n)

LedgerSpec == LedgerInit /\ [][LedgerNext]_ledgerVars

(* The sender thread's loop goes on and a started write, retirement or     *)
(* settle comes to its end.  The loop rescans when its five seconds are    *)
(* over, before the next drain, however often a drain fails and is tried   *)
(* again: strong fairness of ScanStart.                                    *)
Threads ==
  \/ Trim \/ TrimEnd \/ ScanEnd \/ \E n \in Names : ScanRead(n) \/ ScanRemove(n)
  \/ \E r \in Records :
       \/ Truncate(r) \/ RetireEnd(r) \/ TrimUnlink(r) \/ TrimCharge(r)
       \/ \E kind \in Kinds : MoveCharge(r, kind) \/ SenderStat(r, kind) \/ SenderCharge(r, kind)
WriteSteps(r) ==
  \/ Refused(r) \/ CreateTemp(r) \/ RenameTemp(r) \/ WriteDone(r) \/ FailUnlink(r)
  \/ FailLook(r) \/ FailMove(r) \/ FailStat(r) \/ FailCharge(r) \/ FailDiscard(r)
LedgerFairSpec ==
  /\ LedgerSpec /\ WF_ledgerVars(Threads) /\ SF_ledgerVars(ScanStart)
  /\ \A r \in Own : WF_ledgerVars(WriteSteps(r)) /\ WF_ledgerVars(SettleCharge(r))

----------------------------------------------------------------------------
(* The state's types; a write in flight is charged at full size under its  *)
(* name until it ends or fails (write_batch).                              *)
LedgerTypeOK ==
  /\ disk \in [Records -> Kinds \cup {"none"}] /\ short \subseteq Records
  /\ files \in [Names -> 0 .. Full] /\ scanned \in [Names -> 0 .. Full]
  /\ writing \subseteq Own /\ mine \subseteq Own /\ touched \subseteq Names
  /\ ownRetiring \subseteq Own /\ settling \in Own \cup {"none"}
  /\ listed \subseteq Names /\ scanning \in BOOLEAN /\ unknown \in BOOLEAN
  /\ stat \in [Own \cup {"sender"} -> 0 .. Full] /\ others \subseteq Records
  /\ errors \in 0 .. MaxErrors /\ holder \in BOOLEAN
  /\ \A r \in Own : wstep[r] \in {"admitted", "temp", "renamed"} =>
       r \in writing /\ files[<<r, "rec">>] = Full

Charged(r) == MapThenSumSet(LAMBDA k : files[<<r, k>>], Kinds)
Bytes(r) == MapThenSumSet(LAMBDA k : OnDisk(<<r, k>>), Kinds)

(* A record this process wrote and only it has handled is never on disk    *)
(* without being charged, in any step of a write, a retirement, a          *)
(* quarantine or a rescan (_move: "neither admission nor a rescan ever     *)
(* sees the file uncharged"; _observe: an error never lowers a charge).    *)
NeverUncharged == \A r \in Own \ others : Charged(r) >= Bytes(r)

(* Nor is such a record counted twice while reads succeed, under its name  *)
(* and its temp file's or before and after a rename (rescan: "is not       *)
(* counted again as its temp file").                                       *)
NeverChargedTwice == errors = 0 => \A r \in Own \ others : Charged(r) <= Full

(* Once the directory is left alone and reads no longer fail, the rescans  *)
(* of the sender thread make the ledger equal to the disk, whatever was    *)
(* over- or undercounted before (rescan: "a later complete scan settles    *)
(* the rest").                                                             *)
LedgerConverges == <>[](\A n \in Names : files[n] = OnDisk(n))

=============================================================================
