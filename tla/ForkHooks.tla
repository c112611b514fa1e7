----------------------------- MODULE ForkHooks ------------------------------
(***************************************************************************)
(* What the SDK's fork hooks do around a fork of the host process          *)
(* (sdk/python/src/fabric/_segments.py, wire/_forks.py, _sequence.py).     *)
(* Before: the segment table takes the allocator lock, seals the run's     *)
(* open segment and names the child's, to be declared on the run's next    *)
(* segment; the fork ledger claims the child's slot in a shared map.       *)
(* After, in the parent: the lock is released and the seal requested.  In  *)
(* the child: a new lock and epoch, the segment named for it, the claimed  *)
(* slot, in which every allocation of the child is stored so that the      *)
(* parent can report it if the child is killed.                            *)
(*                                                                         *)
(* One run, whose segments are numbered in the order they open; the ones   *)
(* named for children are numbered apart.                                  *)
(*                                                                         *)
(* The hooks keep what they decide in fields of the table and the ledger,  *)
(* one set for every thread; they run as Python code, so that another      *)
(* thread may run between any two of them.                                 *)
(***************************************************************************)
EXTENDS Integers, FiniteSets, Sequences

CONSTANTS
  Forkers,   \* threads that fork
  Hosts,     \* threads that allocate
  MaxForks,  \* forks, each naming its child
  Slots,     \* number of slots of the fork ledger
  MaxAlloc,  \* allocations per process
  MaxBranches,  \* MAX_BRANCHES: children declared on one segment
  Active     \* TRUE: a run table is attached (SegmentTable.active)

ASSUME ForkAssumption ==
  /\ MaxForks \in Nat /\ Slots \in Nat /\ MaxAlloc \in Nat /\ MaxBranches \in Nat
  /\ Forkers \cap Hosts = {} /\ Active \in BOOLEAN

None == 0
Children == 1 .. MaxForks

VARIABLES
  owner,      \* who holds the allocator lock, or "free"
  pc,         \* where each thread is
  position,   \* the parent's positions
  openSegment,  \* _Run.open_segment, or None
  pendingPredecessor,  \* _Run.pending_predecessors, or None
  pendingDeclared,     \* _Run.pending_declared
  starts,     \* the run's segments: predecessor and declared children of each
  forkSealed, forkRequested,  \* segments sealed, and those whose seal was requested
  undeclared, \* declared_branches_dropped, by name
  branches,   \* child segments named (fork_branches)
  forkLocked, \* SegmentTable._fork_locked: TRUE when set
  forkPlan,   \* SegmentTable._fork of the run: <<child segment, predecessor>>, or NoPlan
  forkSeals,  \* SegmentTable._fork_seals: seals still to be requested
  claim, slotsUsed,  \* ForkLedger._claim (a slot, or None) and ._used
  slots,      \* the shared map: slot -> <<child, allocations>>
  child,      \* child -> [slot, plan, half]: what it inherited
  allocated,  \* child -> positions it allocated
  forkReported  \* child -> last position the parent reported for it

runVars == <<openSegment, pendingPredecessor, pendingDeclared, starts, undeclared, branches>>
hookVars == <<forkLocked, forkPlan, forkSeals>>
sealVars == <<forkSealed, forkRequested>>
claimVars == <<claim, slotsUsed>>
childVars == <<slots, child, allocated, forkReported>>
forkVars == <<owner, pc, position, runVars, hookVars, sealVars, claimVars, childVars>>

NoPlan == <<None, None>>
Made == DOMAIN child

ForkInit ==
  /\ owner = "free" /\ pc = [t \in Forkers \cup Hosts |-> "idle"] /\ position = 0
  /\ openSegment = None /\ pendingPredecessor = None /\ pendingDeclared = {}
  /\ starts = <<>> /\ undeclared = {} /\ branches = 0
  /\ forkSealed = {} /\ forkRequested = {}
  /\ forkLocked = FALSE /\ forkPlan = NoPlan /\ forkSeals = {}
  /\ claim = None /\ slotsUsed = 0 /\ slots = [s \in 1 .. Slots |-> <<None, 0>>]
  /\ child = <<>> /\ allocated = [c \in Children |-> 0]
  /\ forkReported = [c \in Children |-> 0]

----------------------------------------------------------------------------
(* The host's threads allocate inside the run, under the lock: a position, *)
AllocBegin(t) ==
  /\ pc[t] = "idle" /\ owner = "free" /\ position < MaxAlloc
  /\ owner' = t /\ pc' = [pc EXCEPT ![t] = "half"] /\ position' = position + 1
  /\ UNCHANGED <<runVars, hookVars, sealVars, claimVars, childVars>>

\* Variant for mutation: the branches declared so far are forgotten.
OpenUndeclared ==
  starts' = Append(starts, [pred |-> pendingPredecessor, declares |-> {}])

(* _open: a segment that continues the pending predecessor (none: the      *)
(* run's root) and declares the children named since the last one.         *)
Open == starts' = Append(starts, [pred |-> pendingPredecessor, declares |-> pendingDeclared])

(* then the run's open segment, or a new one (on_allocate).  The position  *)
(* may be the one that fills it: the segment is sealed at once             *)
(* (on_forced).                                                            *)
AllocEnd(t) ==
  /\ pc[t] = "half" /\ owner' = "free" /\ pc' = [pc EXCEPT ![t] = "idle"]
  /\ IF openSegment = None THEN Open /\ pendingDeclared' = {}
                           ELSE UNCHANGED <<starts, pendingDeclared>>
  /\ LET segment == Len(starts')
     IN \/ /\ openSegment' = segment /\ pendingPredecessor' = None
           /\ UNCHANGED sealVars
        \/ /\ openSegment' = None /\ pendingPredecessor' = segment
           /\ forkSealed' = forkSealed \cup {segment}
           /\ forkRequested' = forkRequested \cup {segment}
  /\ UNCHANGED <<position, undeclared, branches, hookVars, claimVars, childVars>>

----------------------------------------------------------------------------
(* A fork by thread t: pc counts the hooks it has run *)

Forking == {t \in Forkers : pc[t] \notin {"idle", "parent"}}
NextChild == Cardinality(Made) + 1

(* SegmentTable.before_fork: the fields of an earlier fork are reset ...   *)
BeforeReset(t) ==
  /\ pc[t] = "idle" /\ Cardinality(Made) + Cardinality(Forking) < MaxForks
  /\ forkPlan' = NoPlan /\ forkSeals' = {} /\ forkLocked' = FALSE
  /\ pc' = [pc EXCEPT ![t] = IF Active THEN "lock" ELSE "claim"]
  /\ UNCHANGED <<owner, position, runVars, sealVars, claimVars, childVars>>

LockAvailable == owner = "free"

(* _seal: the open segment, if there is one, becomes the pending           *)
(* predecessor; its seal waits for the after-hook.                         *)
SealOpen ==
  IF openSegment = None THEN UNCHANGED <<openSegment, pendingPredecessor, forkSealed, forkSeals>>
  ELSE /\ forkSealed' = forkSealed \cup {openSegment}
       /\ forkSeals' = forkSeals \cup {openSegment}
       /\ pendingPredecessor' = openSegment /\ openSegment' = None

(* The child's segment is named after the pending predecessor, sealed now  *)
(* or before, and declared on the run's next segment, up to the bound.     *)
NameBranch ==
  IF pendingPredecessor' = None THEN UNCHANGED <<forkPlan, pendingDeclared, undeclared, branches>>
  ELSE LET name == branches + 1
       IN /\ forkPlan' = <<name, pendingPredecessor'>> /\ branches' = name
          /\ IF Cardinality(pendingDeclared) < MaxBranches
               THEN pendingDeclared' = pendingDeclared \cup {name} /\ UNCHANGED undeclared
               ELSE undeclared' = undeclared \cup {name} /\ UNCHANGED pendingDeclared

(* ... the allocator lock is taken; inside the run, its open segment is    *)
(* sealed and the child's named, outside every run nothing is; ...         *)
BeforeLock(t) ==
  /\ pc[t] = "lock" /\ LockAvailable
  /\ owner' = t /\ forkLocked' = TRUE
  /\ \/ SealOpen /\ NameBranch
     \/ UNCHANGED <<openSegment, pendingPredecessor, pendingDeclared, undeclared, branches,
                    forkSealed, forkSeals, forkPlan>>
  /\ pc' = [pc EXCEPT ![t] = "claim"]
  /\ UNCHANGED <<position, starts, forkRequested, claimVars, childVars>>

(* ... or the lock stays busy for a second: the fork goes on without.      *)
BeforeSkipped(t) ==
  /\ pc[t] = "lock" /\ owner # "free"
  /\ pc' = [pc EXCEPT ![t] = "claim"]
  /\ UNCHANGED <<owner, position, runVars, hookVars, sealVars, claimVars, childVars>>

(* ForkLedger._before_fork: the slot the next child takes.                 *)
Claim(t) ==
  /\ pc[t] = "claim"
  /\ IF slotsUsed < Slots THEN claim' = slotsUsed + 1 /\ slotsUsed' = slotsUsed + 1
                          ELSE claim' = None /\ UNCHANGED slotsUsed
  /\ pc' = [pc EXCEPT ![t] = "fork"]
  /\ UNCHANGED <<owner, position, runVars, hookVars, sealVars, childVars>>

(* fork(2), and the child's hooks on its own copy of everything: it takes  *)
(* the slot and the plan it finds there; half records whether the copy was *)
(* made inside an allocation.                                              *)
DoFork(t) ==
  /\ pc[t] = "fork"
  /\ child' = Append(child, [slot |-> claim, plan |-> forkPlan,
                             half |-> \E h \in Hosts : pc[h] = "half"])
  /\ pc' = [pc EXCEPT ![t] = "parent"]
  /\ UNCHANGED <<owner, position, runVars, hookVars, sealVars, claimVars, slots, allocated,
                 forkReported>>

\* Variant for mutation: the lock is not released.
AfterKeepsLock(t) ==
  /\ pc[t] = "parent"
  /\ forkRequested' = forkRequested \cup forkSeals
  /\ forkSeals' = {} /\ forkPlan' = NoPlan /\ forkLocked' = FALSE
  /\ pc' = [pc EXCEPT ![t] = "idle"]
  /\ UNCHANGED <<owner, position, runVars, forkSealed, claimVars, childVars>>

\* Variant for mutation: the field still names the released lock.
AfterKeepsField(t) ==
  /\ pc[t] = "parent"
  /\ owner' = IF forkLocked THEN "free" ELSE owner
  /\ forkRequested' = forkRequested \cup forkSeals
  /\ forkSeals' = {} /\ forkPlan' = NoPlan
  /\ pc' = [pc EXCEPT ![t] = "idle"]
  /\ UNCHANGED <<position, runVars, forkLocked, forkSealed, claimVars, childVars>>

(* SegmentTable.after_fork_in_parent: the lock that the field names is     *)
(* released, the seals it holds requested.                                 *)
AfterInParent(t) ==
  /\ pc[t] = "parent"
  /\ owner' = IF forkLocked THEN "free" ELSE owner
  /\ forkRequested' = forkRequested \cup forkSeals
  /\ forkSeals' = {} /\ forkPlan' = NoPlan /\ forkLocked' = FALSE
  /\ pc' = [pc EXCEPT ![t] = "idle"]
  /\ UNCHANGED <<position, runVars, forkSealed, claimVars, childVars>>

----------------------------------------------------------------------------
(* In the child: each allocation is stored in its slot, under its lock.    *)
ChildAllocates(c) ==
  /\ c \in Made /\ allocated[c] < MaxAlloc
  /\ allocated' = [allocated EXCEPT ![c] = @ + 1]
  /\ slots' = IF child[c].slot = None THEN slots
              ELSE [slots EXCEPT ![child[c].slot] = <<c, allocated[c] + 1>>]
  /\ UNCHANGED <<owner, pc, position, runVars, hookVars, sealVars, claimVars, child, forkReported>>

\* Variant for mutation: the last slot given out is not read.
ReadButLast(s) ==
  /\ s < slotsUsed /\ slots[s][1] # None /\ forkReported[slots[s][1]] # slots[s][2]
  /\ forkReported' = [forkReported EXCEPT ![slots[s][1]] = slots[s][2]]
  /\ UNCHANGED <<owner, pc, position, runVars, hookVars, sealVars, claimVars, slots, child,
                 allocated>>

(* ForkLedger.children: the parent reads the slots.                        *)
ReadSlot(s) ==
  /\ s <= slotsUsed /\ slots[s][1] # None /\ forkReported[slots[s][1]] # slots[s][2]
  /\ forkReported' = [forkReported EXCEPT ![slots[s][1]] = slots[s][2]]
  /\ UNCHANGED <<owner, pc, position, runVars, hookVars, sealVars, claimVars, slots, child,
                 allocated>>

ForkNext ==
  \/ \E t \in Hosts : AllocBegin(t) \/ AllocEnd(t)
  \/ \E t \in Forkers : \/ BeforeReset(t) \/ BeforeLock(t) \/ BeforeSkipped(t) \/ Claim(t)
                        \/ DoFork(t) \/ AfterInParent(t)
  \/ \E c \in Children : ChildAllocates(c)
  \/ \E s \in 1 .. Slots : ReadSlot(s)

ForkSpec == ForkInit /\ [][ForkNext]_forkVars

(* The parent goes on reading the slots (a periodic heartbeat).            *)
ForkFairSpec == ForkSpec /\ \A s \in 1 .. Slots : WF_forkVars(ReadSlot(s))

----------------------------------------------------------------------------
(* The shape of the state: the table's field names the lock only while a   *)
(* forking thread holds it, and the slots given out are the first ones.    *)
ForkTypeOK ==
  /\ owner \in Forkers \cup Hosts \cup {"free"}
  /\ pc \in [Forkers \cup Hosts -> {"idle", "half", "lock", "claim", "fork", "parent"}]
  /\ position \in 0 .. MaxAlloc /\ Len(starts) <= position
  /\ openSegment \in {None, Len(starts)} /\ pendingPredecessor \in {None, Len(starts)}
  /\ forkSealed \subseteq DOMAIN starts /\ forkRequested \subseteq forkSealed
  /\ pendingDeclared \cup undeclared \subseteq 1 .. branches
  /\ forkLocked \in BOOLEAN /\ (forkLocked => owner \in Forkers)
  /\ forkPlan \in (0 .. branches) \X (0 .. Len(starts)) /\ forkSeals \subseteq forkSealed
  /\ slotsUsed \in 0 .. Slots /\ claim \in 0 .. slotsUsed
  /\ slots \in [1 .. Slots -> (Children \cup {None}) \X (0 .. MaxAlloc)]
  /\ child \in Seq([slot : 0 .. slotsUsed, plan : (0 .. branches) \X (0 .. Len(starts)),
                    half : BOOLEAN])
  /\ allocated \in [Children -> 0 .. MaxAlloc] /\ forkReported \in [Children -> 0 .. MaxAlloc]

(* The allocator lock is held only by a thread that is allocating or       *)
(* between its before- and after-fork hooks: no fork leaves it locked      *)
(* (after_fork_in_parent: "Release the lock"), for every later allocation  *)
(* of the process would wait for it.                                       *)
LockReleased ==
  \A t \in Forkers \cup Hosts : owner = t => pc[t] # "idle"

(* Each child that holds a slot finds its own positions in it: no other    *)
(* child writes there (_forks.py 9: "assigned in the parent's before-fork  *)
(* hook, so no child races another").                                      *)
SlotHoldsItsChild ==
  \A c \in Made : child[c].slot # None /\ allocated[c] > 0 =>
    slots[child[c].slot] = <<c, allocated[c]>>

(* No child is forked inside an allocation of its parent (before_fork:     *)
(* "The allocator lock is held across the fork, so no allocation is half   *)
(* done in the child").                                                    *)
NoHalfDoneAllocation == \A c \in Made : ~child[c].half

(* A child that continues the run in a segment of its own was not forked   *)
(* inside an allocation, even when other forks gave up on the lock; the    *)
(* segment it continues was sealed, by this fork or before it, and its     *)
(* seal is requested or waits for the after-hook; and the parent's segment *)
(* that continues the same predecessor declares the child's, or will when  *)
(* it opens, or the name was counted as dropped (before_fork: "declare C   *)
(* on the parent's next segment").                                         *)
ContinuedForkIsDeclared ==
  \A c \in Made : LET name == child[c].plan[1]
                       pred == child[c].plan[2]
                   IN name # None =>
    /\ ~child[c].half
    /\ pred \in forkRequested \cup forkSeals
    /\ \/ name \in pendingDeclared /\ pendingPredecessor = pred
       \/ name \in undeclared
       \/ \E n \in DOMAIN starts : starts[n].pred = pred /\ name \in starts[n].declares

(* The last position a child with a slot allocated is reported by the      *)
(* parent in the end, even if the child never wrote a record.              *)
ChildEventuallyReported ==
  <>[](\A c \in Children : c \in Made /\ child[c].slot # None /\ allocated[c] > 0
         => forkReported[c] = allocated[c])

=============================================================================
