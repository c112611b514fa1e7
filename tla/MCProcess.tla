----------------------------- MODULE MCProcess ------------------------------
(***************************************************************************)
(* Three parts of a capturing process that share no state: its capture     *)
(* pipeline (three jobs, see MCCapturePipeline), its fork hooks and the    *)
(* byte ledger of its spool; one of them per behaviour.                    *)
(*                                                                         *)
(* Forks: one forking thread, two that allocate, three children and two    *)
(* slots: the last child finds the ledger full.                            *)
(*                                                                         *)
(* Ledger: one record of this process and one of another, one receipt kept.*)
(* This process starts beside a drainer and may become the drainer itself; *)
(* one read may fail.                                                      *)
(***************************************************************************)
EXTENDS MCCapturePipeline, MCForkHooks, SpoolLedger

VARIABLE part  \* the component whose behaviour this is; the others stay as they start

ProcessInit ==
  /\ Init /\ ForkInit /\ LedgerInit /\ part \in {"pipeline", "forks", "ledger"}
  /\ part = "pipeline" \/ spooling

ProcessNext ==
  /\ UNCHANGED part
  /\ \/ part = "pipeline" /\ Next /\ UNCHANGED <<forkVars, ledgerVars>>
     \/ part = "forks" /\ ForkNext /\ UNCHANGED <<vars, ledgerVars>>
     \/ part = "ledger" /\ LedgerNext /\ UNCHANGED <<vars, forkVars>>

(* The fairness of FairSpec, of ForkFairSpec and of LedgerFairSpec.        *)
PipelineFair ==
  /\ WF_vars(part = "pipeline" /\ WorkerStep)
  /\ WF_vars(part = "pipeline" /\ CloseStep /\ cpc # "open")
  /\ \A j \in Jobs :
       /\ WF_vars(part = "pipeline" /\ (KeepCharge(j) \/ Submit(j) \/ DropRefused(j)))
       /\ WF_vars(part = "pipeline" /\ (Done(j) \/ Release(j)))

ForkFair == \A s \in 1 .. Slots : WF_forkVars(part = "forks" /\ ReadSlot(s))

LedgerFair ==
  /\ WF_ledgerVars(part = "ledger" /\ Threads) /\ SF_ledgerVars(part = "ledger" /\ ScanStart)
  /\ \A r \in Own : /\ WF_ledgerVars(part = "ledger" /\ WriteSteps(r))
                    /\ WF_ledgerVars(part = "ledger" /\ SettleCharge(r))

ProcessSpec ==
  /\ ProcessInit /\ [][ProcessNext]_<<part, vars, forkVars, ledgerVars>>
  /\ PipelineFair /\ ForkFair /\ LedgerFair

=============================================================================
