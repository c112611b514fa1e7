---------------------------- MODULE MCForkHooks -----------------------------
(***************************************************************************)
(* One or two forking threads, two that allocate, three children and two   *)
(* slots: the last child finds the ledger full.                            *)
(***************************************************************************)
EXTENDS ForkHooks

=============================================================================
