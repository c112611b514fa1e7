--------------------------- MODULE MCCaptureSeals ---------------------------
(***************************************************************************)
(* Two jobs in up to two segments, a queue of one, batches of two.         *)
(***************************************************************************)
EXTENDS CaptureSeals, TLC

NoCharge == [j \in Jobs |-> 0]
Sym == Permutations(Jobs) \cup Permutations(Segments)

=============================================================================
