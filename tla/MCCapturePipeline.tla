-------------------------- MODULE MCCapturePipeline --------------------------
(***************************************************************************)
(* Three positions and a queue of two: one job can be refused, one queued  *)
(* and one in the worker's hands; a batch of two can be half claimed by    *)
(* close().  The budget of four admits one of the two charges that are not *)
(* zero, unless the other's has been corrected to what it holds encoded.   *)
(***************************************************************************)
EXTENDS CapturePipeline, TLC

CONSTANTS j1, j2, j3

MCJobs == {j1, j2, j3}
MCCharge == (j1 :> 3) @@ (j2 :> 2) @@ (j3 :> 0)
MCActual == (j1 :> 1) @@ (j2 :> 0) @@ (j3 :> 0)

=============================================================================
