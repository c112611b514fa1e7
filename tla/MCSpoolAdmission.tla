-------------------------- MODULE MCSpoolAdmission --------------------------
(***************************************************************************)
(* Two writers, one with a batch of two records of two bytes and one with  *)
(* a marker of two; a bound of four, a reserve of one, receipts and        *)
(* envelopes of one byte: two records fit, a marker fits when one is a     *)
(* receipt.                                                                *)
(***************************************************************************)
EXTENDS SpoolAdmission, TLC

CONSTANTS r1, r2, r3, w1, w2

MCRecords == {r1, r2, r3}
MCWriters == {w1, w2}
MCBatchOf == (w1 :> {r1, r2}) @@ (w2 :> {r3})
MCSize == [r \in MCRecords |-> 2]

=============================================================================
