--------------------------- MODULE MCSpoolRecords ---------------------------
(***************************************************************************)
(* Two processes that share a spool, and one or two records, written by    *)
(* the first; either process may drain them.  One record goes through      *)
(* three faults, two through one that is not a power loss.                 *)
(***************************************************************************)
EXTENDS SpoolRecords, TLC

CONSTANTS a, b, p, q

OneWriter == (a :> p) @@ (b :> p)
FewFaults == (1 :> 3) @@ (2 :> 1)
FewLosses == (1 :> 3) @@ (2 :> 0)
NoFaults == (1 :> 0) @@ (2 :> 0)
SymRecords == Permutations({a, b})

=============================================================================
