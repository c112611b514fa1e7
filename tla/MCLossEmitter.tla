--------------------------- MODULE MCLossEmitter ---------------------------
(***************************************************************************)
(* The merge of losses into ranges, compared with a reference definition   *)
(* for every order of up to six positions.                                 *)
(***************************************************************************)
EXTENDS LossEmitter, TLC

(* The ranges of a key after the positions of s were recorded in turn.     *)
MergedAll(k, s) == FoldLeft(LAMBDA rs, p : Merged(k, rs, <<p, p, 1>>), <<>>, s)

(* The maximal runs of consecutive members of S, in order.                 *)
Runs(S) ==
  SetToSortSeq({<<a, b, b - a + 1>> : <<a, b>> \in
                   {ab \in S \X S : /\ ab[1] .. ab[2] \subseteq S /\ ab[1] <= ab[2]
                                    /\ ab[1] - 1 \notin S /\ ab[2] + 1 \notin S}},
               LAMBDA r, t : r[1] < t[1])

(* In whatever order the positions of a segment are lost, retain keeps     *)
(* their maximal runs; outside every segment it keeps their hull and       *)
(* their number.                                                           *)
ASSUME MergeMatchesReference ==
  \A S \in SUBSET (0 .. 5) \ {{}} : \A s \in SetToSeqs(S) :
    LET hull == <<CHOOSE a \in S : \A x \in S : a <= x,
                  CHOOSE b \in S : \A x \in S : x <= b, Cardinality(S)>>
    IN MergedAll("segment", s) = Runs(S) /\ MergedAll("none", s) = <<hull>>

Sym == Permutations(Markers) \cup Permutations(Flushes)

=============================================================================
