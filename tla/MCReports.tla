----------------------------- MODULE MCReports ------------------------------
(***************************************************************************)
(* What a process reports beside its records: losses and markers, and the  *)
(* seals of its segments.  A behaviour is one of the seals, or one of the  *)
(* loss emitter with a workload:                                           *)
(*  - ranges: positions 0, 1, 2 of a segment and one outside, two ranges   *)
(*    at most: 0, 2, 1 joins two ranges into one, and the third range, of  *)
(*    either key, is refused;                                              *)
(*  - markers: three, two of which the queue holds;                        *)
(*  - both, and with the heartbeat of a source; a forked child has one at  *)
(*    any drain.                                                           *)
(* One flush runs beside the background thread.                            *)
(*                                                                         *)
(* Seals: three segments, two positions.  A segment with both is forced;   *)
(* two seals may wait, with one position between them, and as many may     *)
(* wait for the reclaimer, one with a position.  An unbounded drain builds *)
(* seals itself beside the worker; a bounded one may time out; a thread    *)
(* may fail to start.                                                      *)
(***************************************************************************)
EXTENDS MCLossEmitter, MCSegmentSeals

CONSTANTS m1, m2, m3, src, child

VARIABLE part  \* which behaviour this is; the other component stays as it starts

Workload ==
  CASE part = "ranges" -> {0, 1, 2, 5}
    [] part = "markers" -> {m1, m2, m3}
    [] part = "both" -> {0, 2, m1}
    [] part = "sources" -> {0, m1, src, child}
    [] part = "seals" -> {}

(* The markers are alike, and named in the order they are queued.          *)
InWorkload ==
  /\ recorded \cup Range(queued) \cup droppedMarkers \cup {s \in Sources : active[s] # "none"}
       \cup (UNION {Range(hand[t]) : t \in LossDrainers} \cap Children) \subseteq Workload
  /\ InOrder(<<m1, m2, m3>>, Range(queued) \cup droppedMarkers)

ReportsInit ==
  /\ LossInit /\ SealInit /\ part \in {"ranges", "markers", "both", "sources", "seals"}

ReportsNext ==
  /\ UNCHANGED part
  /\ \/ part # "seals" /\ LossNext /\ InWorkload' /\ UNCHANGED sealVars
     \/ part = "seals" /\ MCSealNext /\ UNCHANGED lossVars

ReportsSpec ==
  /\ ReportsInit /\ [][ReportsNext]_<<part, lossVars, sealVars>>
  /\ WF_lossVars(part # "seals" /\ ThreadStep)
  /\ \A f \in Flushes : WF_lossVars(part # "seals" /\ HelperStep(f))
  /\ WF_sealVars(part = "seals" /\ BuildSteps)

=============================================================================
