------------------------------ MODULE MCSpool -------------------------------
(***************************************************************************)
(* Two views of one spool directory that share no state: the bytes its     *)
(* writers admit (see MCSpoolAdmission) and the files of its records       *)
(* through faults (see MCSpoolRecords); one of them per behaviour.         *)
(***************************************************************************)
EXTENDS MCSpoolAdmission, MCSpoolRecords

VARIABLE part  \* the component whose behaviour this is; the other stays as it starts

SpoolInit ==
  /\ AdmissionInit /\ RecordsInit /\ part \in {"admission", "records"}
  /\ part = "records" \/ \A r \in Records : wpc[r] = "new"

SpoolNext ==
  /\ UNCHANGED part
  /\ \/ part = "admission" /\ AdmissionNext /\ UNCHANGED recordVars
     \/ part = "records" /\ RecordsNext /\ UNCHANGED admissionVars

SpoolSpec == SpoolInit /\ [][SpoolNext]_<<part, admissionVars, recordVars>>

=============================================================================
