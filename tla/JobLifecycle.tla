---------------------------- MODULE JobLifecycle ----------------------------
(***************************************************************************)
(* What the frontend promises about one job record, whatever the model     *)
(* integration behind it does.  A record appears either queued or already  *)
(* failed (a rejected request), moves forward only, reaches at most one    *)
(* terminal phase, keeps that phase for as long as it is retained, and is  *)
(* forgotten only once it is terminal.                                     *)
(***************************************************************************)
CONSTANT JobIds      \* identifiers a host may submit

VARIABLE phase       \* phase of every record, "none" where there is no record

Live == {"queued", "running"}
Terminal == {"completed", "failed", "cancelled"}
Phases == {"none"} \cup Live \cup Terminal

(* Types: one phase per identifier.                                        *)
TypeOK == phase \in [JobIds -> Phases]

Init == phase = [i \in JobIds |-> "none"]

(* What one step may do to one record.                                     *)
Forward(from, to) ==
  \/ to = from
  \/ from = "none" /\ to \in {"queued", "failed"}
  \/ from \in Live /\ to \in Terminal \cup {"running"}
  \/ from \in Terminal /\ to = "none"

(* A step opens at most one record: two submissions are never merged.      *)
Opened == {i \in JobIds : phase[i] = "none" /\ phase'[i] # "none"}

Next ==
  /\ phase' \in [JobIds -> Phases]
  /\ \A i \in JobIds : Forward(phase[i], phase'[i])
  /\ \A i, j \in Opened : i = j

Spec == Init /\ [][Next]_phase
=============================================================================
