----------------------------- MODULE RunStates -----------------------------
(* The run statuses of eee_agent/runtime/models.py and the edges between   *)
(* them.  "absent" is a run that has no row yet, "deleted" one whose row   *)
(* went with its session.                                                  *)

Terminal == {"Completed", "Cancelled", "Failed"}
Active == {"Created", "PreparingContext", "Planning", "Retrying",
           "Finalizing", "StopRequested", "Stopping"}
RunStatus == Active \cup Terminal
RowState == RunStatus \cup {"absent", "deleted"}

(* Bug: a run may be stopped after it has completed *)
MutLegal(s, t) ==
    \/ s = "Created" /\ t \in {"PreparingContext", "StopRequested", "Failed"}
    \/ s = "PreparingContext"
         /\ t \in {"Planning", "StopRequested", "Retrying", "Failed"}
    \/ s = "Planning"
         /\ t \in {"Finalizing", "StopRequested", "Retrying", "Failed"}
    \/ s = "Retrying"
         /\ t \in {"PreparingContext", "Planning", "StopRequested", "Failed"}
    \/ s = "Finalizing" /\ t \in {"Completed", "StopRequested", "Failed"}
    \/ s = "StopRequested" /\ t = "Stopping"
    \/ s = "Stopping" /\ t \in {"Cancelled", "Failed"}
    \/ s = "Completed" /\ t = "StopRequested"

(* _LEGAL_TRANSITIONS, the relation require_transition checks *)
Legal(s, t) ==
    \/ s = "Created" /\ t \in {"PreparingContext", "StopRequested", "Failed"}
    \/ s = "PreparingContext"
         /\ t \in {"Planning", "StopRequested", "Retrying", "Failed"}
    \/ s = "Planning"
         /\ t \in {"Finalizing", "StopRequested", "Retrying", "Failed"}
    \/ s = "Retrying"
         /\ t \in {"PreparingContext", "Planning", "StopRequested", "Failed"}
    \/ s = "Finalizing" /\ t \in {"Completed", "StopRequested", "Failed"}
    \/ s = "StopRequested" /\ t = "Stopping"
    \/ s = "Stopping" /\ t \in {"Cancelled", "Failed"}
=============================================================================
