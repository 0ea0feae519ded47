------------------------------ MODULE RunSpec ------------------------------
(***************************************************************************)
(* What the Runtime promises about runs, whatever threads of control,      *)
(* cancellations and restarts lie behind it: one run is active at a time,  *)
(* a run moves along legal edges only, an interrupted run fails, and a run *)
(* that has ended is never touched again, except to be deleted.            *)
(***************************************************************************)
EXTENDS RunStates

CONSTANT Run

VARIABLE status

Init == status = [r \in Run |-> "absent"]

(* A run is admitted only while no other run is active *)
Admit(r) ==
    /\ status[r] = "absent"
    /\ \A q \in Run : status[q] \notin Active
    /\ status' = [status EXCEPT ![r] = "Created"]

Move(r, t) ==
    /\ Legal(status[r], t)
    /\ status' = [status EXCEPT ![r] = t]

(* A restart fails whatever was active *)
Interrupt ==
    status' = [r \in Run |-> IF status[r] \in Active THEN "Failed" ELSE status[r]]

(* Runs disappear only after they have ended *)
Forget(gone) ==
    /\ \A r \in gone : status[r] \in Terminal
    /\ status' = [r \in Run |-> IF r \in gone THEN "deleted" ELSE status[r]]

Next ==
    \/ \E r \in Run : Admit(r) \/ \E t \in RunStatus : Move(r, t)
    \/ Interrupt
    \/ \E gone \in SUBSET Run : Forget(gone)

Spec == Init /\ [][Next]_status
=============================================================================
