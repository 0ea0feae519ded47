---------------------------- MODULE PanelLaunch ----------------------------
(***************************************************************************)
(* The start of the Runtime by the panel (backend_launcher.ensure_runtime, *)
(* main_window._launch_worker, _poll_launch, closeEvent).  The launch runs *)
(* on a thread of its own; the window polls for its result and may be      *)
(* closed at any moment.  "Whoever spawns, reaps."                         *)
(***************************************************************************)

VARIABLES
    worker,         \* where the launch thread is
    child,          \* the Runtime process this panel spawned
    outcome,        \* LaunchResult.status, local to the thread
    box,            \* _launch_result and _launch_done: the outcome, once published
    closing,        \* the _closing event
    ui,             \* the window
    owned           \* _spawned_process is set

launchVars == <<worker, child, outcome, box, closing, ui, owned>>

LaunchInit ==
    /\ worker = "probing" /\ child = "none" /\ outcome = "none" /\ box = "none"
    /\ closing = FALSE /\ ui = "waiting" /\ owned = FALSE

\* terminate(): nothing happens to a process that has exited
Terminate(c) == IF c = "running" THEN "exited" ELSE c

\* a Runtime that answers is used; otherwise one is spawned, if it can be
Probe ==
    /\ worker = "probing"
    /\ \/ outcome' \in {"ready", "missing_interpreter"} /\ worker' = "returned" /\ UNCHANGED child
       \/ child' = "running" /\ worker' = "polling" /\ UNCHANGED outcome
    /\ UNCHANGED <<box, closing, ui, owned>>

PollChild ==
    /\ worker = "polling"
    /\ outcome' \in IF child = "running" THEN {"spawned", "timeout"} ELSE {"spawned", "failed"}
    /\ worker' = "returned"
    /\ UNCHANGED <<child, box, closing, ui, owned>>

ChildExits ==
    /\ child = "running" /\ child' = "exited"
    /\ UNCHANGED <<worker, outcome, box, closing, ui, owned>>

FirstCheck ==
    /\ worker = "returned"
    /\ IF closing THEN worker' = "finished" /\ child' = Terminate(child)
                  ELSE worker' = "publishing" /\ UNCHANGED child
    /\ UNCHANGED <<outcome, box, closing, ui, owned>>

Publish ==
    /\ worker = "publishing"
    /\ worker' = "published" /\ box' = outcome
    /\ UNCHANGED <<child, outcome, closing, ui, owned>>

SecondCheckSkipped ==
    /\ worker = "published" /\ worker' = "finished"
    /\ UNCHANGED <<child, outcome, box, closing, ui, owned>>

SecondCheck ==
    /\ worker = "published" /\ worker' = "finished"
    /\ child' = IF closing THEN Terminate(child) ELSE child
    /\ UNCHANGED <<outcome, box, closing, ui, owned>>

PollLaunch ==
    /\ ui = "waiting" /\ box # "none"
    /\ ui' = IF box \in {"ready", "spawned"} THEN "connected" ELSE "offline"
    /\ owned' = (box \in {"spawned", "timeout"})
    /\ UNCHANGED <<worker, child, outcome, box, closing>>

\* closeEvent: the event is set first, the processes are reaped after it
CloseSet ==
    /\ ui \in {"waiting", "connected", "offline"}
    /\ ui' = "closing" /\ closing' = TRUE
    /\ UNCHANGED <<worker, child, outcome, box, owned>>

CloseReap ==
    /\ ui = "closing" /\ ui' = "closed"
    /\ child' = IF owned \/ box # "none" THEN Terminate(child) ELSE child
    /\ owned' = FALSE
    /\ UNCHANGED <<worker, outcome, box, closing>>

LaunchNext ==
    \/ Probe \/ PollChild \/ ChildExits \/ FirstCheck \/ Publish \/ SecondCheck
    \/ PollLaunch \/ CloseSet \/ CloseReap

\* "Whoever spawns, reaps": when the window is closed and its launch thread has
\* ended, the Runtime it spawned is not left running, wherever between the
\* thread's two looks at _closing the window was closed.
SpawnedIsReaped ==
    ui = "closed" /\ worker = "finished" => child # "running"

=============================================================================
