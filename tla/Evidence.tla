------------------------------ MODULE Evidence ------------------------------
(***************************************************************************)
(* What the Runtime says about a change after it is written                *)
(* (runtime/service.py _validate_applied_changeset and                     *)
(* _record_delivery_evaluation): read-only inspection, sample-and-restore  *)
(* of parameters, a capture, the validators' verdicts                      *)
(* (modeling/validation.py), the advisory look of a vision provider        *)
(* (vision/), the durable events, and the rows a panel parses out of them  *)
(* (panel/runtime_state.py).                                               *)
(*                                                                         *)
(* Every step is an await: applies of other changes, an artist, another    *)
(* Houdini and a crash come in between, and any call to the bridge or the  *)
(* provider may fail.                                                      *)
(***************************************************************************)
EXTENDS Naturals, Sequences, FiniteSets, SequencesExt

CONSTANTS
    None,
    Change,        \* the changes whose apply is asked for
    Made,          \* change -> [nodes, containers, sources]: what its operations say
    Numeric,       \* changes that set a numeric parameter of the catalog
    MaxEdits,      \* bound: what the artist does to the scene
    MaxCrashes,    \* bound: deaths of the Runtime
    MaxJoins       \* bound: times an apply is asked for

VARIABLES
    opened,    \* the scene: which Houdini, and how often it opened a file
    facts,     \* node -> what its geometry looks like
    row,       \* the stored state of each change
    pc,        \* where the apply task of each change is
    results,   \* validator -> status, for each change
    capture,   \* the registered artifact and its framing, for each change
    vision,    \* the outcome of the router, for each change
    seen,      \* what the inspection of each change read (history)
    log,       \* the durable events
    edits, crashes, joins

vars == <<opened, facts, row, pc, results, capture, vision, seen, log, edits, crashes, joins>>
Nodes == UNION {Made[c].nodes : c \in Change}
Looks == {"gone", "unreadable", "empty", "solid"}
Bindings == [house : Nat, epoch : Nat]
Home == [house |-> 1, epoch |-> 1]           \* the scene the changes were approved for
Waiting == {"idle", "apply", "rejoin"}       \* nothing is validated yet
Open == {"approved", "applying"}             \* no receipt yet

TypeOK ==
    /\ opened \in Bindings /\ facts \in [Nodes -> Looks]
    /\ row \in [Change -> Open \cup {"applied", "failed"}]
    /\ pc \in [Change -> Waiting \cup {"inspect", "sample", "capture", "publish", "report",
                                       "evaluate", "look", "record", "done", "dropped", "lost"}]

Init ==
    /\ opened = Home /\ facts = [n \in Nodes |-> "solid"]
    /\ row = [c \in Change |-> "approved"]
    /\ pc = [c \in Change |-> "idle"]
    /\ results = [c \in Change |-> <<>>] /\ capture = [c \in Change |-> None]
    /\ vision = [c \in Change |-> None] /\ seen = [c \in Change |-> None]
    /\ log = <<>> /\ edits = 0 /\ crashes = 0 /\ joins = 0

Goto(c, from, to) == pc[c] = from /\ pc' = [pc EXCEPT ![c] = to]
Emit(e) == log' = Append(log, e)

-----------------------------------------------------------------------------
(* modeling/validation.py *)

\* Cook: every node that is not a container has readable geometry.  Geometry: what
\* nothing else reads is not empty.
ValidateAppliedScene(c, query) ==
    LET expected == Made[c].nodes \ Made[c].containers
        terminal == expected \ Made[c].sources
        verdict(ok) == IF query.at # Home THEN "Stale" ELSE IF ok THEN "Passed" ELSE "Failed"
    IN <<verdict(\A n \in expected : query.facts[n] \notin {"gone", "unreadable"}),
         verdict(\A n \in terminal : query.facts[n] = "solid")>>

\* Restored exactly, and some sample changed the geometry
ValidateSensitivity(fresh, changed, restored) ==
    CASE ~fresh -> "Stale"
      [] fresh /\ (~restored \/ ~changed) -> "Failed"
      [] OTHER -> "Passed"
ValidateCapture(framed) == IF framed THEN "Passed" ELSE "Failed"

SamplePlan(c) == c \in Numeric
CompleteUnlessFailed(rs) == \A i \in DOMAIN rs : rs[i] # "Failed"   \* mutant
Complete(rs) == \A i \in DOMAIN rs : rs[i] = "Passed"

-----------------------------------------------------------------------------
(* vision/contracts.py, vision/evaluation.py, vision/router.py.  A report's   *)
(* summary is short, or longer than a decision's may be (1025..2048).         *)

Decision(status, accepted, valid) == [status |-> status, accepted |-> accepted, valid |-> valid]
ValidDecision(d, long) ==
    /\ d.accepted => d.valid
    /\ d.status = "failed" => ~d.accepted
    /\ ~long
\* An evaluation carries its artifact, which must not be too large for a delivery
ValidEvaluation(d, report, shot) ==
    /\ ~shot.large
    /\ (d.status = "completed") = (report # None)
    /\ report # None => d.accepted = (d.valid /\ report.passed)
    /\ d.status = "failed" => ~d.accepted

Unavailable(valid) == [decision |-> Decision("unavailable", valid, valid), report |-> None]
Failed(valid) == [decision |-> Decision("failed", FALSE, valid), report |-> None]
Completed(valid, report) ==
    [decision |-> Decision("completed", valid /\ report.passed, valid), report |-> report]
\* An outcome that breaks a contract raises; the caller swallows it
Constructible(out, shot) ==
    /\ ValidDecision(out.decision, out.report # None /\ out.report.long)
    /\ ValidEvaluation(out.decision, out.report, shot)
\* deterministic_valid: what the change's own verdict said
Deterministic(c) ==
    \E i \in DOMAIN log :
        /\ log[i].change = c /\ log[i].kind \in {"completed", "unavailable"}
        /\ log[i].complete

-----------------------------------------------------------------------------
(* panel/runtime_state.py *)

ParseVisionEvent(e) ==
    /\ (e.decision.status = "completed") = (e.report # None)
    /\ e.report # None => e.decision.accepted = (e.decision.valid /\ e.report.passed)
    /\ ~e.decision.valid => ~e.decision.accepted
    /\ e.decision.status = "failed" => ~e.decision.accepted
\* The rows a panel keeps, by the position of their events
VisionRows ==
    [i \in {j \in DOMAIN log : log[j].kind = "vision"} |->
        IF ParseVisionEvent(log[i])
        THEN [change |-> log[i].change, accepted |-> log[i].decision.accepted] ELSE None]

-----------------------------------------------------------------------------
(* apply_changeset_trusted and the task behind it *)

\* _apply_changeset_task: a change loaded with no new events was validated by its owner
Validated(result) == result.events # <<>> /\ result.success
\* Nothing is validated either when no provider is configured
Returns(c, result, otherwise) ==
    \E provided \in BOOLEAN :
        pc' = [pc EXCEPT ![c] = IF provided /\ Validated(result) THEN "inspect" ELSE otherwise]

\* A task is started unless one runs: the change is begun, found half-done, or loaded
Ask(c) ==
    /\ pc[c] \in {"idle", "done", "dropped", "lost"} /\ joins < MaxJoins /\ joins' = joins + 1
    /\ \/ /\ row[c] = "approved" /\ row' = [row EXCEPT ![c] = "applying"]
          /\ pc' = [pc EXCEPT ![c] = "apply"]
       \/ row[c] = "applying" /\ pc' = [pc EXCEPT ![c] = "rejoin"] /\ UNCHANGED row
       \/ /\ row[c] \notin Open /\ UNCHANGED row
          /\ Returns(c, [events |-> <<>>, success |-> row[c] = "applied"], pc[c])
    /\ UNCHANGED <<opened, facts, results, capture, vision, seen, log, edits, crashes>>

\* The receipt came, of this task's write or of another's recovery of it
ApplyDone(c) ==
    /\ pc[c] = "apply"
    /\ \/ row[c] = "applying" /\ row' \in {[row EXCEPT ![c] = state] : state \in {"applied", "failed"}}
       \/ row[c] \notin Open /\ UNCHANGED row
    /\ Returns(c, [events |-> <<"started">>, success |-> row'[c] = "applied"], "done")
    /\ UNCHANGED <<opened, facts, results, capture, vision, seen, log, edits, crashes, joins>>

\* recover_one on a change that is found Applying: a receipt, a change to begin again,
\* or what someone else recovered, without an event of its own
Rejoined(c) ==
    /\ pc[c] = "rejoin"
    /\ \/ /\ row[c] = "applying"
          /\ row' \in {[row EXCEPT ![c] = state] : state \in {"applied", "failed"}}
          /\ Returns(c, [events |-> <<"recovered">>, success |-> row'[c] = "applied"], "done")
       \/ row[c] \in Open /\ row' = [row EXCEPT ![c] = "applying"] /\ pc' = [pc EXCEPT ![c] = "apply"]
       \/ /\ row[c] \notin Open /\ UNCHANGED row
          /\ Returns(c, [events |-> <<>>, success |-> row[c] = "applied"], "done")
    /\ UNCHANGED <<opened, facts, results, capture, vision, seen, log, edits, crashes, joins>>

\* The bridge is not there: the task raises
ApplyFails(c) ==
    /\ pc[c] \in {"apply", "rejoin"} /\ row[c] \in Open /\ pc' = [pc EXCEPT ![c] = "idle"]
    /\ UNCHANGED <<opened, facts, row, results, capture, vision, seen, log, edits, crashes, joins>>

\* recover_changesets_trusted, at the start and on demand, validates nothing
Recover(c) ==
    /\ row[c] = "applying"
    /\ row' \in {[row EXCEPT ![c] = state] : state \in {"approved", "applied", "failed"}}
    /\ UNCHANGED <<opened, facts, pc, results, capture, vision, seen, log, edits, crashes, joins>>

-----------------------------------------------------------------------------
(* _validate_applied_changeset *)

\* The bridge that is connected now answers at the epoch of the change, in whatever
\* Houdini it runs, and finds every node
Answers(c) == opened.epoch = Home.epoch /\ \A n \in Made[c].nodes : facts[n] # "gone"

\* The bridge refuses, times out or answers garbage, or a stage's own event cannot be
\* stored: modeling.validation_unavailable
GiveUp(c) ==
    /\ pc[c] \in {"inspect", "sample", "capture", "publish"}
    /\ pc' = [pc EXCEPT ![c] = "evaluate"]
    /\ Emit([kind |-> "unavailable", change |-> c, complete |-> FALSE])
    /\ UNCHANGED <<opened, facts, row, results, capture, vision, seen, edits, crashes, joins>>

\* Not even that event can be stored: the task ends with the error
VerdictIsLost(c) ==
    /\ pc[c] \in {"inspect", "sample", "capture", "publish", "report"}
    /\ pc' = [pc EXCEPT ![c] = "lost"]
    /\ UNCHANGED <<opened, facts, row, results, capture, vision, seen, log, edits, crashes, joins>>

Inspect(c) ==
    /\ Goto(c, "inspect", "sample") /\ Answers(c)
    /\ LET query == [at |-> opened, facts |-> facts] IN
         /\ seen' = [seen EXCEPT ![c] = query]
         /\ results' = [results EXCEPT ![c] = ValidateAppliedScene(c, query)]
    /\ UNCHANGED <<opened, facts, row, capture, vision, log, edits, crashes, joins>>

Sample(c) ==
    /\ Goto(c, "sample", "capture")
    /\ \/ SamplePlan(c) /\ Answers(c) /\ \E changed, restored \in BOOLEAN :
             results' = [results EXCEPT ![c] =
                 Append(@, ValidateSensitivity(opened = Home, changed, restored))]
       \/ ~SamplePlan(c) /\ UNCHANGED results
    /\ UNCHANGED <<opened, facts, row, capture, vision, seen, log, edits, crashes, joins>>

\* Captured and registered; not applicable, without a capturing provider or nodes; or a
\* Failed stage and a durable modeling.capture_failed.  The bridge compares the epoch
\* alone, and nobody compares the Houdini.
CaptureChange(c) ==
    /\ \/ /\ Goto(c, "capture", "publish") /\ Answers(c)
          /\ \E framed, large \in BOOLEAN :
                capture' = [capture EXCEPT ![c] = [framed |-> framed, large |-> large, at |-> opened]]
          /\ UNCHANGED <<results, log>>
       \/ Goto(c, "capture", "report") /\ UNCHANGED <<results, log, capture>>
       \/ /\ Goto(c, "capture", "report")
          /\ results' = [results EXCEPT ![c] = Append(@, "Failed")]
          /\ Emit([kind |-> "capture_failed", change |-> c]) /\ UNCHANGED capture
    /\ UNCHANGED <<opened, facts, row, vision, seen, edits, crashes, joins>>
Publish(c) ==
    /\ Goto(c, "publish", "report")
    /\ results' = [results EXCEPT ![c] = Append(@, ValidateCapture(capture[c].framed))]
    /\ Emit([kind |-> "captured", change |-> c])
    /\ UNCHANGED <<opened, facts, row, capture, vision, seen, edits, crashes, joins>>

Report(c) ==
    /\ Goto(c, "report", "evaluate")
    /\ Emit([kind |-> "completed", change |-> c, complete |-> Complete(results[c])])
    /\ UNCHANGED <<opened, facts, row, results, capture, vision, seen, edits, crashes, joins>>

\* _record_delivery_evaluation: nothing without a capture; then the provider's
\* capability and the artifact's bytes
Evaluate(c) ==
    /\ \/ capture[c] = None /\ Goto(c, "evaluate", "done") /\ UNCHANGED vision
       \/ capture[c] # None /\ Goto(c, "evaluate", "look") /\ UNCHANGED vision
       \/ /\ capture[c] # None /\ Goto(c, "evaluate", "record")
          /\ vision' = [vision EXCEPT ![c] = Unavailable(Deterministic(c))]
    /\ UNCHANGED <<opened, facts, row, results, capture, seen, log, edits, crashes, joins>>
\* The provider answers, times out, or answers what no report is
Look(c) ==
    /\ Goto(c, "look", "record")
    /\ \E passed, long \in BOOLEAN :
         vision' \in {[vision EXCEPT ![c] = Failed(Deterministic(c))],
                      [vision EXCEPT ![c] =
                          Completed(Deterministic(c), [passed |-> passed, long |-> long])]}
    /\ UNCHANGED <<opened, facts, row, results, capture, seen, log, edits, crashes, joins>>
Record(c) ==
    /\ Goto(c, "record", "done")
    /\ IF Constructible(vision[c], capture[c])
       THEN Emit([kind |-> "vision", change |-> c, decision |-> vision[c].decision,
                  report |-> vision[c].report])
       ELSE UNCHANGED log
    /\ UNCHANGED <<opened, facts, row, results, capture, vision, seen, edits, crashes, joins>>

\* The run, the approval or the event store fails, and the error is swallowed
Swallowed(c) ==
    /\ \/ pc[c] = "evaluate" /\ capture[c] # None
       \/ pc[c] \in {"look", "record"}
    /\ pc' = [pc EXCEPT ![c] = "dropped"]
    /\ UNCHANGED <<opened, facts, row, results, capture, vision, seen, log, edits, crashes, joins>>

-----------------------------------------------------------------------------
(* The rest of the world *)

\* A file is opened, Houdini is started again, or the artist works on a node
Edit ==
    /\ edits < MaxEdits /\ edits' = edits + 1
    /\ \/ opened' = [opened EXCEPT !.epoch = @ + 1] /\ UNCHANGED facts
       \/ opened' = [house |-> opened.house + 1, epoch |-> 1] /\ UNCHANGED facts
       \/ \E n \in Nodes, look \in Looks : facts' = [facts EXCEPT ![n] = look] /\ UNCHANGED opened
    /\ UNCHANGED <<row, pc, results, capture, vision, seen, log, crashes, joins>>
\* The tasks die with the process; the next start does not resume a validation
Crash ==
    /\ crashes < MaxCrashes /\ crashes' = crashes + 1
    /\ pc' = [c \in Change |-> IF pc[c] \in Waiting THEN "idle"
                              ELSE IF pc[c] \in {"done", "dropped"} THEN pc[c] ELSE "lost"]
    /\ UNCHANGED <<opened, facts, row, results, capture, vision, seen, log, edits, joins>>

Next ==
    \/ \E c \in Change :
         \/ Ask(c) \/ ApplyDone(c) \/ Rejoined(c) \/ ApplyFails(c) \/ Recover(c)
         \/ GiveUp(c) \/ VerdictIsLost(c) \/ Inspect(c) \/ Sample(c) \/ CaptureChange(c)
         \/ Publish(c) \/ Report(c) \/ Evaluate(c) \/ Look(c) \/ Record(c) \/ Swallowed(c)
    \/ Edit \/ Crash

Spec == Init /\ [][Next]_vars

-----------------------------------------------------------------------------
(* What must hold *)

\* A change is shown as accepted only when its deterministic evidence holds: the
\* inspection read the scene the change was approved for, every node it made cooks,
\* its outputs are not empty, no stage was stale or failed, and a well-framed picture
\* was taken at the scene epoch of the change, though perhaps of another Houdini, which
\* nobody compares.  Vision is advisory: it can withhold acceptance and never grant it.
AcceptedIsVerified ==
    \A i \in DOMAIN VisionRows : (VisionRows[i] # None /\ VisionRows[i].accepted) =>
        LET c == VisionRows[i].change
            made == Made[c].nodes \ Made[c].containers
        IN /\ seen[c].at = Home
           /\ capture[c] # None /\ capture[c].framed /\ capture[c].at.epoch = Home.epoch
           /\ \A n \in made : seen[c].facts[n] \in {"solid", "empty"}
           /\ \A n \in made \ Made[c].sources : seen[c].facts[n] = "solid"
           /\ \A k \in DOMAIN results[c] : results[c][k] = "Passed"
           /\ \E k \in DOMAIN log : log[k].change = c /\ log[k].kind = "completed" /\ log[k].complete

\* A validation that ran to its end with a capture, and in which no error was swallowed,
\* leaves an evaluation the panel's own parser accepts, in a process that shares no code
\* with the Runtime's contracts; the exceptions are a report whose summary is longer than
\* a decision's may be, and a picture larger than a delivery's.
EvaluationIsReadable ==
    /\ \A i \in DOMAIN VisionRows : VisionRows[i] # None
    /\ \A c \in Change :
          (/\ pc[c] = "done" /\ capture[c] # None /\ ~capture[c].large
           /\ ~(vision[c].report # None /\ vision[c].report.long))
              => \E i \in DOMAIN VisionRows : VisionRows[i].change = c

\* Whoever asks for an apply again, during the validation, after it or after a crash that
\* left the change half-done, adds no second verdict and no second evaluation: the log
\* tells one story of each change.
OneStoryPerChange ==
    \A i, j \in DOMAIN log :
        (log[i].change = log[j].change /\ log[i].kind = log[j].kind) => i = j
=============================================================================
