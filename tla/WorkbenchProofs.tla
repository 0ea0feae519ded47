--------------------------- MODULE WorkbenchProofs ---------------------------
(***************************************************************************)
(* Proofs about the parts the artist works with: the launch of the Runtime *)
(* by the panel (no child is left behind), the evidence that a modeling    *)
(* run is accepted on (nothing is accepted that was not measured), and the *)
(* knowledge index (a name resolves to the page that carries it).          *)
(***************************************************************************)
EXTENDS MCWorkbench, TLAPS

-----------------------------------------------------------------------------
(* The launch of the Runtime *)

\* Who answers for a running child in each position of the thread and of the window
LaunchInv ==
    /\ closing \in BOOLEAN
    /\ worker \in {"probing", "polling", "returned", "publishing", "published", "finished"}
    /\ ui \in {"waiting", "connected", "offline", "closing", "closed"}
    /\ ui \in {"closing", "closed"} => closing
    /\ worker = "published" => box # "none"
    /\ worker \in {"returned", "publishing"} => outcome # "none"
    /\ worker = "finished" /\ ui # "closed" /\ child = "running" => box # "none"
    /\ worker = "finished" /\ ui = "closed" => child # "running"

\* The launch begins with no child at all
LEMMA LaunchStarts == L!LaunchInit => LaunchInv
BY DEF L!LaunchInit, LaunchInv

\* Every step of the thread, of the window and of the child
LEMMA LaunchStep == LaunchInv /\ L!LaunchNext => LaunchInv'
<1>. SUFFICES ASSUME LaunchInv, L!LaunchNext PROVE LaunchInv'
  OBVIOUS
<1>. USE DEF LaunchInv
<1>1. CASE L!Probe
  BY <1>1 DEF L!Probe
<1>2. CASE L!PollChild
  BY <1>2 DEF L!PollChild
<1>3. CASE L!ChildExits
  BY <1>3 DEF L!ChildExits
<1>4. CASE L!FirstCheck
  BY <1>4 DEF L!FirstCheck, L!Terminate
<1>5. CASE L!Publish
  BY <1>5 DEF L!Publish
<1>6. CASE L!SecondCheck
  BY <1>6 DEF L!SecondCheck, L!Terminate
<1>7. CASE L!PollLaunch
  BY <1>7 DEF L!PollLaunch
<1>8. CASE L!CloseSet
  BY <1>8 DEF L!CloseSet
<1>9. CASE L!CloseReap
  BY <1>9 DEF L!CloseReap, L!Terminate
<1>. QED
  BY <1>1, <1>2, <1>3, <1>4, <1>5, <1>6, <1>7, <1>8, <1>9 DEF L!LaunchNext

\* backend_launcher: "whoever spawns, reaps".
THEOREM SpawnedOneIsReaped == MCSpec => []SpawnedIsReaped
<1>1. MCInit => LaunchInv
  BY LaunchStarts DEF MCInit
<1>2. LaunchInv /\ [MCNext]_<<part, vars, launchVars, agentVars, compilerVars, evidenceVars,
                           knowledgeVars>> => LaunchInv'
  BY LaunchStep DEF MCNext, LaunchInv, launchVars
<1>3. LaunchInv => SpawnedIsReaped
  BY DEF LaunchInv, SpawnedIsReaped, L!SpawnedIsReaped
<1>. QED
  BY <1>1, <1>2, <1>3, PTL DEF MCSpec

-----------------------------------------------------------------------------
(* The evidence of an applied change *)

\* What the inspection of a change must have read for its verdict to be complete
SoundReading(c) ==
    LET made == Made[c].nodes \ Made[c].containers
    IN /\ seen[c].at = E!Home
       /\ capture[c] # None => capture[c].framed
       /\ \A n \in made : seen[c].facts[n] \in {"solid", "empty"}
       /\ \A n \in made \ Made[c].sources : seen[c].facts[n] = "solid"

Readings == [at : E!Bindings, facts : [E!Nodes -> E!Looks]]
Statuses == {"Passed", "Failed", "Stale"}
Kinds == {"completed", "unavailable", "captured", "capture_failed", "vision"}
Reports == [passed : BOOLEAN, long : BOOLEAN]
Decisions == [status : {"unavailable", "failed", "completed"}, accepted : BOOLEAN, valid : BOOLEAN]

EvidenceTypes ==
    /\ E!TypeOK
    /\ DOMAIN results = Change /\ DOMAIN seen = Change
    /\ DOMAIN capture = Change /\ DOMAIN vision = Change
    /\ \A c \in Change : results[c] \in Seq(Statuses)

IsSeq(l) == l \in Seq({l[i] : i \in DOMAIN l})
LogTypes ==
    /\ IsSeq(log)
    /\ \A i \in DOMAIN log : log[i].change \in Change /\ log[i].kind \in Kinds

\* Where a change is once each kind of event has been told of it
After(kind) ==
    IF kind = "vision" THEN {"done", "dropped", "lost"}
    ELSE IF kind \in {"completed", "unavailable"}
         THEN {"evaluate", "look", "record", "done", "dropped", "lost"}
    ELSE {"report", "evaluate", "look", "record", "done", "dropped", "lost"}
ToldInOrder == \A i \in DOMAIN log : pc[log[i].change] \in After(log[i].kind)

Story == LogTypes /\ ToldInOrder /\ E!OneStoryPerChange

\* Between the inspection and the verdict the first two results are of what was read
ResultsOfReading ==
    \A c \in Change : pc[c] \in {"sample", "capture", "publish", "report"} =>
        /\ seen[c] \in Readings
        /\ Len(results[c]) >= 2
        /\ results[c][1] = E!ValidateAppliedScene(c, seen[c])[1]
        /\ results[c][2] = E!ValidateAppliedScene(c, seen[c])[2]

\* A complete verdict rests on a sound reading and on stages that all passed
VerdictsTyped ==
    \A i \in DOMAIN log :
        /\ log[i].kind = "unavailable" => log[i].complete = FALSE
        /\ log[i].kind = "completed" => log[i].complete \in BOOLEAN
VerdictsSound ==
    \A c \in Change, i \in DOMAIN log :
        log[i].change = c /\ log[i].kind = "completed" /\ log[i].complete = TRUE =>
            SoundReading(c) /\ E!Complete(results[c])
VerdictsHold == VerdictsTyped /\ VerdictsSound

\* What the router made of a change, on its way into the log
GoodOutcome(out) ==
    /\ out.decision \in Decisions
    /\ out.report # None => out.report \in Reports
    /\ \A shot : (out.report = None \/ ~out.report.long) /\ ~shot.large => E!Constructible(out, shot)
OutcomesHold ==
    \A c \in Change :
        /\ pc[c] \in E!Waiting => capture[c] = None
        /\ pc[c] = "look" => capture[c] # None
        /\ pc[c] = "record" =>
              /\ capture[c] # None /\ GoodOutcome(vision[c])
              /\ vision[c].decision.valid => E!Deterministic(c)

\* An evaluation in the log is one the panel parses, and no more accepted than its verdict
EvaluationsParse ==
    \A i \in DOMAIN log : log[i].kind = "vision" =>
        log[i].decision \in Decisions /\ E!ParseVisionEvent(log[i])
EvaluationsRest ==
    \A c \in Change, i \in DOMAIN log :
        log[i].kind = "vision" /\ log[i].change = c /\ log[i].decision.accepted =>
            E!Deterministic(c)
EvaluationsTold ==
    \A c \in Change :
        pc[c] = "done" /\ capture[c] # None /\ ~capture[c].large
              /\ ~(vision[c].report # None /\ vision[c].report.long)
            => \E i \in DOMAIN log : log[i].kind = "vision" /\ log[i].change = c
EvaluationsHold == EvaluationsParse /\ EvaluationsRest /\ EvaluationsTold

\* A picture is taken after the inspection and the samples, at the epoch of the change, its
\* framing is among the results, and an evaluation is of a picture
Unshot == {"inspect", "sample", "capture"}
ShotsTaken ==
    \A c \in Change :
        /\ pc[c] \in Unshot => capture[c] = None
        /\ capture[c] # None => capture[c].at.epoch = 1
        /\ pc[c] = "report" /\ capture[c] # None =>
              \E k \in DOMAIN results[c] : results[c][k] = E!ValidateCapture(capture[c].framed)
ShotsTold == \A i \in DOMAIN log : log[i].kind = "vision" => capture[log[i].change] # None
ShotsHold == ShotsTaken /\ ShotsTold

\* A change without a receipt is not validated
RowsHold == \A c \in Change : row[c] \in E!Open => pc[c] \in E!Waiting

EvidenceInv ==
    /\ EvidenceTypes /\ Story /\ ResultsOfReading
    /\ VerdictsHold /\ OutcomesHold /\ EvaluationsHold /\ ShotsHold /\ RowsHold

\* A longer log: the old entries keep their places and the new one is the last
LEMMA LongerLog ==
    ASSUME NEW old, NEW e, IsSeq(old), NEW new, new = Append(old, e)
    PROVE  /\ IsSeq(new)
           /\ Len(old) \in Nat /\ DOMAIN old = 1..Len(old) /\ DOMAIN new = 1..(Len(old) + 1)
           /\ \A i \in DOMAIN old : new[i] = old[i]
           /\ new[Len(old) + 1] = e
<1>. DEFINE T == {old[i] : i \in DOMAIN old} \cup {e}
<1>1. old \in Seq(T)
  BY DEF IsSeq
<1>2. new \in Seq(T) /\ Len(new) = Len(old) + 1
  BY <1>1
<1>3. /\ Len(old) \in Nat /\ DOMAIN old = 1..Len(old) /\ DOMAIN new = 1..(Len(old) + 1)
      /\ \A i \in DOMAIN old : new[i] = old[i]
      /\ new[Len(old) + 1] = e
  BY <1>1, <1>2
<1>4. IsSeq(new)
  BY <1>2 DEF IsSeq
<1>. QED
  BY <1>3, <1>4

Places == {"idle", "apply", "rejoin", "inspect", "sample", "capture", "publish", "report",
           "evaluate", "look", "record", "done", "dropped", "lost"}
\* A step moves a change forward: where it was told of something, it still was
Forward == /\ pc' \in [Change -> Places]
           /\ \A c \in Change, kind \in Kinds : pc[c] \in After(kind) => pc'[c] \in After(kind)

\* A step that tells nothing
LEMMA Quiet ==
    ASSUME EvidenceInv, Forward, log' = log
    PROVE  Story' /\ \A c \in Change : E!Deterministic(c)' <=> E!Deterministic(c)
<1>1. LogTypes'
  BY DEF EvidenceInv, Story, LogTypes
<1>2. ToldInOrder'
  BY DEF EvidenceInv, Story, LogTypes, ToldInOrder, Forward
<1>3. E!OneStoryPerChange'
  BY DEF EvidenceInv, Story, E!OneStoryPerChange
<1>4. \A c \in Change : E!Deterministic(c)' <=> E!Deterministic(c)
  BY DEF E!Deterministic
<1>. QED
  BY <1>1, <1>2, <1>3, <1>4 DEF Story

\* A step that tells what was not told before
LEMMA Told ==
    ASSUME EvidenceInv, Forward, NEW c \in Change, NEW e, e.change = c, e.kind \in Kinds,
           log' = Append(log, e), pc[c] \notin After(e.kind), pc'[c] \in After(e.kind)
    PROVE  /\ Story' /\ \A d \in Change : E!Deterministic(d) => E!Deterministic(d)'
           /\ Len(log) \in Nat /\ DOMAIN log = 1..Len(log) /\ DOMAIN log' = 1..(Len(log) + 1)
           /\ \A i \in DOMAIN log : log'[i] = log[i]
           /\ log'[Len(log) + 1] = e
<1>1. /\ IsSeq(log')
      /\ Len(log) \in Nat /\ DOMAIN log = 1..Len(log) /\ DOMAIN log' = 1..(Len(log) + 1)
      /\ \A i \in DOMAIN log : log'[i] = log[i]
      /\ log'[Len(log) + 1] = e
  <2>1. IsSeq(log)
    BY DEF EvidenceInv, Story, LogTypes
  <2>2. IsSeq(log')
    BY <2>1, LongerLog
  <2>3. Len(log) \in Nat /\ DOMAIN log = 1..Len(log) /\ DOMAIN log' = 1..(Len(log) + 1)
    BY <2>1, LongerLog
  <2>4. \A i \in DOMAIN log : log'[i] = log[i]
    BY <2>1, LongerLog
  <2>5. log'[Len(log) + 1] = e
    BY <2>1, LongerLog
  <2>. QED
    BY <2>2, <2>3, <2>4, <2>5
<1>2. \A i \in DOMAIN log' : i \in DOMAIN log \/ i = Len(log) + 1
  BY <1>1
<1>3. LogTypes'
  BY <1>1, <1>2 DEF EvidenceInv, Story, LogTypes
<1>4. ToldInOrder'
  <2>1. SUFFICES ASSUME NEW i \in DOMAIN log' PROVE pc'[log'[i].change] \in After(log'[i].kind)
    BY DEF ToldInOrder, After
  <2>2. CASE i \in DOMAIN log
    BY <1>1, <2>2 DEF EvidenceInv, Story, LogTypes, ToldInOrder, Forward
  <2>3. CASE i = Len(log) + 1
    BY <1>1, <2>3
  <2>. QED
    BY <1>2, <2>2, <2>3
<1>5. E!OneStoryPerChange'
  <2>1. SUFFICES ASSUME NEW i \in DOMAIN log', NEW j \in DOMAIN log',
                        log'[i].change = log'[j].change, log'[i].kind = log'[j].kind
                 PROVE  i = j
    BY DEF E!OneStoryPerChange
  <2>2. \A k \in DOMAIN log : ~(log[k].change = c /\ log[k].kind = e.kind)
    BY DEF EvidenceInv, Story, LogTypes, ToldInOrder
  <2>3. CASE i \in DOMAIN log /\ j \in DOMAIN log
    BY <1>1, <2>1, <2>3 DEF EvidenceInv, Story, E!OneStoryPerChange
  <2>4. CASE i \in DOMAIN log /\ j = Len(log) + 1
    BY <1>1, <2>1, <2>2, <2>4
  <2>5. CASE i = Len(log) + 1 /\ j \in DOMAIN log
    BY <1>1, <2>1, <2>2, <2>5
  <2>. QED
    BY <1>2, <2>3, <2>4, <2>5
<1>6. \A d \in Change : E!Deterministic(d) => E!Deterministic(d)'
  BY <1>1 DEF E!Deterministic
<1>. QED
  BY <1>1, <1>3, <1>4, <1>5, <1>6 DEF Story

\* A step that neither tells nor finds anything, and only moves changes on: those at
\* "evaluate" without a capture, those whose receipt came, those that an error or a crash
\* took
LEMMA OnlyMoved ==
    ASSUME EvidenceInv, UNCHANGED <<results, capture, vision, seen, log>>, E!TypeOK', RowsHold',
           \A c \in Change :
               \/ pc'[c] = pc[c]
               \/ pc[c] \notin E!Waiting /\ pc'[c] = "lost"
               \/ pc[c] \in E!Waiting /\ pc'[c] \in E!Waiting \cup {"inspect", "done"}
               \/ pc[c] \in {"evaluate", "look", "record"} /\ pc'[c] = "dropped"
               \/ pc[c] = "evaluate" /\ capture[c] = None /\ pc'[c] = "done"
               \/ pc[c] = "evaluate" /\ capture[c] # None /\ pc'[c] = "look"
    PROVE  EvidenceInv'
<1>1. Forward
  BY DEF EvidenceInv, EvidenceTypes, E!TypeOK, Forward, Places, After, Kinds, E!Waiting
<1>2. Story' /\ \A d \in Change : E!Deterministic(d)' <=> E!Deterministic(d)
  BY <1>1, Quiet
<1>3. EvidenceTypes'
  BY DEF EvidenceInv, EvidenceTypes
<1>4. ResultsOfReading'
  BY DEF EvidenceInv, ResultsOfReading, E!ValidateAppliedScene, E!Waiting
<1>5. VerdictsHold'
  BY DEF EvidenceInv, VerdictsHold, VerdictsTyped, VerdictsSound, SoundReading, E!Complete
<1>6. OutcomesHold'
  BY <1>2 DEF EvidenceInv, OutcomesHold, GoodOutcome, E!Constructible, E!ValidDecision,
              E!ValidEvaluation, E!Waiting
<1>7. EvaluationsHold'
  <2>1. EvaluationsParse'
    BY DEF EvidenceInv, EvaluationsHold, EvaluationsParse, E!ParseVisionEvent
  <2>2. EvaluationsRest'
    BY <1>2 DEF EvidenceInv, EvaluationsHold, EvaluationsRest
  <2>3. EvaluationsTold'
    BY DEF EvidenceInv, EvaluationsHold, EvaluationsTold, OutcomesHold, E!Waiting
  <2>. QED
    BY <2>1, <2>2, <2>3 DEF EvaluationsHold
<1>8. ShotsHold'
  <2>1. ShotsTaken'
    BY DEF EvidenceInv, OutcomesHold, ShotsHold, ShotsTaken, E!ValidateCapture, E!Waiting, Unshot
  <2>. QED
    BY <2>1 DEF EvidenceInv, ShotsHold, ShotsTold
<1>. QED
  BY <1>2, <1>3, <1>4, <1>5, <1>6, <1>7, <1>8 DEF EvidenceInv

\* A task returns: it stays, or what it returned is validated
LEMMA Returned ==
    ASSUME NEW c \in Change, NEW back, NEW otherwise, E!Returns(c, back, otherwise)
    PROVE  \E to \in {"inspect", otherwise} :
               /\ pc' = [pc EXCEPT ![c] = to]
               /\ back.events = <<>> => to = otherwise
BY Zenon DEF E!Returns, E!Validated

\* A step of the apply task of change c, before anything is validated
LEMMA TaskMoved ==
    ASSUME EvidenceInv, NEW c \in Change, pc[c] \in E!Waiting,
           NEW to \in E!Waiting \cup {"inspect", "done"}, pc' = [pc EXCEPT ![c] = to],
           NEW state \in E!Open \cup {"applied", "failed"}, row' = [row EXCEPT ![c] = state],
           to \in E!Waiting \/ state \notin E!Open,
           UNCHANGED <<opened, facts, results, capture, vision, seen, log>>
    PROVE  EvidenceInv'
<1>1. \A d \in Change : pc'[d] = IF d = c THEN to ELSE pc[d]
  BY DEF EvidenceInv, EvidenceTypes, E!TypeOK
<1>2. \A d \in Change : row'[d] = IF d = c THEN state ELSE row[d]
  BY DEF EvidenceInv, EvidenceTypes, E!TypeOK
<1>3. E!TypeOK'
  BY DEF EvidenceInv, EvidenceTypes, E!TypeOK
<1>4. RowsHold'
  BY <1>1, <1>2 DEF EvidenceInv, RowsHold
<1>. QED
  BY <1>1, <1>3, <1>4, OnlyMoved

\* The apply that is asked for, its receipt, its failure and its recovery
LEMMA EvidenceApply ==
    ASSUME EvidenceInv, NEW c \in Change,
           E!Ask(c) \/ E!ApplyDone(c) \/ E!Rejoined(c) \/ E!ApplyFails(c) \/ E!Recover(c)
    PROVE  EvidenceInv'
<1>1. /\ UNCHANGED <<opened, facts, results, capture, vision, seen, log>>
      /\ row[c] \in E!Open \cup {"applied", "failed"} /\ row = [row EXCEPT ![c] = row[c]]
      /\ pc = [pc EXCEPT ![c] = pc[c]] /\ (row[c] \in E!Open => pc[c] \in E!Waiting)
      /\ {"approved", "applying"} \subseteq E!Open /\ {"idle", "apply", "rejoin"} \subseteq E!Waiting
      /\ "applied" \notin E!Open /\ "failed" \notin E!Open
  <2>1. UNCHANGED <<opened, facts, results, capture, vision, seen, log>>
    BY DEF E!Ask, E!ApplyDone, E!Rejoined, E!ApplyFails, E!Recover
  <2>2. /\ row[c] \in E!Open \cup {"applied", "failed"} /\ row = [row EXCEPT ![c] = row[c]]
        /\ pc = [pc EXCEPT ![c] = pc[c]]
    BY DEF EvidenceInv, EvidenceTypes, E!TypeOK
  <2>3. row[c] \in E!Open => pc[c] \in E!Waiting
    BY DEF EvidenceInv, RowsHold
  <2>. QED
    BY <2>1, <2>2, <2>3 DEF E!Open, E!Waiting
<1>2. CASE E!Ask(c)
  <2>1. CASE row[c] \in E!Open
    <3>1. PICK to \in {"apply", "rejoin"} :
             pc' = [pc EXCEPT ![c] = to] /\ (row' = [row EXCEPT ![c] = "applying"])
      BY <1>1, <1>2, <2>1 DEF E!Ask
    <3>. QED
      BY <1>1, <2>1, <3>1, TaskMoved
  <2>2. CASE row[c] \notin E!Open
    <3>1. row' = row /\ E!Returns(c, [events |-> <<>>, success |-> row[c] = "applied"], pc[c])
      BY <1>1, <1>2, <2>2 DEF E!Ask
    <3>2. PICK back : back = [events |-> <<>>, success |-> row[c] = "applied"]
      OBVIOUS
    <3>3. back.events = <<>> /\ E!Returns(c, back, pc[c])
      BY <3>1, <3>2
    <3>4. PICK to \in {"inspect", pc[c]} :
             pc' = [pc EXCEPT ![c] = to] /\ (back.events = <<>> => to = pc[c])
      BY <3>3, Returned
    <3>5. pc' = pc
      BY <1>1, <3>3, <3>4
    <3>6. E!TypeOK' /\ RowsHold'
      BY <1>1, <3>1, <3>5 DEF EvidenceInv, EvidenceTypes, E!TypeOK, RowsHold
    <3>. QED
      BY <1>1, <3>5, <3>6, OnlyMoved
  <2>. QED
    BY <2>1, <2>2
<1>3. ASSUME NEW back, E!Returns(c, back, "done"), pc[c] \in E!Waiting,
             NEW state \in {"applied", "failed"}, row' = [row EXCEPT ![c] = state]
      PROVE  EvidenceInv'
  <2>1. PICK to \in {"inspect", "done"} : pc' = [pc EXCEPT ![c] = to]
    BY <1>3, Returned
  <2>. QED
    BY <1>1, <1>3, <2>1, TaskMoved
<1>4. CASE E!ApplyDone(c)
  <2>1. pc[c] \in E!Waiting
    BY <1>1, <1>4 DEF E!ApplyDone
  <2>2. PICK state \in {"applied", "failed"} : row' = [row EXCEPT ![c] = state]
    BY <1>1, <1>4 DEF E!ApplyDone
  <2>3. PICK back : E!Returns(c, back, "done")
    BY <1>4 DEF E!ApplyDone
  <2>. QED
    BY <1>3, <2>1, <2>2, <2>3
<1>5. CASE E!Rejoined(c)
  <2>1. pc[c] \in E!Waiting
    BY <1>1, <1>5 DEF E!Rejoined
  <2>2. ASSUME row' = [row EXCEPT ![c] = "applying"], pc' = [pc EXCEPT ![c] = "apply"]
        PROVE  EvidenceInv'
    BY <1>1, <2>1, <2>2, TaskMoved
  <2>3. \/ row' = [row EXCEPT ![c] = "applying"] /\ pc' = [pc EXCEPT ![c] = "apply"]
        \/ /\ \E state \in {"applied", "failed"} : row' = [row EXCEPT ![c] = state]
           /\ \E back : E!Returns(c, back, "done")
    BY <1>1, <1>5 DEF E!Rejoined
  <2>. QED
    BY <1>3, <2>1, <2>2, <2>3
<1>6. CASE E!ApplyFails(c)
  <2>1. pc[c] \in E!Waiting /\ pc' = [pc EXCEPT ![c] = "idle"] /\ row' = [row EXCEPT ![c] = row[c]]
    BY <1>1, <1>6 DEF E!ApplyFails
  <2>. QED
    BY <1>1, <2>1, TaskMoved
<1>7. CASE E!Recover(c)
  <2>1. /\ row[c] \in E!Open /\ pc' = [pc EXCEPT ![c] = pc[c]]
        /\ \E state \in {"approved", "applied", "failed"} : row' = [row EXCEPT ![c] = state]
    BY <1>1, <1>7 DEF E!Recover
  <2>. QED
    BY <1>1, <2>1, TaskMoved
<1>. QED
  BY <1>2, <1>4, <1>5, <1>6, <1>7

\* A task that ends with an error, the artist and a crash
LEMMA EvidenceWorld ==
    ASSUME EvidenceInv,
           \/ \E c \in Change : E!VerdictIsLost(c) \/ E!Swallowed(c)
           \/ E!Edit \/ E!Crash
    PROVE  EvidenceInv'
<1>1. ASSUME NEW c \in Change, E!VerdictIsLost(c) \/ E!Swallowed(c) PROVE EvidenceInv'
  <2>1. PICK to \in {"lost", "dropped"} :
           /\ pc' = [pc EXCEPT ![c] = to] /\ pc[c] \notin E!Waiting
           /\ to = "dropped" => pc[c] \in {"evaluate", "look", "record"}
    BY <1>1 DEF E!VerdictIsLost, E!Swallowed, E!Waiting
  <2>2. UNCHANGED <<opened, facts, row, results, capture, vision, seen, log>>
    BY <1>1 DEF E!VerdictIsLost, E!Swallowed
  <2>3. \A d \in Change : pc'[d] = IF d = c THEN to ELSE pc[d]
    BY <2>1 DEF EvidenceInv, EvidenceTypes, E!TypeOK
  <2>4. E!TypeOK'
    BY <2>1, <2>2 DEF EvidenceInv, EvidenceTypes, E!TypeOK
  <2>5. RowsHold'
    BY <2>1, <2>2, <2>3 DEF EvidenceInv, RowsHold
  <2>. QED
    BY <2>1, <2>2, <2>3, <2>4, <2>5, OnlyMoved
<1>2. CASE E!Edit
  <2>1. UNCHANGED <<row, pc, results, capture, vision, seen, log>>
    BY <1>2 DEF E!Edit
  <2>2. opened' \in E!Bindings
    BY <1>2 DEF EvidenceInv, EvidenceTypes, E!TypeOK, E!Edit, E!Bindings
  <2>3. facts' \in [E!Nodes -> E!Looks]
    BY <1>2 DEF EvidenceInv, EvidenceTypes, E!TypeOK, E!Edit
  <2>4. E!TypeOK' /\ RowsHold'
    BY <2>1, <2>2, <2>3 DEF EvidenceInv, EvidenceTypes, E!TypeOK, RowsHold
  <2>. QED
    BY <2>1, <2>4, OnlyMoved
<1>3. CASE E!Crash
  <2>1. UNCHANGED <<opened, facts, row, results, capture, vision, seen, log>>
    BY <1>3 DEF E!Crash
  <2>2. E!TypeOK'
    BY <1>3, <2>1 DEF EvidenceInv, EvidenceTypes, E!TypeOK, E!Crash, E!Waiting
  <2>3. \A d \in Change :
           \/ pc[d] \in E!Waiting /\ pc'[d] = "idle"
           \/ pc[d] \notin E!Waiting /\ pc'[d] \in {pc[d], "lost"}
    BY <1>3 DEF E!Crash
  <2>4. RowsHold'
    BY <2>1, <2>3 DEF EvidenceInv, RowsHold, E!Waiting
  <2>5. "idle" \in E!Waiting
    BY DEF E!Waiting
  <2>. QED
    BY <2>1, <2>2, <2>3, <2>4, <2>5, OnlyMoved
<1>. QED
  BY <1>1, <1>2, <1>3

\* A step that tells something of change c: what is asked of the event, of the results and
\* of the place where c goes on
LEMMA ToldMore ==
    ASSUME EvidenceInv, NEW c \in Change, NEW e, e.change = c, e.kind \in Kinds,
           log' = Append(log, e),
           NEW to \in {"report", "evaluate", "done"}, pc' = [pc EXCEPT ![c] = to],
           pc[c] \notin E!Waiting, pc[c] \notin After(e.kind), to \in After(e.kind),
           \A kind \in Kinds : pc[c] \in After(kind) => to \in After(kind),
           UNCHANGED <<opened, facts, row, capture, vision, seen>>,
           DOMAIN results' = Change, results'[c] \in Seq(Statuses),
           \A d \in Change \ {c} : results'[d] = results[d],
           pc[c] \in After("completed") => results'[c] = results[c],
           to = "report" =>
               /\ seen[c] \in Readings
               /\ Len(results'[c]) >= 2
               /\ results'[c][1] = E!ValidateAppliedScene(c, seen[c])[1]
               /\ results'[c][2] = E!ValidateAppliedScene(c, seen[c])[2]
               /\ capture[c] # None =>
                     \E k \in DOMAIN results'[c] : results'[c][k] = E!ValidateCapture(capture[c].framed),
           e.kind = "unavailable" => e.complete = FALSE,
           e.kind = "completed" =>
               /\ e.complete \in BOOLEAN
               /\ e.complete = TRUE => SoundReading(c) /\ E!Complete(results'[c]),
           e.kind = "vision" => /\ e.decision \in Decisions /\ E!ParseVisionEvent(e)
                                /\ capture[c] # None
                                /\ e.decision.accepted => E!Deterministic(c),
           to = "done" => e.kind = "vision"
    PROVE  EvidenceInv'
<1>1. pc \in [Change -> Places] /\ \A d \in Change : pc'[d] = IF d = c THEN to ELSE pc[d]
  BY DEF EvidenceInv, EvidenceTypes, E!TypeOK, E!Waiting, Places
<1>2. Forward
  BY <1>1 DEF Forward, Places
<1>3. /\ Story' /\ \A d \in Change : E!Deterministic(d) => E!Deterministic(d)'
      /\ Len(log) \in Nat /\ DOMAIN log = 1..Len(log) /\ DOMAIN log' = 1..(Len(log) + 1)
      /\ \A i \in DOMAIN log : log'[i] = log[i]
      /\ log'[Len(log) + 1] = e
  BY <1>1, <1>2, Told
<1>4. \A i \in DOMAIN log' : i \in DOMAIN log \/ i = Len(log) + 1
  BY <1>3
<1>5. EvidenceTypes'
  BY <1>2 DEF EvidenceInv, EvidenceTypes, E!TypeOK, Forward, Places
<1>6. ResultsOfReading'
  <2>1. SUFFICES ASSUME NEW d \in Change, pc'[d] \in {"sample", "capture", "publish", "report"}
                 PROVE  /\ seen'[d] \in Readings
                        /\ Len(results'[d]) >= 2
                        /\ results'[d][1] = E!ValidateAppliedScene(d, seen'[d])[1]
                        /\ results'[d][2] = E!ValidateAppliedScene(d, seen'[d])[2]
    BY DEF ResultsOfReading, E!ValidateAppliedScene
  <2>2. CASE d = c
    BY <1>1, <2>1, <2>2
  <2>3. CASE d # c
    BY <1>1, <2>1, <2>3 DEF EvidenceInv, ResultsOfReading
  <2>. QED
    BY <2>2, <2>3
<1>7. VerdictsHold'
  <2>1. VerdictsTyped'
    BY <1>3, <1>4 DEF EvidenceInv, VerdictsHold, VerdictsTyped
  <2>2. VerdictsSound'
    <3>1. SUFFICES ASSUME NEW d \in Change, NEW i \in DOMAIN log', log'[i].change = d,
                          log'[i].kind = "completed", log'[i].complete = TRUE
                   PROVE  SoundReading(d)' /\ E!Complete(results'[d])
      BY DEF VerdictsSound, E!Complete
    <3>2. SoundReading(d) => SoundReading(d)'
      BY DEF SoundReading
    <3>3. CASE i \in DOMAIN log
      <4>1. log[i].change = d /\ log'[i] = log[i]
        BY <1>3, <3>1, <3>3
      <4>2. pc[d] \in After("completed")
        BY <3>1, <3>3, <4>1 DEF EvidenceInv, Story, ToldInOrder
      <4>3. results'[d] = results[d]
        BY <4>2
      <4>. QED
        BY <3>1, <3>2, <3>3, <4>1, <4>3 DEF EvidenceInv, VerdictsHold, VerdictsSound
    <3>4. CASE i = Len(log) + 1
      BY <1>3, <3>1, <3>2, <3>4
    <3>. QED
      BY <1>4, <3>3, <3>4
  <2>. QED
    BY <2>1, <2>2 DEF VerdictsHold
<1>8. OutcomesHold'
  BY <1>1, <1>3 DEF EvidenceInv, OutcomesHold, GoodOutcome, E!Constructible, E!ValidDecision,
              E!ValidEvaluation, E!Waiting
<1>9. EvaluationsHold'
  <2>1. EvaluationsParse'
    <3>1. SUFFICES ASSUME NEW i \in DOMAIN log', log'[i].kind = "vision"
                   PROVE  log'[i].decision \in Decisions /\ E!ParseVisionEvent(log'[i])
      BY DEF EvaluationsParse, E!ParseVisionEvent
    <3>. QED
      BY <1>3, <1>4, <3>1 DEF EvidenceInv, EvaluationsHold, EvaluationsParse
  <2>2. EvaluationsRest'
    BY <1>3, <1>4 DEF EvidenceInv, EvaluationsHold, EvaluationsRest
  <2>3. EvaluationsTold'
    <3>1. SUFFICES ASSUME NEW d \in Change, pc'[d] = "done", capture[d] # None, ~capture[d].large,
                          ~(vision[d].report # None /\ vision[d].report.long)
                   PROVE  \E i \in DOMAIN log' : log'[i].kind = "vision" /\ log'[i].change = d
      BY DEF EvaluationsTold
    <3>2. CASE d = c
      <4>1. log'[Len(log) + 1].kind = "vision" /\ log'[Len(log) + 1].change = d
        BY <1>1, <1>3, <3>1, <3>2
      <4>. QED
        BY <1>3, <4>1
    <3>3. CASE d # c
      <4>1. PICK i \in DOMAIN log : log[i].kind = "vision" /\ log[i].change = d
        BY <1>1, <3>1, <3>3 DEF EvidenceInv, EvaluationsHold, EvaluationsTold
      <4>. QED
        BY <1>3, <4>1
    <3>. QED
      BY <3>2, <3>3
  <2>. QED
    BY <2>1, <2>2, <2>3 DEF EvaluationsHold
<1>10. ShotsHold'
  <2>1. ShotsTaken'
    <3>1. SUFFICES ASSUME NEW d \in Change
                   PROVE  /\ pc'[d] \in Unshot => capture[d] = None
                          /\ capture[d] # None => capture[d].at.epoch = 1
                          /\ pc'[d] = "report" /\ capture[d] # None =>
                                \E k \in DOMAIN results'[d] :
                                    results'[d][k] = E!ValidateCapture(capture[d].framed)
      BY DEF ShotsTaken, E!ValidateCapture
    <3>2. CASE d = c
      BY <1>1, <3>2 DEF EvidenceInv, ShotsHold, ShotsTaken, Unshot
    <3>3. CASE d # c
      BY <1>1, <3>3 DEF EvidenceInv, ShotsHold, ShotsTaken
    <3>. QED
      BY <3>2, <3>3
  <2>2. ShotsTold'
    BY <1>3, <1>4 DEF EvidenceInv, ShotsHold, ShotsTold
  <2>. QED
    BY <2>1, <2>2 DEF ShotsHold
<1>11. RowsHold'
  BY <1>1 DEF EvidenceInv, RowsHold
<1>. QED
  BY <1>3, <1>5, <1>6, <1>7, <1>8, <1>9, <1>10, <1>11 DEF EvidenceInv

\* A step that finds something out about change c and tells nothing
LEMMA FoundMore ==
    ASSUME EvidenceInv, NEW c \in Change, log' = log,
           NEW to \in {"sample", "capture", "publish", "report", "record", "done"},
           pc' = [pc EXCEPT ![c] = to], pc[c] \notin E!Waiting,
           \A kind \in Kinds : pc[c] \in After(kind) => to \in After(kind),
           UNCHANGED <<opened, facts, row>>,
           DOMAIN results' = Change, DOMAIN seen' = Change,
           DOMAIN capture' = Change, DOMAIN vision' = Change,
           results'[c] \in Seq(Statuses),
           \A d \in Change \ {c} : /\ results'[d] = results[d] /\ seen'[d] = seen[d]
                                   /\ capture'[d] = capture[d] /\ vision'[d] = vision[d],
           pc[c] \in After("completed") =>
               results'[c] = results[c] /\ seen'[c] = seen[c] /\ capture'[c] = capture[c],
           capture'[c] # None => capture'[c].at.epoch = 1, to \in {"report", "sample", "capture"} => capture'[c] = None,
           to \in {"sample", "capture", "publish", "report"} =>
               /\ seen'[c] \in Readings
               /\ Len(results'[c]) >= 2
               /\ results'[c][1] = E!ValidateAppliedScene(c, seen'[c])[1]
               /\ results'[c][2] = E!ValidateAppliedScene(c, seen'[c])[2],
           to = "record" =>
               /\ capture'[c] # None /\ GoodOutcome(vision'[c])
               /\ vision'[c].decision.valid => E!Deterministic(c),
           to = "done" => capture'[c].large \/ (vision'[c].report # None /\ vision'[c].report.long)
    PROVE  EvidenceInv'
<1>1. pc \in [Change -> Places] /\ \A d \in Change : pc'[d] = IF d = c THEN to ELSE pc[d]
  BY DEF EvidenceInv, EvidenceTypes, E!TypeOK, E!Waiting, Places
<1>2. Forward
  BY <1>1 DEF Forward, Places
<1>3. Story' /\ \A d \in Change : E!Deterministic(d)' <=> E!Deterministic(d)
  BY <1>2, Quiet
<1>4. EvidenceTypes'
  BY <1>2 DEF EvidenceInv, EvidenceTypes, E!TypeOK, Forward, Places
<1>5. ResultsOfReading'
  <2>1. SUFFICES ASSUME NEW d \in Change, pc'[d] \in {"sample", "capture", "publish", "report"}
                 PROVE  /\ seen'[d] \in Readings
                        /\ Len(results'[d]) >= 2
                        /\ results'[d][1] = E!ValidateAppliedScene(d, seen'[d])[1]
                        /\ results'[d][2] = E!ValidateAppliedScene(d, seen'[d])[2]
    BY DEF ResultsOfReading, E!ValidateAppliedScene
  <2>2. CASE d = c
    BY <1>1, <2>1, <2>2
  <2>3. CASE d # c
    BY <1>1, <2>1, <2>3 DEF EvidenceInv, ResultsOfReading
  <2>. QED
    BY <2>2, <2>3
<1>6. VerdictsHold'
  <2>1. VerdictsTyped'
    BY DEF EvidenceInv, VerdictsHold, VerdictsTyped
  <2>2. VerdictsSound'
    <3>1. SUFFICES ASSUME NEW d \in Change, NEW i \in DOMAIN log, log[i].change = d,
                          log[i].kind = "completed", log[i].complete = TRUE
                   PROVE  SoundReading(d)' /\ E!Complete(results'[d])
      BY DEF VerdictsSound, E!Complete
    <3>2. pc[d] \in After("completed")
      BY <3>1 DEF EvidenceInv, Story, ToldInOrder
    <3>3. results'[d] = results[d] /\ seen'[d] = seen[d] /\ capture'[d] = capture[d]
      BY <3>2
    <3>4. SoundReading(d) => SoundReading(d)'
      BY <3>3 DEF SoundReading
    <3>. QED
      BY <3>1, <3>3, <3>4 DEF EvidenceInv, VerdictsHold, VerdictsSound
  <2>. QED
    BY <2>1, <2>2 DEF VerdictsHold
<1>7. OutcomesHold'
  <2>1. SUFFICES ASSUME NEW d \in Change
                 PROVE  /\ pc'[d] \in E!Waiting => capture'[d] = None
                        /\ pc'[d] = "look" => capture'[d] # None
                        /\ pc'[d] = "record" =>
                              /\ capture'[d] # None /\ GoodOutcome(vision'[d])
                              /\ vision'[d].decision.valid => E!Deterministic(d)
    BY <1>3 DEF OutcomesHold, GoodOutcome, E!Constructible, E!ValidDecision, E!ValidEvaluation,
                E!Waiting
  <2>2. CASE d = c
    BY <1>1, <2>2 DEF E!Waiting
  <2>3. CASE d # c
    BY <1>1, <2>3 DEF EvidenceInv, OutcomesHold
  <2>. QED
    BY <2>2, <2>3
<1>8. EvaluationsHold'
  <2>1. EvaluationsParse'
    BY DEF EvidenceInv, EvaluationsHold, EvaluationsParse, E!ParseVisionEvent
  <2>2. EvaluationsRest'
    BY <1>3 DEF EvidenceInv, EvaluationsHold, EvaluationsRest
  <2>3. EvaluationsTold'
    BY <1>1 DEF EvidenceInv, EvaluationsHold, EvaluationsTold
  <2>. QED
    BY <2>1, <2>2, <2>3 DEF EvaluationsHold
<1>9. ShotsHold'
  <2>1. ShotsTaken'
    <3>1. SUFFICES ASSUME NEW d \in Change
                   PROVE  /\ pc'[d] \in Unshot => capture'[d] = None
                          /\ capture'[d] # None => capture'[d].at.epoch = 1
                          /\ pc'[d] = "report" /\ capture'[d] # None =>
                                \E k \in DOMAIN results'[d] :
                                    results'[d][k] = E!ValidateCapture(capture'[d].framed)
      BY DEF ShotsTaken, E!ValidateCapture
    <3>2. CASE d = c
      BY <1>1, <3>2 DEF Unshot
    <3>3. CASE d # c
      BY <1>1, <3>3 DEF EvidenceInv, ShotsHold, ShotsTaken
    <3>. QED
      BY <3>2, <3>3
  <2>2. ShotsTold'
    <3>1. SUFFICES ASSUME NEW i \in DOMAIN log, log[i].kind = "vision"
                   PROVE  capture'[log[i].change] # None
      BY DEF ShotsTold
    <3>2. log[i].change \in Change /\ pc[log[i].change] \in After("vision")
      BY <3>1 DEF EvidenceInv, Story, LogTypes, ToldInOrder
    <3>3. pc[log[i].change] \in After("completed")
      BY <3>2 DEF After
    <3>4. capture'[log[i].change] = capture[log[i].change]
      BY <3>2, <3>3
    <3>. QED
      BY <3>1, <3>4 DEF EvidenceInv, ShotsHold, ShotsTold
  <2>. QED
    BY <2>1, <2>2 DEF ShotsHold
<1>10. RowsHold'
  BY <1>1 DEF EvidenceInv, RowsHold
<1>. QED
  BY <1>3, <1>4, <1>5, <1>6, <1>7, <1>8, <1>9, <1>10 DEF EvidenceInv

\* The two verdicts of an inspection
LEMMA InspectionTypes ==
    ASSUME NEW c, NEW query
    PROVE  /\ E!ValidateAppliedScene(c, query) \in Seq(Statuses)
           /\ Len(E!ValidateAppliedScene(c, query)) = 2
<1>. DEFINE verdict(ok) == IF query.at # E!Home THEN "Stale" ELSE IF ok THEN "Passed" ELSE "Failed"
<1>1. \A ok : verdict(ok) \in Statuses
  BY DEF Statuses
<1>. HIDE DEF verdict
<1>2. \A a, b : <<verdict(a), verdict(b)>> \in Seq(Statuses) /\ Len(<<verdict(a), verdict(b)>>) = 2
  BY <1>1
<1>. QED
  BY <1>2 DEF E!ValidateAppliedScene, verdict

\* A back more leaves the first two where they were
LEMMA ResultsGrow ==
    ASSUME NEW rs \in Seq(Statuses), NEW r \in Statuses, Len(rs) >= 2
    PROVE  /\ Append(rs, r) \in Seq(Statuses) /\ Len(Append(rs, r)) >= 2
           /\ Append(rs, r)[1] = rs[1] /\ Append(rs, r)[2] = rs[2]
OBVIOUS

\* What the router may say of a change
LEMMA RouterOutcomes ==
    ASSUME NEW v \in BOOLEAN, NEW report \in Reports
    PROVE  /\ GoodOutcome(E!Unavailable(v)) /\ E!Unavailable(v).decision.valid = v
           /\ GoodOutcome(E!Failed(v)) /\ E!Failed(v).decision.valid = v
           /\ GoodOutcome(E!Completed(v, report)) /\ E!Completed(v, report).decision.valid = v
<1>. USE NoneAssumption DEF GoodOutcome, Decisions, Reports, E!Constructible, E!ValidDecision,
         E!ValidEvaluation, E!Decision
<1>1. GoodOutcome(E!Unavailable(v)) /\ E!Unavailable(v).decision.valid = v
  BY DEF E!Unavailable
<1>2. GoodOutcome(E!Failed(v)) /\ E!Failed(v).decision.valid = v
  BY DEF E!Failed
<1>3. GoodOutcome(E!Completed(v, report)) /\ E!Completed(v, report).decision.valid = v
  BY DEF E!Completed
<1>. QED
  BY <1>1, <1>2, <1>3

\* The inspection and the samples
LEMMA EvidenceInspect ==
    ASSUME EvidenceInv, NEW c \in Change, E!Inspect(c) PROVE EvidenceInv'
<1>1. PICK query \in Readings :
         /\ seen' = [seen EXCEPT ![c] = query]
         /\ results' = [results EXCEPT ![c] = E!ValidateAppliedScene(c, query)]
  BY DEF E!Inspect, Readings, EvidenceInv, EvidenceTypes, E!TypeOK
<1>2. /\ pc[c] = "inspect" /\ pc' = [pc EXCEPT ![c] = "sample"]
      /\ UNCHANGED <<opened, facts, row, capture, vision, log>>
  BY DEF E!Inspect, E!Goto
<1>3. /\ DOMAIN results' = Change /\ DOMAIN seen' = Change
      /\ DOMAIN capture' = Change /\ DOMAIN vision' = Change
      /\ results'[c] = E!ValidateAppliedScene(c, query) /\ seen'[c] = query
      /\ \A d \in Change \ {c} : results'[d] = results[d] /\ seen'[d] = seen[d]
  BY <1>1, <1>2 DEF EvidenceInv, EvidenceTypes
<1>4. results'[c] \in Seq(Statuses) /\ Len(results'[c]) = 2
  BY <1>3, InspectionTypes
<1>5. /\ \A kind \in Kinds : pc[c] \notin After(kind)
      /\ pc[c] \notin E!Waiting
  BY <1>2 DEF After, Kinds, E!Waiting
<1>7. capture[c] = None
  BY <1>2 DEF EvidenceInv, ShotsHold, ShotsTaken, Unshot
<1>6. /\ seen'[c] \in Readings /\ Len(results'[c]) >= 2
      /\ results'[c][1] = E!ValidateAppliedScene(c, seen'[c])[1]
      /\ results'[c][2] = E!ValidateAppliedScene(c, seen'[c])[2]
  BY <1>1, <1>3, <1>4
<1>. QED
  BY <1>2, <1>3, <1>4, <1>5, <1>6, <1>7, FoundMore DEF Kinds

\* A sample more, or none for a change without a numeric parameter
LEMMA EvidenceSample ==
    ASSUME EvidenceInv, NEW c \in Change, E!Sample(c) PROVE EvidenceInv'
<1>1. /\ pc[c] = "sample" /\ pc' = [pc EXCEPT ![c] = "capture"]
      /\ UNCHANGED <<opened, facts, row, capture, vision, seen, log>>
  BY DEF E!Sample, E!Goto
<1>2. results' = results \/ \E r \in Statuses : results' = [results EXCEPT ![c] = Append(@, r)]
  BY DEF E!Sample, E!ValidateSensitivity, Statuses
<1>3. /\ seen[c] \in Readings /\ results[c] \in Seq(Statuses) /\ Len(results[c]) >= 2
      /\ results[c][1] = E!ValidateAppliedScene(c, seen[c])[1]
      /\ results[c][2] = E!ValidateAppliedScene(c, seen[c])[2]
  BY <1>1 DEF EvidenceInv, EvidenceTypes, ResultsOfReading
<1>4. /\ DOMAIN results' = Change /\ DOMAIN seen' = Change
      /\ DOMAIN capture' = Change /\ DOMAIN vision' = Change
      /\ \A d \in Change \ {c} : results'[d] = results[d]
      /\ results'[c] = results[c] \/ \E r \in Statuses : results'[c] = Append(results[c], r)
  BY <1>1, <1>2 DEF EvidenceInv, EvidenceTypes
<1>5. /\ results'[c] \in Seq(Statuses) /\ Len(results'[c]) >= 2
      /\ results'[c][1] = results[c][1] /\ results'[c][2] = results[c][2]
  <2>1. CASE results'[c] = results[c]
    BY <1>3, <2>1
  <2>2. ASSUME NEW r \in Statuses, results'[c] = Append(results[c], r)
        PROVE  /\ results'[c] \in Seq(Statuses) /\ Len(results'[c]) >= 2
               /\ results'[c][1] = results[c][1] /\ results'[c][2] = results[c][2]
    BY <1>3, <2>2, ResultsGrow
  <2>. QED
    BY <1>4, <2>1, <2>2
<1>6. /\ \A kind \in Kinds : pc[c] \notin After(kind)
      /\ pc[c] \notin E!Waiting
  BY <1>1 DEF After, Kinds, E!Waiting
<1>7. capture[c] = None
  BY <1>1 DEF EvidenceInv, ShotsHold, ShotsTaken, Unshot
<1>. QED
  BY <1>1, <1>3, <1>4, <1>5, <1>6, <1>7, FoundMore DEF Kinds

\* What the stages between the inspection and the verdict know of it
LEMMA ReadingKept ==
    ASSUME EvidenceInv, NEW c \in Change, pc[c] \in {"sample", "capture", "publish", "report"}
    PROVE  /\ seen[c] \in Readings /\ results[c] \in Seq(Statuses) /\ Len(results[c]) >= 2
           /\ results[c][1] = E!ValidateAppliedScene(c, seen[c])[1]
           /\ results[c][2] = E!ValidateAppliedScene(c, seen[c])[2]
BY DEF EvidenceInv, EvidenceTypes, ResultsOfReading

\* The capture, none, or its failure
LEMMA EvidenceCapture ==
    ASSUME EvidenceInv, NEW c \in Change, E!CaptureChange(c) PROVE EvidenceInv'
<1>0. pc[c] = "capture" /\ UNCHANGED <<opened, facts, row, vision, seen>>
  BY DEF E!CaptureChange, E!Goto
<1>1. /\ \A kind \in Kinds : pc[c] \notin After(kind)
      /\ pc[c] \notin E!Waiting
  BY <1>0 DEF After, Kinds, E!Waiting
<1>2. /\ seen[c] \in Readings /\ results[c] \in Seq(Statuses) /\ Len(results[c]) >= 2
      /\ results[c][1] = E!ValidateAppliedScene(c, seen[c])[1]
      /\ results[c][2] = E!ValidateAppliedScene(c, seen[c])[2]
  BY <1>0, ReadingKept
<1>9. capture[c] = None
  BY <1>0 DEF EvidenceInv, ShotsHold, ShotsTaken, Unshot
<1>3. ASSUME NEW shot, capture' = [capture EXCEPT ![c] = shot], UNCHANGED <<results, log>>,
             shot.at.epoch = 1, pc' = [pc EXCEPT ![c] = "publish"]
      PROVE  EvidenceInv'
  <2>1. /\ DOMAIN results' = Change /\ DOMAIN seen' = Change
        /\ DOMAIN capture' = Change /\ DOMAIN vision' = Change
        /\ capture'[c] = shot
        /\ \A d \in Change \ {c} : capture'[d] = capture[d]
    BY <1>0, <1>3 DEF EvidenceInv, EvidenceTypes
  <2>. QED
    BY <1>0, <1>1, <1>2, <1>3, <2>1, FoundMore DEF Kinds
<1>5. ASSUME UNCHANGED <<results, log, capture>>, pc' = [pc EXCEPT ![c] = "report"]
      PROVE  EvidenceInv'
  <2>1. /\ DOMAIN results' = Change /\ DOMAIN seen' = Change
        /\ DOMAIN capture' = Change /\ DOMAIN vision' = Change
    BY <1>0, <1>5 DEF EvidenceInv, EvidenceTypes
  <2>. QED
    BY <1>0, <1>1, <1>2, <1>5, <1>9, <2>1, FoundMore DEF Kinds
<1>4. ASSUME results' = [results EXCEPT ![c] = Append(@, "Failed")],
             log' = Append(log, [kind |-> "capture_failed", change |-> c]),
             UNCHANGED capture, pc' = [pc EXCEPT ![c] = "report"]
      PROVE  EvidenceInv'
  <2>1. /\ DOMAIN results' = Change /\ results'[c] = Append(results[c], "Failed")
        /\ \A d \in Change \ {c} : results'[d] = results[d]
    BY <1>4 DEF EvidenceInv, EvidenceTypes
  <2>2. /\ results'[c] \in Seq(Statuses) /\ Len(results'[c]) >= 2
        /\ results'[c][1] = results[c][1] /\ results'[c][2] = results[c][2]
    BY <1>2, <2>1, ResultsGrow DEF Statuses
  <2>3. PICK e : e = [kind |-> "capture_failed", change |-> c]
    OBVIOUS
  <2>4. e.kind = "capture_failed" /\ e.change = c /\ log' = Append(log, e)
    BY <1>4, <2>3
  <2>5. /\ e.kind \in Kinds /\ pc[c] \notin After(e.kind) /\ "report" \in After(e.kind)
        /\ e.kind \notin {"unavailable", "completed", "vision"} /\ pc[c] \notin After("completed")
    BY <1>0, <2>4 DEF After, Kinds
  <2>6. /\ seen[c] \in Readings
        /\ results'[c][1] = E!ValidateAppliedScene(c, seen[c])[1]
        /\ results'[c][2] = E!ValidateAppliedScene(c, seen[c])[2]
    BY <1>2, <2>2
  <2>. QED
    BY <1>0, <1>1, <1>4, <1>9, <2>1, <2>2, <2>4, <2>5, <2>6, ToldMore
<1>6. \/ \E shot : /\ capture' = [capture EXCEPT ![c] = shot] /\ UNCHANGED <<results, log>>
                   /\ shot.at.epoch = 1 /\ pc' = [pc EXCEPT ![c] = "publish"]
      \/ UNCHANGED <<results, log, capture>> /\ pc' = [pc EXCEPT ![c] = "report"]
      \/ /\ results' = [results EXCEPT ![c] = Append(@, "Failed")]
         /\ log' = Append(log, [kind |-> "capture_failed", change |-> c])
         /\ UNCHANGED capture /\ pc' = [pc EXCEPT ![c] = "report"]
  <2>1. CASE pc' = [pc EXCEPT ![c] = "publish"] /\ E!Answers(c) /\ UNCHANGED <<results, log>>
             /\ \E framed, large \in BOOLEAN :
                   capture' = [capture EXCEPT ![c] =
                                  [framed |-> framed, large |-> large, at |-> opened]]
    <3>1. PICK shot : shot.at = opened /\ capture' = [capture EXCEPT ![c] = shot]
      BY <2>1
    <3>2. opened.epoch = 1
      BY <2>1 DEF E!Answers, E!Home
    <3>. QED
      BY <2>1, <3>1, <3>2
  <2>. QED
    BY <2>1 DEF E!CaptureChange, E!Goto, E!Emit
<1>. QED
  BY <1>3, <1>4, <1>5, <1>6

\* The captured frame is told of
LEMMA EvidencePublish ==
    ASSUME EvidenceInv, NEW c \in Change, E!Publish(c) PROVE EvidenceInv'
<1>0. /\ pc[c] = "publish" /\ pc' = [pc EXCEPT ![c] = "report"]
      /\ UNCHANGED <<opened, facts, row, capture, vision, seen>>
  BY DEF E!Publish, E!Goto
<1>1. /\ \A kind \in Kinds : pc[c] \notin After(kind)
      /\ pc[c] \notin E!Waiting
  BY <1>0 DEF After, Kinds, E!Waiting
<1>2. /\ seen[c] \in Readings /\ results[c] \in Seq(Statuses) /\ Len(results[c]) >= 2
      /\ results[c][1] = E!ValidateAppliedScene(c, seen[c])[1]
      /\ results[c][2] = E!ValidateAppliedScene(c, seen[c])[2]
  BY <1>0, ReadingKept
<1>3. PICK r \in Statuses : /\ results' = [results EXCEPT ![c] = Append(@, r)]
                            /\ r = E!ValidateCapture(capture[c].framed)
  BY DEF E!Publish, E!ValidateCapture, Statuses
<1>4. /\ DOMAIN results' = Change /\ results'[c] = Append(results[c], r)
      /\ \A d \in Change \ {c} : results'[d] = results[d]
  BY <1>3 DEF EvidenceInv, EvidenceTypes
<1>5. /\ results'[c] \in Seq(Statuses) /\ Len(results'[c]) >= 2
      /\ results'[c][1] = results[c][1] /\ results'[c][2] = results[c][2]
  BY <1>2, <1>4, ResultsGrow
<1>6. PICK e : e = [kind |-> "captured", change |-> c]
  OBVIOUS
<1>7. e.kind = "captured" /\ e.change = c /\ log' = Append(log, e)
  BY <1>6 DEF E!Publish, E!Emit
<1>8. /\ e.kind \in Kinds /\ pc[c] \notin After(e.kind) /\ "report" \in After(e.kind)
      /\ e.kind \notin {"unavailable", "completed", "vision"} /\ pc[c] \notin After("completed")
  BY <1>0, <1>7 DEF After, Kinds
<1>9. /\ seen[c] \in Readings
      /\ results'[c][1] = E!ValidateAppliedScene(c, seen[c])[1]
      /\ results'[c][2] = E!ValidateAppliedScene(c, seen[c])[2]
  BY <1>2, <1>5
<1>10. \E k \in DOMAIN results'[c] : results'[c][k] = E!ValidateCapture(capture[c].framed)
  <2>1. Len(results[c]) + 1 \in DOMAIN results'[c] /\ results'[c][Len(results[c]) + 1] = r
    BY <1>2, <1>4
  <2>. QED
    BY <1>3, <2>1
<1>. QED
  BY <1>0, <1>1, <1>4, <1>5, <1>7, <1>8, <1>9, <1>10, ToldMore

\* A complete verdict means the inspection was sound
LEMMA CompleteIsSound ==
    ASSUME NEW c \in Change, seen[c] \in Readings, results[c] \in Seq(Statuses),
           Len(results[c]) >= 2,
           results[c][1] = E!ValidateAppliedScene(c, seen[c])[1],
           results[c][2] = E!ValidateAppliedScene(c, seen[c])[2],
           capture[c] # None =>
               \E k \in DOMAIN results[c] : results[c][k] = E!ValidateCapture(capture[c].framed),
           E!Complete(results[c])
    PROVE  SoundReading(c)
<1>1. results[c][1] = "Passed" /\ results[c][2] = "Passed"
  BY DEF E!Complete
<1>. DEFINE expected == Made[c].nodes \ Made[c].containers
            terminal == expected \ Made[c].sources
<1>2. /\ seen[c].at = E!Home
      /\ \A n \in expected : seen[c].facts[n] \notin {"gone", "unreadable"}
      /\ \A n \in terminal : seen[c].facts[n] = "solid"
  BY <1>1 DEF E!ValidateAppliedScene
<1>3. \A n \in expected : seen[c].facts[n] \in E!Looks
  BY DEF Readings, E!Nodes
<1>4. capture[c] # None => capture[c].framed
  BY DEF E!Complete, E!ValidateCapture
<1>. QED
  BY <1>2, <1>3, <1>4 DEF SoundReading, E!Looks

\* The verdict
LEMMA EvidenceReport ==
    ASSUME EvidenceInv, NEW c \in Change, E!Report(c) PROVE EvidenceInv'
<1>0. /\ pc[c] = "report" /\ pc' = [pc EXCEPT ![c] = "evaluate"]
      /\ UNCHANGED <<opened, facts, row, results, capture, vision, seen>>
  BY DEF E!Report, E!Goto
<1>10. capture[c] # None =>
          \E k \in DOMAIN results[c] : results[c][k] = E!ValidateCapture(capture[c].framed)
  BY <1>0 DEF EvidenceInv, ShotsHold, ShotsTaken
<1>1. E!Complete(results[c]) => SoundReading(c)
  BY <1>0, <1>10, ReadingKept, CompleteIsSound
<1>2. PICK whole \in BOOLEAN : whole = E!Complete(results[c])
  BY DEF E!Complete
<1>3. log' = Append(log, [kind |-> "completed", change |-> c, complete |-> whole])
  BY <1>2 DEF E!Report, E!Emit
<1>4. PICK e : e = [kind |-> "completed", change |-> c, complete |-> whole]
  OBVIOUS
<1>5. /\ e.kind = "completed" /\ e.change = c /\ e.complete = whole /\ e.complete \in BOOLEAN
      /\ log' = Append(log, e)
  BY <1>3, <1>4
<1>6. e.complete = TRUE => SoundReading(c) /\ E!Complete(results'[c])
  BY <1>0, <1>1, <1>2, <1>5
<1>7. /\ pc[c] \notin After("completed") /\ "completed" \in Kinds /\ pc[c] \notin E!Waiting
      /\ \A kind \in Kinds : "evaluate" \in After(kind) \/ (kind = "vision" /\ pc[c] \notin After(kind))
  BY <1>0 DEF After, Kinds, E!Waiting
<1>8. "evaluate" \in After("completed")
  BY DEF After
<1>9. DOMAIN results' = Change /\ results'[c] \in Seq(Statuses)
  BY <1>0 DEF EvidenceInv, EvidenceTypes
<1>. QED
  BY <1>0, <1>5, <1>6, <1>7, <1>8, <1>9, ToldMore

\* The verdict that there is none
LEMMA EvidenceGiveUp ==
    ASSUME EvidenceInv, NEW c \in Change, E!GiveUp(c) PROVE EvidenceInv'
<1>0. /\ pc[c] \in {"inspect", "sample", "capture", "publish"} /\ pc' = [pc EXCEPT ![c] = "evaluate"]
      /\ UNCHANGED <<opened, facts, row, results, capture, vision, seen>>
  BY DEF E!GiveUp
<1>1. PICK e : e = [kind |-> "unavailable", change |-> c, complete |-> FALSE]
  OBVIOUS
<1>2. e.kind = "unavailable" /\ e.change = c /\ e.complete = FALSE /\ log' = Append(log, e)
  BY <1>1 DEF E!GiveUp, E!Emit
<1>3. /\ \A kind \in Kinds : pc[c] \notin After(kind)
      /\ "evaluate" \in After("unavailable") /\ "unavailable" \in Kinds /\ "completed" \in Kinds
      /\ pc[c] \notin E!Waiting
  BY <1>0 DEF After, Kinds, E!Waiting
<1>4. DOMAIN results' = Change /\ results'[c] \in Seq(Statuses)
  BY <1>0 DEF EvidenceInv, EvidenceTypes
<1>. QED
  BY <1>0, <1>2, <1>3, <1>4, ToldMore

\* The router's outcome is noted, with the verdict's own word for its validity
LEMMA EvidenceOutcome ==
    ASSUME EvidenceInv, NEW c \in Change, pc[c] \in {"evaluate", "look"}, capture[c] # None,
           NEW out, GoodOutcome(out), out.decision.valid => E!Deterministic(c),
           vision' = [vision EXCEPT ![c] = out], pc' = [pc EXCEPT ![c] = "record"],
           UNCHANGED <<opened, facts, row, results, capture, seen, log>>
    PROVE  EvidenceInv'
<1>1. /\ DOMAIN results' = Change /\ DOMAIN seen' = Change
      /\ DOMAIN capture' = Change /\ DOMAIN vision' = Change
      /\ vision'[c] = out /\ \A d \in Change \ {c} : vision'[d] = vision[d]
      /\ results'[c] \in Seq(Statuses)
  BY DEF EvidenceInv, EvidenceTypes
<1>2. /\ \A kind \in Kinds : pc[c] \in After(kind) => "record" \in After(kind)
      /\ pc[c] \notin E!Waiting
  BY DEF After, Kinds, E!Waiting
<1>3. capture[c].at.epoch = 1
  BY DEF EvidenceInv, ShotsHold, ShotsTaken
<1>. QED
  BY <1>1, <1>2, <1>3, FoundMore

\* The start of the delivery evaluation
LEMMA EvidenceEvaluate ==
    ASSUME EvidenceInv, NEW c \in Change, E!Evaluate(c) PROVE EvidenceInv'
<1>0. /\ pc[c] = "evaluate"
      /\ UNCHANGED <<opened, facts, row, results, capture, seen, log>>
  BY DEF E!Evaluate, E!Goto
<1>1. ASSUME NEW to, UNCHANGED vision, pc' = [pc EXCEPT ![c] = to],
             \/ capture[c] = None /\ to = "done"
             \/ capture[c] # None /\ to = "look"
      PROVE  EvidenceInv'
  <2>1. \A d \in Change : pc'[d] = IF d = c THEN to ELSE pc[d]
    BY <1>1 DEF EvidenceInv, EvidenceTypes, E!TypeOK
  <2>2. E!TypeOK'
    BY <1>0, <1>1 DEF EvidenceInv, EvidenceTypes, E!TypeOK
  <2>3. RowsHold'
    BY <1>0, <2>1 DEF EvidenceInv, RowsHold, E!Waiting
  <2>. QED
    BY <1>0, <1>1, <2>1, <2>2, <2>3, OnlyMoved
<1>2. ASSUME capture[c] # None, pc' = [pc EXCEPT ![c] = "record"],
             vision' = [vision EXCEPT ![c] = E!Unavailable(E!Deterministic(c))]
      PROVE  EvidenceInv'
  <2>1. PICK v \in BOOLEAN : v = E!Deterministic(c)
    BY DEF E!Deterministic
  <2>2. GoodOutcome(E!Unavailable(v)) /\ E!Unavailable(v).decision.valid = v
    <3>1. [passed |-> TRUE, long |-> TRUE] \in Reports
      BY DEF Reports
    <3>. QED
      BY <3>1, RouterOutcomes
  <2>3. PICK out : out = E!Unavailable(v)
    OBVIOUS
  <2>4. vision' = [vision EXCEPT ![c] = out]
    BY <1>2, <2>1, <2>3
  <2>5. GoodOutcome(out) /\ (out.decision.valid => E!Deterministic(c))
    BY <2>1, <2>2, <2>3
  <2>. QED
    BY <1>0, <1>2, <2>4, <2>5, EvidenceOutcome
<1>3. \/ capture[c] = None /\ pc' = [pc EXCEPT ![c] = "done"] /\ UNCHANGED vision
      \/ capture[c] # None /\ pc' = [pc EXCEPT ![c] = "look"] /\ UNCHANGED vision
      \/ /\ capture[c] # None /\ pc' = [pc EXCEPT ![c] = "record"]
         /\ vision' = [vision EXCEPT ![c] = E!Unavailable(E!Deterministic(c))]
  BY Zenon DEF E!Evaluate, E!Goto
<1>. QED
  BY <1>1, <1>2, <1>3

\* The provider's look
LEMMA EvidenceLook ==
    ASSUME EvidenceInv, NEW c \in Change, E!Look(c) PROVE EvidenceInv'
<1>0. /\ pc[c] = "look" /\ pc' = [pc EXCEPT ![c] = "record"]
      /\ UNCHANGED <<opened, facts, row, results, capture, seen, log>>
  BY DEF E!Look, E!Goto
<1>1. capture[c] # None
  BY <1>0 DEF EvidenceInv, OutcomesHold
<1>2. PICK v \in BOOLEAN : v = E!Deterministic(c)
  BY DEF E!Deterministic
<1>3. PICK passed \in BOOLEAN, long \in BOOLEAN :
         vision' \in {[vision EXCEPT ![c] = E!Failed(E!Deterministic(c))],
                      [vision EXCEPT ![c] = E!Completed(E!Deterministic(c),
                                                        [passed |-> passed, long |-> long])]}
  BY Zenon DEF E!Look
<1>4. PICK report \in Reports : report = [passed |-> passed, long |-> long]
  BY DEF Reports
<1>5. PICK out \in {E!Failed(v), E!Completed(v, report)} : vision' = [vision EXCEPT ![c] = out]
  BY <1>2, <1>3, <1>4
<1>6. GoodOutcome(out) /\ (out.decision.valid => E!Deterministic(c))
  BY <1>2, <1>5, RouterOutcomes
<1>. QED
  BY <1>0, <1>1, <1>5, <1>6, EvidenceOutcome

\* The evaluation is recorded, unless its summary or its picture is too large
LEMMA EvidenceRecord ==
    ASSUME EvidenceInv, NEW c \in Change, E!Record(c) PROVE EvidenceInv'
<1>0. /\ pc[c] = "record" /\ pc' = [pc EXCEPT ![c] = "done"]
      /\ UNCHANGED <<opened, facts, row, results, capture, vision, seen>>
  BY DEF E!Record, E!Goto
<1>1. /\ capture[c] # None /\ GoodOutcome(vision[c])
      /\ vision[c].decision.valid => E!Deterministic(c)
  BY <1>0 DEF EvidenceInv, OutcomesHold
<1>2. /\ DOMAIN results' = Change /\ DOMAIN seen' = Change
      /\ DOMAIN capture' = Change /\ DOMAIN vision' = Change
      /\ results'[c] \in Seq(Statuses)
  BY <1>0 DEF EvidenceInv, EvidenceTypes
<1>3. /\ \A kind \in Kinds : pc[c] \in After(kind) => "done" \in After(kind)
      /\ pc[c] \notin After("vision") /\ "vision" \in Kinds /\ "done" \in After("vision")
      /\ pc[c] \notin E!Waiting
  BY <1>0 DEF After, Kinds, E!Waiting
<1>4. CASE E!Constructible(vision[c], capture[c])
  <2>1. PICK e : e = [kind |-> "vision", change |-> c, decision |-> vision[c].decision,
                      report |-> vision[c].report]
    OBVIOUS
  <2>2. /\ e.kind = "vision" /\ e.change = c /\ e.decision = vision[c].decision
        /\ e.report = vision[c].report
    BY <2>1
  <2>3. log' = Append(log, e)
    BY <1>4, <2>1 DEF E!Record, E!Emit
  <2>4. e.decision \in Decisions /\ E!ParseVisionEvent(e) /\ (e.decision.accepted => E!Deterministic(c))
    BY <1>1, <1>4, <2>2 DEF E!ParseVisionEvent, E!Constructible, E!ValidDecision,
                            E!ValidEvaluation, GoodOutcome, Decisions
  <2>. QED
    BY <1>0, <1>1, <1>2, <1>3, <2>2, <2>3, <2>4, ToldMore
<1>5. CASE ~E!Constructible(vision[c], capture[c])
  <2>1. log' = log
    BY <1>5 DEF E!Record
  <2>2. capture[c].large \/ (vision[c].report # None /\ vision[c].report.long)
    BY <1>1, <1>5 DEF GoodOutcome
  <2>3. capture[c].at.epoch = 1
    BY <1>1 DEF EvidenceInv, ShotsHold, ShotsTaken
  <2>. QED
    BY <1>0, <1>2, <1>3, <2>1, <2>2, <2>3, FoundMore
<1>. QED
  BY <1>4, <1>5

\* Before any apply there is nothing to tell
LEMMA EvidenceStarts == E!Init => EvidenceInv
<1>. SUFFICES ASSUME E!Init PROVE EvidenceInv
  OBVIOUS
<1>1. log = <<>> /\ DOMAIN log = {} /\ IsSeq(log)
  BY DEF E!Init, IsSeq
<1>2. EvidenceTypes
  BY DEF E!Init, EvidenceTypes, E!TypeOK, E!Looks, E!Bindings, E!Home, E!Open, E!Waiting
<1>3. Story
  BY <1>1 DEF Story, LogTypes, ToldInOrder, E!OneStoryPerChange
<1>4. ResultsOfReading /\ OutcomesHold
  BY DEF E!Init, ResultsOfReading, OutcomesHold
<1>5. VerdictsHold
  BY <1>1 DEF VerdictsHold, VerdictsTyped, VerdictsSound
<1>6. EvaluationsHold
  BY <1>1 DEF E!Init, EvaluationsHold, EvaluationsParse, EvaluationsRest, EvaluationsTold
<1>7. ShotsHold /\ RowsHold
  BY <1>1 DEF E!Init, ShotsHold, ShotsTaken, ShotsTold, RowsHold, E!Waiting, Unshot
<1>. QED
  BY <1>2, <1>3, <1>4, <1>5, <1>6, <1>7 DEF EvidenceInv

\* Every step of the evidence
LEMMA EvidenceStep == EvidenceInv /\ E!Next => EvidenceInv'
<1>. SUFFICES ASSUME EvidenceInv, E!Next PROVE EvidenceInv'
  OBVIOUS
<1>1. \/ \E c \in Change :
           \/ E!Ask(c) \/ E!ApplyDone(c) \/ E!Rejoined(c) \/ E!ApplyFails(c) \/ E!Recover(c)
           \/ E!GiveUp(c) \/ E!VerdictIsLost(c) \/ E!Inspect(c) \/ E!Sample(c)
           \/ E!CaptureChange(c) \/ E!Publish(c) \/ E!Report(c) \/ E!Evaluate(c) \/ E!Look(c)
           \/ E!Record(c) \/ E!Swallowed(c)
      \/ E!Edit \/ E!Crash
  BY Zenon DEF E!Next
<1>. QED
  BY <1>1, EvidenceApply, EvidenceWorld, EvidenceGiveUp, EvidenceInspect, EvidenceSample, EvidenceCapture,
     EvidencePublish, EvidenceReport, EvidenceEvaluate, EvidenceLook, EvidenceRecord

\* What the invariant says to the panel
LEMMA EvidenceSays == EvidenceInv => EvidenceIsSound
<1>. SUFFICES ASSUME EvidenceInv PROVE EvidenceIsSound
  OBVIOUS
<1>1. E!OneStoryPerChange
  BY DEF EvidenceInv, Story
<1>2. \A i \in DOMAIN E!VisionRows :
         /\ i \in DOMAIN log /\ log[i].kind = "vision" /\ log[i].change \in Change
         /\ E!VisionRows[i] = [change |-> log[i].change, accepted |-> log[i].decision.accepted]
         /\ E!VisionRows[i].change = log[i].change
  BY DEF E!VisionRows, EvidenceInv, Story, LogTypes, EvaluationsHold, EvaluationsParse
<1>3. \A i \in DOMAIN E!VisionRows : E!VisionRows[i] # None
  BY <1>2, NoneAssumption DEF EvidenceInv, EvaluationsHold, EvaluationsParse, Decisions
<1>4. E!AcceptedIsVerified
  <2>1. SUFFICES ASSUME NEW i \in DOMAIN E!VisionRows, E!VisionRows[i].accepted,
                        NEW c, c = E!VisionRows[i].change
                 PROVE  /\ SoundReading(c) /\ capture[c] # None /\ capture[c].at.epoch = 1
                        /\ \A k \in DOMAIN results[c] : results[c][k] = "Passed"
                        /\ \E k \in DOMAIN log : log[k].change = c /\ log[k].kind = "completed"
                                                 /\ log[k].complete
    BY DEF E!AcceptedIsVerified, SoundReading, E!Home
  <2>2. c \in Change /\ c = log[i].change /\ log[i].decision.accepted
    BY <1>2, <2>1
  <2>3. E!Deterministic(c)
    BY <1>2, <2>2 DEF EvidenceInv, EvaluationsHold, EvaluationsRest
  <2>4. PICK k \in DOMAIN log : /\ log[k].change = c /\ log[k].kind = "completed"
                                /\ log[k].complete /\ log[k].complete = TRUE
    BY <2>3 DEF E!Deterministic, EvidenceInv, VerdictsHold, VerdictsTyped
  <2>5. SoundReading(c) /\ E!Complete(results[c])
    BY <2>2, <2>4 DEF EvidenceInv, VerdictsHold, VerdictsSound
  <2>6. capture[c] # None /\ capture[c].at.epoch = 1
    BY <1>2, <2>2 DEF EvidenceInv, ShotsHold, ShotsTaken, ShotsTold
  <2>. QED
    BY <2>4, <2>5, <2>6 DEF E!Complete
<1>5. E!EvaluationIsReadable
  <2>1. \A c \in Change :
          (/\ pc[c] = "done" /\ capture[c] # None /\ ~capture[c].large
           /\ ~(vision[c].report # None /\ vision[c].report.long))
              => \E i \in DOMAIN E!VisionRows : E!VisionRows[i].change = c
    <3>1. SUFFICES ASSUME NEW c \in Change, pc[c] = "done", capture[c] # None, ~capture[c].large,
                          ~(vision[c].report # None /\ vision[c].report.long)
                   PROVE  \E i \in DOMAIN E!VisionRows : E!VisionRows[i].change = c
      OBVIOUS
    <3>2. PICK i \in DOMAIN log : log[i].kind = "vision" /\ log[i].change = c
      BY <3>1 DEF EvidenceInv, EvaluationsHold, EvaluationsTold
    <3>3. i \in DOMAIN E!VisionRows
      BY <3>2 DEF E!VisionRows
    <3>. QED
      BY <1>2, <3>2, <3>3
  <2>. QED
    BY <1>3, <2>1 DEF E!EvaluationIsReadable
<1>. QED
  BY <1>1, <1>4, <1>5 DEF EvidenceIsSound

\* _validate_applied_changeset and _record_delivery_evaluation: what the panel shows as
\* accepted was read in the scene the change was approved for, cooked there, and captured at
\* its scene epoch; a finished evaluation of a short report and a small picture is one the
\* panel can read, and each change has one story, for any changes, edits, restarts of
\* Houdini, crashes and repeated applies.
THEOREM AcceptanceIsEarned == MCSpec => []EvidenceIsSound
<1>1. MCInit => EvidenceInv
  BY EvidenceStarts DEF MCInit
<1>2. EvidenceInv /\ [MCNext]_<<part, vars, launchVars, agentVars, compilerVars, evidenceVars,
                                knowledgeVars>> => EvidenceInv'
  <2>1. EvidenceInv /\ UNCHANGED evidenceVars => EvidenceInv'
    <3>1. SUFFICES ASSUME EvidenceInv, UNCHANGED evidenceVars PROVE EvidenceInv'
      OBVIOUS
    <3>2. UNCHANGED <<opened, facts, row, pc, results, capture, vision, seen, log>>
      BY <3>1 DEF evidenceVars
    <3>3. E!TypeOK'
      BY <3>1, <3>2 DEF EvidenceInv, EvidenceTypes, E!TypeOK
    <3>4. RowsHold'
      BY <3>1, <3>2 DEF EvidenceInv, RowsHold
    <3>. QED
      BY <3>1, <3>2, <3>3, <3>4, OnlyMoved
  <2>. QED
    BY <2>1, EvidenceStep DEF MCNext
<1>3. EvidenceInv => EvidenceIsSound
  BY EvidenceSays
<1>. QED
  BY <1>1, <1>2, <1>3, PTL DEF MCSpec

-----------------------------------------------------------------------------
(* The knowledge cache *)

AllPages == UNION {K!ToSet(corpus.pages) : corpus \in Corpora}

EntityOK(e) ==
    /\ e.kind \in K!Kinds /\ e.id[1] = e.kind /\ e.current \in BOOLEAN
    /\ e.kind # "node" => e.current
    /\ ~e.current => e.version # None
    /\ e.kind = "node" => IsSeq(e.stem) /\ Len(e.stem) >= 1
EntitiesOK(S) ==
    /\ \A e \in S : EntityOK(e)
    /\ \A e, f \in S : e.id = f.id => e = f

Owned(a, S) == \E e \in S : e.id = a.of
AnchorIsMethod(a) ==
    a.of[1] \in K!Hom /\ K!HasAnchor(a.alias) =>
        a.of = <<"hom_method", a.alias[1], a.alias[3]>> /\ a.of # None

\* A row as the parsers make it: an operator's name ranks 100, and of an outdated page no
\* other name of one part ranks above 60
RowOK(a, S) ==
    /\ a.priority \in {20, 60, 80, 100} /\ (a.type = "operator" => a.priority = 100)
    /\ Owned(a, S) /\ AnchorIsMethod(a)
    /\ \A e \in S : e.id = a.of /\ ~e.current /\ a.type # "operator" /\ Len(a.alias) = 1
                       => a.priority <= 60
OperatorRow(e) == K!Alias(<<e.name>>, e.id, "operator", 100)
EdgeOK(x) ==
    /\ x = [from |-> x.from, predicate |-> x.predicate, kind |-> x.kind, raw |-> x.raw,
            to |-> x.to]
    /\ x.to # None => x.predicate = "declares_method" /\ x.to[1] = "hom_method"
DraftOK(d) ==
    /\ d = [entities |-> d.entities, aliases |-> d.aliases, edges |-> d.edges]
    /\ EntitiesOK(d.entities)
    /\ \A a \in d.aliases : RowOK(a, d.entities)
    /\ \A e \in d.entities : e.kind = "node" => OperatorRow(e) \in d.aliases
    /\ \A x \in d.edges : EdgeOK(x)

\* The linked graph: a historical page has no name of one part above 60, a current operator
\* has its name at 100 or more, and a link leads where the linker's own rule says
RowsOK(rows, S) ==
    /\ \A a \in rows : a.priority \in Nat /\ Owned(a, S) /\ AnchorIsMethod(a)
    /\ \A a \in rows, e \in S :
          e.id = a.of /\ ~e.current /\ Len(a.alias) = 1 => a.priority <= 60
    /\ \A e \in S : e.kind = "node" /\ e.current =>
          \E a \in rows : a.alias = <<e.name>> /\ a.of = e.id /\ a.priority >= 100
LinkOK(x, rows) ==
    x.to # None =>
        \/ x.predicate = "declares_method" /\ x.to[1] = "hom_method"
        \/ x.to = K!ResolveEdge([from |-> x.from, predicate |-> x.predicate, kind |-> x.kind,
                                 raw |-> x.raw, to |-> None], rows)
GraphOK(g) ==
    /\ EntitiesOK(g.entities) /\ RowsOK(g.aliases, g.entities)
    /\ \A x \in g.edges : LinkOK(x, g.aliases)
    /\ K!ValidGraph(g)

KnowledgeInv ==
    /\ todo \in Seq(AllPages) /\ DraftOK(draft)
    /\ cache # None => GraphOK(cache)

\* Of a set with one element, it is the only one
LEMMA TheOnlyOne ==
    ASSUME NEW ids
    PROVE  /\ \A id : ids = {id} => K!Single(ids) /\ K!TheOnly(ids) = id
           /\ K!TheOnly(ids) # None => ids = {K!TheOnly(ids)}
<1>1. \A id : ids = {id} => K!Single(ids) /\ K!TheOnly(ids) = id
  BY DEF K!Single, K!TheOnly
<1>2. K!TheOnly(ids) # None => ids = {K!TheOnly(ids)}
  BY <1>1 DEF K!Single, K!TheOnly
<1>. QED
  BY <1>1, <1>2

\* A name of one part that a current operator has is not resolved to a historical page
LEMMA ResolvesToCurrent ==
    ASSUME NEW g, GraphOK(g), NEW e \in g.entities, e.kind = "node", e.current, NEW kinds,
           NEW to, to = K!ResolveByAlias(<<e.name>>, kinds, g.aliases), to # None
    PROVE  /\ \E f \in g.entities : f.id = to
           /\ \A f \in g.entities : f.id = to => f.current
<1>. DEFINE rows == {a \in g.aliases : a.alias = <<e.name>> /\ a.of[1] \in kinds}
<1>1. K!Owners(K!Top(rows)) = {to}
  BY TheOnlyOne DEF K!ResolveByAlias
<1>2. PICK a \in K!Top(rows) : a.of = to
  BY <1>1 DEF K!Owners
<1>3. a \in g.aliases /\ a.alias = <<e.name>> /\ to[1] \in kinds
  BY <1>2 DEF K!Top
<1>4. \E f \in g.entities : f.id = to
  BY <1>2, <1>3 DEF GraphOK, RowsOK, Owned
<1>5. ASSUME NEW f \in g.entities, f.id = to, ~f.current PROVE FALSE
  <2>1. f.kind = "node" /\ to[1] = "node"
    BY <1>5 DEF GraphOK, EntitiesOK, EntityOK
  <2>2. PICK b \in g.aliases : b.alias = <<e.name>> /\ b.of = e.id /\ b.priority >= 100
    BY DEF GraphOK, RowsOK
  <2>3. e.id[1] = "node"
    BY DEF GraphOK, EntitiesOK, EntityOK
  <2>4. b \in rows
    BY <1>3, <2>1, <2>2, <2>3
  <2>5. b.priority <= a.priority
    BY <1>2, <2>4 DEF K!Top
  <2>6. a.priority <= 60
    BY <1>2, <1>3, <1>5 DEF GraphOK, RowsOK
  <2>. QED
    BY <1>3, <2>2, <2>5, <2>6 DEF GraphOK, RowsOK
<1>. QED
  BY <1>4, <1>5

\* The entity of an id of the cache
LEMMA EntityFound ==
    ASSUME GraphOK(cache), NEW id, \E e \in cache.entities : e.id = id
    PROVE  K!Entity(id) \in cache.entities /\ K!Entity(id).id = id
BY DEF K!Entity

\* The owners of a name's rows of the highest rank, of the allowed kinds
Candidates(s, kinds) ==
    {id \in K!Owners(K!AliasCandidates(s)) : kinds = {} \/ id[1] \in kinds}

\* What a search answers with is among the rows of the highest rank
LEMMA SearchAnswers ==
    ASSUME NEW s, NEW kinds
    PROVE  /\ Candidates(s, kinds) = {} => K!SearchSymbol(s, kinds, TRUE).code = "no_match"
           /\ Candidates(s, kinds) # {} =>
                 K!SearchSymbol(s, kinds, TRUE).ids = Candidates(s, kinds)
           /\ K!SearchSymbol(s, kinds, TRUE).ids \subseteq Candidates(s, kinds)
<1>1. PICK ids : ids = {id \in K!Owners(K!AliasCandidates(s)) : kinds = {} \/ id[1] \in kinds}
  OBVIOUS
<1>2. /\ ids = {} => K!SearchSymbol(s, kinds, TRUE).code = "no_match"
      /\ ids # {} => K!SearchSymbol(s, kinds, TRUE).ids = ids
      /\ K!SearchSymbol(s, kinds, TRUE).ids \subseteq ids
  BY <1>1 DEF K!SearchSymbol
<1>. QED
  BY <1>1, <1>2 DEF Candidates

\* The unversioned name of a current operator finds no historical page and leads to none
LEMMA NamesAreCurrent == (cache # None => GraphOK(cache)) => K!OperatorNameIsCurrent
<1>. SUFFICES ASSUME GraphOK(cache), NEW e \in K!CurrentNodes
              PROVE  /\ \A id \in K!SearchSymbol(<<e.name>>, {"node"}, TRUE).ids :
                           K!Entity(id).current
                     /\ \A x \in cache.edges :
                           x.kind = "node" /\ x.raw = <<e.name>> /\ x.to # None =>
                               K!Entity(x.to).current
  BY DEF K!OperatorNameIsCurrent
<1>0. e \in cache.entities /\ e.kind = "node" /\ e.current
  BY DEF K!CurrentNodes
<1>1. ASSUME NEW id \in K!SearchSymbol(<<e.name>>, {"node"}, TRUE).ids
      PROVE  K!Entity(id).current
  <2>1. id \in K!Owners(K!AliasCandidates(<<e.name>>))
    <3>1. K!SearchSymbol(<<e.name>>, {"node"}, TRUE).ids \subseteq Candidates(<<e.name>>, {"node"})
      BY SearchAnswers
    <3>. QED
      BY <1>1, <3>1 DEF Candidates
  <2>2. PICK a \in cache.aliases :
           /\ a.of = id /\ a.alias = <<e.name>>
           /\ \A b \in cache.aliases : b.alias = <<e.name>> => b.priority <= a.priority
    BY <2>1 DEF K!Owners, K!AliasCandidates, K!Top
  <2>3. PICK b \in cache.aliases : b.alias = <<e.name>> /\ b.of = e.id /\ b.priority >= 100
    BY <1>0 DEF GraphOK, RowsOK
  <2>4. a.priority \in Nat /\ b.priority \in Nat /\ \E f \in cache.entities : f.id = id
    BY <2>2, <2>3 DEF GraphOK, RowsOK, Owned
  <2>5. a.priority >= 100
    BY <2>2, <2>3, <2>4
  <2>6. K!Entity(id) \in cache.entities /\ K!Entity(id).id = id
    BY <2>4, EntityFound
  <2>7. Len(a.alias) = 1
    BY <2>2
  <2>. QED
    BY <2>2, <2>4, <2>5, <2>6, <2>7 DEF GraphOK, RowsOK
<1>2. ASSUME NEW x \in cache.edges, x.kind = "node", x.raw = <<e.name>>, x.to # None
      PROVE  K!Entity(x.to).current
  <2>1. K!Entity(x.to) \in cache.entities /\ K!Entity(x.to).id = x.to
    <3>1. \E f \in cache.entities : f.id = x.to
      BY <1>2 DEF GraphOK, K!ValidGraph
    <3>. QED
      BY <3>1, EntityFound
  <2>2. CASE x.to[1] = "hom_method"
    BY <2>1, <2>2 DEF GraphOK, EntitiesOK, EntityOK
  <2>3. CASE x.to[1] # "hom_method"
    <3>1. PICK y : /\ y = [from |-> x.from, predicate |-> x.predicate, kind |-> x.kind,
                           raw |-> x.raw, to |-> None]
                   /\ x.to = K!ResolveEdge(y, cache.aliases)
      BY <1>2, <2>3 DEF GraphOK, LinkOK
    <3>2. y.to = None /\ y.raw = <<e.name>> /\ y.kind = "node"
      BY <1>2, <3>1
    <3>3. ~K!HasAnchor(<<e.name>>)
      BY DEF K!HasAnchor
    <3>4. \E kinds : x.to = K!ResolveByAlias(<<e.name>>, kinds, cache.aliases)
      BY <1>2, <3>1, <3>2, <3>3 DEF K!ResolveEdge, K!ResolveTyped
    <3>. QED
      BY <1>0, <1>2, <2>1, <3>4, ResolvesToCurrent
  <2>. QED
    BY <2>2, <2>3
<1>. QED
  BY <1>1, <1>2

\* The linker and the search: a typed link and a search within its kinds agree
LEMMA SearchAndLinks == (cache # None => GraphOK(cache)) => K!SearchAgreesWithLinks
<1>. SUFFICES ASSUME GraphOK(cache), NEW x \in cache.edges, x.predicate = "references",
                     x.to # None
              PROVE  LET answer == K!SearchSymbol(x.raw, K!KindsForPrefix(x.kind), TRUE)
                     IN answer.code = "no_match" \/ answer.ids = {x.to}
  BY DEF K!SearchAgreesWithLinks
<1>. DEFINE kinds == K!KindsForPrefix(x.kind)
            rows == {a \in cache.aliases : a.alias = x.raw /\ a.of[1] \in kinds}
            exact == K!ResolveByAlias(x.raw, kinds, cache.aliases)
<1>1. PICK ids : ids = Candidates(x.raw, kinds)
  OBVIOUS
<1>2. /\ ids = {} => K!SearchSymbol(x.raw, kinds, TRUE).code = "no_match"
      /\ ids # {} => K!SearchSymbol(x.raw, kinds, TRUE).ids = ids
  BY <1>1, SearchAnswers
<1>3. /\ x.to = K!ResolveTyped(x.kind, x.raw, cache.aliases)
      /\ x.kind # None
  <2>1. PICK y : /\ y = [from |-> x.from, predicate |-> x.predicate, kind |-> x.kind,
                         raw |-> x.raw, to |-> None]
                 /\ x.to = K!ResolveEdge(y, cache.aliases)
    BY DEF GraphOK, LinkOK
  <2>2. y.to = None /\ y.raw = x.raw /\ y.kind = x.kind /\ y.predicate = "references"
    BY <2>1
  <2>. QED
    BY <2>1, <2>2 DEF K!ResolveEdge
<1>4. kinds # {}
  <2>1. CASE kinds = {}
    <3>1. exact = None
      BY <2>1 DEF K!ResolveByAlias, K!Top, K!Owners, K!TheOnly, K!Single
    <3>2. x.kind # "hom"
      BY <2>1 DEF K!KindsForPrefix, K!Hom
    <3>. QED
      BY <1>3, <3>1, <3>2 DEF K!ResolveTyped
  <2>. QED
    BY <2>1
\* a row of the highest rank of all, of an allowed kind, has the highest rank of its kinds
<1>5. ASSUME NEW id \in ids PROVE id \in K!Owners(K!Top(rows))
  <2>1. PICK a \in K!AliasCandidates(x.raw) : a.of = id
    BY <1>1, <1>5 DEF Candidates, K!Owners
  <2>2. a \in rows /\ \A b \in rows : b.priority <= a.priority
    BY <1>1, <1>4, <1>5, <2>1 DEF Candidates, K!AliasCandidates, K!Top
  <2>. QED
    BY <2>1, <2>2 DEF K!Owners, K!Top
<1>6. CASE exact # None
  <2>1. x.to = exact
    BY <1>3, <1>6 DEF K!ResolveTyped
  <2>2. K!Owners(K!Top(rows)) = {x.to}
    BY <1>6, <2>1, TheOnlyOne DEF K!ResolveByAlias
  <2>3. ids = {} \/ ids = {x.to}
    BY <1>5, <2>2
  <2>. QED
    BY <1>2, <2>3
<1>7. CASE exact = None
  <2>1. x.kind = "hom" /\ K!HasAnchor(x.raw)
    BY <1>3, <1>7 DEF K!ResolveTyped
  <2>2. kinds = K!Hom
    BY <2>1 DEF K!KindsForPrefix
  <2>3. ASSUME NEW id \in ids PROVE FALSE
    <3>. DEFINE m == <<"hom_method", x.raw[1], x.raw[3]>>
    <3>1. \A a \in rows : a.of = m /\ m # None
      BY <2>1, <2>2 DEF GraphOK, RowsOK, AnchorIsMethod
    <3>2. K!Owners(K!Top(rows)) = {m} /\ m # None
      <4>1. K!Owners(K!Top(rows)) \subseteq {m}
        BY <3>1 DEF K!Owners, K!Top
      <4>2. id \in K!Owners(K!Top(rows))
        BY <1>5, <2>3
      <4>3. \E a \in rows : TRUE
        BY <4>2 DEF K!Owners, K!Top
      <4>. QED
        BY <3>1, <4>1, <4>2, <4>3
    <3>3. exact = m
      BY <3>2, TheOnlyOne DEF K!ResolveByAlias
    <3>. QED
      BY <1>7, <3>2, <3>3
  <2>4. ids = {}
    BY <2>3
  <2>. QED
    BY <1>2, <2>4
<1>. QED
  BY <1>6, <1>7

\* The rows that the linker adds: an operator's verified name, of a current page, and a
\* file's name, which has two parts or more
LEMMA AddedRow ==
    ASSUME NEW S, EntitiesOK(S), NEW inventory, NEW a \in K!ExtraAliases(S, inventory)
    PROVE  \E e \in S :
              /\ e.kind = "node" /\ a.of = e.id /\ a.priority \in Nat
              /\ \/ a.type = "operator" /\ a.priority = 200 /\ e.current
                 \/ a.type = "filename" /\ Len(a.alias) >= 2
<1>1. PICK e \in S :
         /\ e.kind = "node"
         /\ \/ \E v \in K!Verified(e, inventory) : a = K!Alias(v, e.id, "operator", 200)
            \/ a = K!Alias(<<"sop">> \o e.stem, e.id, "filename", 70)
  BY DEF K!ExtraAliases
<1>2. CASE \E v \in K!Verified(e, inventory) : a = K!Alias(v, e.id, "operator", 200)
  <2>1. e.current
    BY <1>2 DEF K!Verified
  <2>2. a.of = e.id /\ a.type = "operator" /\ a.priority = 200
    BY <1>2 DEF K!Alias
  <2>. QED
    BY <1>1, <2>1, <2>2
<1>3. CASE a = K!Alias(<<"sop">> \o e.stem, e.id, "filename", 70)
  <2>1. a.of = e.id /\ a.type = "filename" /\ a.priority = 70 /\ a.alias = <<"sop">> \o e.stem
    BY <1>3 DEF K!Alias
  <2>2. IsSeq(e.stem) /\ Len(e.stem) >= 1
    BY <1>1 DEF EntitiesOK, EntityOK
  <2>3. PICK T : e.stem \in Seq(T) /\ <<"sop">> \in Seq(T)
    <3>1. e.stem \in Seq({e.stem[i] : i \in DOMAIN e.stem} \cup {"sop"})
      BY <2>2 DEF IsSeq
    <3>. QED
      BY <3>1
  <2>4. Len(<<"sop">> \o e.stem) = Len(<<"sop">>) + Len(e.stem) /\ Len(e.stem) \in Nat
    BY <2>3
  <2>5. Len(a.alias) >= 2
    BY <2>1, <2>2, <2>4
  <2>. QED
    BY <1>1, <2>1, <2>5
<1>. QED
  BY <1>1, <1>2, <1>3

\* The name under which a historical page may stay an operator has two parts
LEMMA RetainedHasVersion ==
    ASSUME NEW e, EntityOK(e), ~e.current, K!Retained(e) # None
    PROVE  Len(K!Retained(e)) = 2
BY DEF EntityOK, K!Retained, K!Operator

\* The rows that are left after deduplication and isolation
LEMMA LinkedRows ==
    ASSUME NEW d, DraftOK(d), NEW inventory, NEW union,
           union = d.aliases \cup K!ExtraAliases(d.entities, inventory),
           NEW rows, rows = K!IsolateHistoricalOperatorAliases(K!DedupeAliases(union), d.entities)
    PROVE  RowsOK(rows, d.entities)
<1>0. EntitiesOK(d.entities)
  BY DEF DraftOK
<1>1. ASSUME NEW a \in union
      PROVE  /\ a.priority \in Nat /\ Owned(a, d.entities) /\ AnchorIsMethod(a)
             /\ a.type = "operator" => a.priority \in {100, 200}
             /\ \A e \in d.entities : e.id = a.of /\ ~e.current /\ Len(a.alias) = 1
                                      /\ a.type # "operator" => a.priority <= 60
  <2>1. CASE a \in d.aliases
    BY <2>1 DEF DraftOK, RowOK
  <2>2. CASE a \in K!ExtraAliases(d.entities, inventory)
    <3>1. PICK e \in d.entities :
              /\ e.kind = "node" /\ a.of = e.id /\ a.priority \in Nat
              /\ \/ a.type = "operator" /\ a.priority = 200 /\ e.current
                 \/ a.type = "filename" /\ Len(a.alias) >= 2
      BY <1>0, <2>2, AddedRow
    <3>2. a.of[1] = "node" /\ AnchorIsMethod(a)
      BY <1>0, <3>1 DEF EntitiesOK, EntityOK, AnchorIsMethod, K!Hom
    <3>3. Owned(a, d.entities) /\ (a.type = "operator" => a.priority \in {100, 200})
      BY <3>1 DEF Owned
    <3>4. ASSUME NEW f \in d.entities, f.id = a.of, ~f.current, Len(a.alias) = 1,
                 a.type # "operator"
          PROVE  FALSE
      BY <3>1, <3>4
    <3>. QED
      BY <3>1, <3>2, <3>3, <3>4
  <2>. QED
    BY <2>1, <2>2
<1>2. rows \subseteq union
  BY DEF K!IsolateHistoricalOperatorAliases, K!DedupeAliases
<1>3. ASSUME NEW a \in rows, NEW e \in d.entities, e.id = a.of, ~e.current, Len(a.alias) = 1
      PROVE  a.priority <= 60
  <2>1. EntityOK(e) /\ e.kind = "node"
    BY <1>0, <1>3 DEF EntitiesOK, EntityOK
  <2>2. CASE a.type = "operator"
    <3>1. e \in K!Outdated(d.entities, a.of)
      BY <1>3, <2>1 DEF K!Outdated
    <3>2. K!Retained(e) # None /\ a.alias = K!Retained(e)
      BY <2>2, <3>1 DEF K!IsolateHistoricalOperatorAliases
    <3>3. Len(K!Retained(e)) = 2
      BY <1>3, <2>1, <3>2, RetainedHasVersion
    <3>. QED
      BY <1>3, <3>2, <3>3
  <2>3. CASE a.type # "operator"
    BY <1>1, <1>2, <1>3, <2>3
  <2>. QED
    BY <2>2, <2>3
<1>4. ASSUME NEW e \in d.entities, e.kind = "node", e.current
      PROVE  \E a \in rows : a.alias = <<e.name>> /\ a.of = e.id /\ a.priority >= 100
  <2>. DEFINE mine(a) == a.alias = <<e.name>> /\ a.of = e.id /\ a.type = "operator"
  <2>1. OperatorRow(e) \in union /\ mine(OperatorRow(e)) /\ OperatorRow(e).priority = 100
    BY <1>4 DEF DraftOK, OperatorRow, K!Alias
  <2>2. PICK a \in union : mine(a) /\ \A b \in union : mine(b) => b.priority <= a.priority
    <3>1. CASE \E a \in union : mine(a) /\ a.priority = 200
      BY <1>1, <3>1
    <3>2. CASE ~\E a \in union : mine(a) /\ a.priority = 200
      <4>1. \A b \in union : mine(b) => b.priority = 100
        BY <1>1, <3>2
      <4>. QED
        BY <2>1, <4>1
    <3>. QED
      BY <3>1, <3>2
  <2>3. a \in K!DedupeAliases(union)
    BY <2>2 DEF K!DedupeAliases, K!SameKey
  <2>4. K!Outdated(d.entities, a.of) = {}
    BY <1>0, <1>4, <2>2 DEF K!Outdated, EntitiesOK
  <2>5. a \in rows
    BY <2>3, <2>4 DEF K!IsolateHistoricalOperatorAliases
  <2>6. a.priority >= 100
    BY <1>1, <2>2
  <2>. QED
    BY <2>2, <2>5, <2>6
<1>. QED
  BY <1>1, <1>2, <1>3, <1>4, ZenonT(30) DEF RowsOK

\* assemble_graph: what it makes of a draft is a graph that can be searched
LEMMA AssembledIsOK ==
    ASSUME NEW d, DraftOK(d), NEW inventory, NEW g, g = K!Assemble(d, inventory), K!ValidGraph(g)
    PROVE  GraphOK(g)
<1>1. PICK union : union = d.aliases \cup K!ExtraAliases(d.entities, inventory)
  OBVIOUS
<1>2. PICK rows : rows = K!IsolateHistoricalOperatorAliases(K!DedupeAliases(union), d.entities)
  OBVIOUS
<1>3. RowsOK(rows, d.entities)
  BY <1>1, <1>2, LinkedRows
<1>4. g = [entities |-> d.entities, aliases |-> rows,
           edges |-> {[e EXCEPT !.to = K!ResolveEdge(e, rows)] : e \in d.edges}]
  BY <1>1, <1>2 DEF K!Assemble
<1>5. /\ g.entities = d.entities /\ g.aliases = rows
      /\ g.edges = {[e EXCEPT !.to = K!ResolveEdge(e, rows)] : e \in d.edges}
  BY <1>4
<1>6. ASSUME NEW x \in g.edges PROVE LinkOK(x, rows)
  <2>1. PICK y \in d.edges : x = [y EXCEPT !.to = K!ResolveEdge(y, rows)]
    BY <1>5
  <2>2. EdgeOK(y)
    BY DEF DraftOK
  <2>3. PICK to : to = K!ResolveEdge(y, rows)
    OBVIOUS
  <2>4. x = [from |-> y.from, predicate |-> y.predicate, kind |-> y.kind, raw |-> y.raw, to |-> to]
    BY <2>1, <2>2, <2>3 DEF EdgeOK
  <2>5. /\ x.from = y.from /\ x.predicate = y.predicate /\ x.kind = y.kind /\ x.raw = y.raw
        /\ x.to = to
    BY <2>4
  <2>6. CASE y.to # None
    <3>1. to = y.to
      BY <2>3, <2>6 DEF K!ResolveEdge
    <3>. QED
      BY <2>2, <2>5, <2>6, <3>1 DEF EdgeOK, LinkOK
  <2>7. CASE y.to = None
    <3>1. y = [from |-> x.from, predicate |-> x.predicate, kind |-> x.kind, raw |-> x.raw,
               to |-> None]
      BY <2>2, <2>5, <2>7 DEF EdgeOK
    <3>. QED
      BY <2>3, <2>5, <3>1 DEF LinkOK
  <2>. QED
    BY <2>6, <2>7
<1>. QED
  BY <1>3, <1>5, <1>6 DEF GraphOK, DraftOK

\* The edges of a page's references are unresolved
LEMMA ReferencesAreOK ==
    ASSUME NEW id, NEW refs, NEW x \in K!Edges(id, refs)
    PROVE  EdgeOK(x)
<1>1. PICK r \in refs : x = [from |-> id, predicate |-> r.predicate, kind |-> r.kind,
                             raw |-> r.target, to |-> None]
  BY DEF K!Edges
<1>. QED
  BY <1>1 DEF EdgeOK

\* parse_node_document
LEMMA NodeIsOK == ASSUME NEW q, K!PageOK(q), q.kind = "node" PROVE DraftOK(K!ParseNode(q))
<1>. DEFINE d == K!ParseNode(q)
            id == <<"node", K!Stem(q)>>
            internal == IF q.internal = None THEN <<>> ELSE <<q.internal>>
            node0 == [id |-> id, kind |-> "node", name |-> q.name, version |-> q.version,
                      current |-> q.version = "current", stem |-> K!Stem(q),
                      candidates |-> K!CandidateForms(q) \o internal]
<1>1. /\ d.entities = {node0}
      /\ d.aliases = {K!Alias(f, id, "operator", 100) : f \in K!ToSet(K!CandidateForms(q))}
                     \cup {K!Alias(K!Stem(q), id, "slug", 80), K!Alias(q.title, id, "title", 60)}
                     \cup {K!Alias(i, id, "internal", 20) : i \in K!ToSet(internal)}
      /\ d.edges = K!Edges(id, q.refs)
      /\ d = [entities |-> d.entities, aliases |-> d.aliases, edges |-> d.edges]
  BY DEF K!ParseNode
<1>. HIDE DEF d
<1>2. /\ node0.id = id /\ node0.kind = "node" /\ node0.name = q.name
      /\ node0.version = q.version /\ node0.current \in BOOLEAN
      /\ (node0.current <=> q.version = "current") /\ node0.stem = K!Stem(q)
  OBVIOUS

<1>3. IsSeq(K!Stem(q)) /\ Len(K!Stem(q)) >= 1 /\ (q.version # "current" => Len(K!Stem(q)) # 1)
  <2>1. CASE q.version = "current"
    <3>1. K!Stem(q) = <<q.name>>
      BY <2>1 DEF K!Stem
    <3>. QED
      BY <2>1, <3>1 DEF IsSeq
  <2>2. CASE q.version = "legacy"
    <3>1. K!Stem(q) = <<q.name, "-">>
      BY <2>2 DEF K!Stem
    <3>. QED
      BY <2>2, <3>1 DEF IsSeq
  <2>3. CASE q.version \notin {"current", "legacy"}
    <3>1. K!Stem(q) = <<q.name, "-", q.version>>
      BY <2>3 DEF K!Stem
    <3>. QED
      BY <2>3, <3>1 DEF IsSeq
  <2>. QED
    BY <2>1, <2>2, <2>3
<1>4. EntitiesOK(d.entities)
  <2>1. EntityOK(node0)
    BY <1>2, <1>3 DEF EntityOK, K!Kinds, K!PageOK
  <2>. QED
    BY <1>1, <2>1 DEF EntitiesOK
<1>. HIDE DEF node0
<1>5. ASSUME NEW a \in d.aliases PROVE RowOK(a, d.entities)
  <2>1. /\ a.of = id
        /\ \/ a.type = "operator" /\ a.priority = 100
           \/ a.type = "slug" /\ a.priority = 80 /\ a.alias = K!Stem(q)
           \/ a.type = "title" /\ a.priority = 60
           \/ a.type = "internal" /\ a.priority = 20
    BY <1>1 DEF K!Alias
  <2>2. Owned(a, d.entities) /\ AnchorIsMethod(a)
    BY <1>1, <1>2, <2>1 DEF Owned, AnchorIsMethod, K!Hom
  <2>3. ASSUME ~node0.current, a.type # "operator", Len(a.alias) = 1 PROVE a.priority <= 60
    <3>1. a.type # "slug"
      <4>0. q.version # "current"
        BY <1>2, <2>3, Zenon
      <4>1. Len(K!Stem(q)) # 1
        BY <1>3, <4>0, Zenon
      <4>2. a.alias # K!Stem(q)
        BY <2>3, <4>1, Zenon
      <4>. QED
        BY <2>1, <4>2
    <3>. QED
      BY <2>1, <2>3, <3>1
  <2>4. \A e \in d.entities : e = node0
    BY <1>1
  <2>. QED
    BY <2>1, <2>2, <2>3, <2>4 DEF RowOK
<1>6. OperatorRow(node0) \in d.aliases
  <2>1. <<q.name>> \in K!ToSet(K!CandidateForms(q))
    BY DEF K!ToSet, K!CandidateForms, K!Operator
  <2>. QED
    BY <1>1, <1>2, <2>1 DEF OperatorRow
<1>7. \A x \in d.edges : EdgeOK(x)
  BY <1>1, ReferencesAreOK
<1>. QED
  BY <1>1, <1>4, <1>5, <1>6, <1>7 DEF DraftOK, d

\* parse_vex_document and parse_skill_document
LEMMA PlainIsOK ==
    ASSUME NEW q, q.kind \in {"vex", "skill"} PROVE DraftOK(K!ParseVex(q))
<1>. DEFINE d == K!ParseVex(q)
            id == <<q.kind, q.name>>
            e0 == K!Plain(id, q.kind, q.name)
<1>1. /\ d.entities = {e0}
      /\ d.aliases = {K!Alias(<<q.name>>, id, "qualified", 100), K!Alias(q.title, id, "title", 60)}
      /\ d.edges = K!Edges(id, q.refs)
      /\ d = [entities |-> d.entities, aliases |-> d.aliases, edges |-> d.edges]
  BY DEF K!ParseVex
<1>. HIDE DEF d
<1>2. e0.id = id /\ id[1] = q.kind /\ e0.kind = q.kind /\ e0.current = TRUE
  BY DEF K!Plain
<1>. HIDE DEF e0
<1>3. EntitiesOK(d.entities)
  <2>1. EntityOK(e0)
    BY <1>2 DEF EntityOK, K!Kinds
  <2>. QED
    BY <1>1, <2>1 DEF EntitiesOK
<1>4. ASSUME NEW a \in d.aliases PROVE RowOK(a, d.entities)
  <2>1. a.of = id /\ a.type \in {"qualified", "title"} /\ a.priority \in {60, 100}
    BY <1>1 DEF K!Alias
  <2>2. Owned(a, d.entities) /\ AnchorIsMethod(a)
    BY <1>1, <1>2, <2>1 DEF Owned, AnchorIsMethod, K!Hom
  <2>. QED
    BY <1>1, <1>2, <2>1, <2>2 DEF RowOK
<1>5. \A x \in d.edges : EdgeOK(x)
  BY <1>1, ReferencesAreOK
<1>. QED
  BY <1>1, <1>2, <1>3, <1>4, <1>5 DEF DraftOK, d

\* parse_hom_document: the page itself, and a class's methods under their own ids
LEMMA HomIsOK == ASSUME NEW q, K!PageOK(q), q.kind \in K!HomPages PROVE DraftOK(K!ParseHom(q))
<1>. DEFINE d == K!ParseHom(q)
            class == <<q.kind, q.name>>
            Method(m) == <<"hom_method", q.name, m>>
<1>1. /\ d.entities = {K!Plain(Method(m), "hom_method", q.name) : m \in K!Methods(q)}
                      \cup {K!Plain(class, q.kind, q.name)}
      /\ d.aliases = (UNION {{K!Alias(<<q.name, "#", m>>, Method(m), "qualified", 100),
                              K!Alias(<<m>>, Method(m), "short", 80)} : m \in K!Methods(q)})
                     \cup {K!Alias(<<q.name>>, class, "qualified", 100),
                           K!Alias(q.short, class, "short", 80)}
      /\ d.edges = {[from |-> class, predicate |-> "declares_method", kind |-> None,
                     raw |-> None, to |-> Method(m)] : m \in K!Methods(q)}
                   \cup K!Edges(class, q.refs)
      /\ d = [entities |-> d.entities, aliases |-> d.aliases, edges |-> d.edges]
  BY DEF K!ParseHom, K!ParseMethods
<1>. HIDE DEF d
<1>2. ASSUME NEW e \in d.entities
      PROVE  /\ e.current = TRUE /\ e.kind \in K!Hom /\ e.id[1] = e.kind
             /\ \/ e = K!Plain(class, q.kind, q.name) /\ e.id = class
                \/ \E m \in K!Methods(q) : e = K!Plain(Method(m), "hom_method", q.name) /\ e.id = Method(m)
  BY <1>1 DEF K!Plain, K!Hom, K!HomPages
<1>3. EntitiesOK(d.entities)
  <2>1. \A e \in d.entities : EntityOK(e)
    BY <1>2 DEF EntityOK, K!Kinds, K!Hom
  <2>2. ASSUME NEW e \in d.entities, NEW f \in d.entities, e.id = f.id PROVE e = f
    <3>1. CASE e.id = class
      <4>1. \A m \in K!Methods(q) : Method(m) # class
        OBVIOUS
      <4>. QED
        BY <1>2, <2>2, <3>1, <4>1
    <3>2. CASE e.id # class
      <4>1. PICK m \in K!Methods(q) : e = K!Plain(Method(m), "hom_method", q.name) /\ e.id = Method(m)
        BY <1>2, <3>2
      <4>2. PICK n \in K!Methods(q) : f = K!Plain(Method(n), "hom_method", q.name) /\ f.id = Method(n)
        BY <1>2, <2>2, <3>2
      <4>3. Method(m) = Method(n)
        BY <2>2, <4>1, <4>2
      <4>. QED
        BY <4>1, <4>2, <4>3
    <3>. QED
      BY <3>1, <3>2
  <2>. QED
    BY <2>1, <2>2 DEF EntitiesOK
<1>4. /\ \E e \in d.entities : e.id = class
      /\ \A m \in K!Methods(q) : \E e \in d.entities : e.id = Method(m)
  <2>1. \A id, kind : K!Plain(id, kind, q.name).id = id
    BY DEF K!Plain
  <2>2. K!Plain(class, q.kind, q.name) \in d.entities
    BY <1>1
  <2>3. \A m \in K!Methods(q) : K!Plain(Method(m), "hom_method", q.name) \in d.entities
    BY <1>1
  <2>. QED
    BY <2>1, <2>2, <2>3
<1>5. ASSUME NEW a \in d.aliases PROVE RowOK(a, d.entities)
  <2>1. /\ a.priority \in {80, 100} /\ a.type \in {"qualified", "short"}
        /\ \/ a.of = class /\ a.alias \in {<<q.name>>, q.short}
           \/ \E m \in K!Methods(q) : a.of = Method(m) /\ a.alias \in {<<q.name, "#", m>>, <<m>>}
    BY <1>1 DEF K!Alias
  <2>2. Owned(a, d.entities)
    BY <1>4, <2>1 DEF Owned
  <2>3. AnchorIsMethod(a)
    <3>1. CASE a.of = class /\ a.alias \in {<<q.name>>, q.short}
      BY <3>1 DEF AnchorIsMethod, K!HasAnchor, K!PageOK
    <3>2. ASSUME NEW m \in K!Methods(q), a.of = Method(m), a.alias = <<q.name, "#", m>>
          PROVE  AnchorIsMethod(a)
      BY <3>2 DEF AnchorIsMethod, K!PageOK
    <3>3. ASSUME NEW m \in K!Methods(q), a.of = Method(m), a.alias = <<m>>
          PROVE  AnchorIsMethod(a)
      BY <3>3 DEF AnchorIsMethod, K!HasAnchor
    <3>. QED
      BY <2>1, <3>1, <3>2, <3>3
  <2>. QED
    BY <1>2, <2>1, <2>2, <2>3 DEF RowOK
<1>6. ASSUME NEW x \in d.edges PROVE EdgeOK(x)
  <2>1. CASE x \in K!Edges(class, q.refs)
    BY <2>1, ReferencesAreOK
  <2>2. ASSUME NEW m \in K!Methods(q),
               x = [from |-> class, predicate |-> "declares_method", kind |-> None,
                    raw |-> None, to |-> Method(m)]
        PROVE  EdgeOK(x)
    BY <2>2 DEF EdgeOK
  <2>. QED
    BY <1>1, <2>1, <2>2
<1>7. \A e \in d.entities : e.kind # "node"
  BY <1>2 DEF K!Hom
<1>. QED
  BY <1>1, <1>3, <1>5, <1>6, <1>7 DEF DraftOK, d

\* Whatever page is parsed
LEMMA ParsedIsOK == ASSUME NEW q, K!PageOK(q) PROVE DraftOK(K!Parse(q))
<1>1. q.kind \in {"node", "vex", "skill"} \cup K!HomPages
  BY DEF K!PageOK
<1>2. CASE q.kind = "node"
  <2>1. q.kind \notin K!HomPages \cup {"vex", "skill"}
    BY <1>2 DEF K!HomPages, K!Hom
  <2>2. K!Parse(q) = K!ParseNode(q)
    BY <1>2, <2>1, Zenon DEF K!Parse
  <2>. QED
    BY <1>2, <2>2, NodeIsOK
<1>3. CASE q.kind \in K!HomPages
  <2>1. q.kind \notin {"node", "vex", "skill"}
    BY <1>3 DEF K!HomPages, K!Hom
  <2>2. K!Parse(q) = K!ParseHom(q)
    BY <1>3, <2>1, Zenon DEF K!Parse
  <2>. QED
    BY <1>3, <2>2, HomIsOK
<1>4. CASE q.kind \in {"vex", "skill"}
  BY <1>4, PlainIsOK DEF K!Parse, K!ParseSkill
<1>. QED
  BY <1>1, <1>2, <1>3, <1>4

\* A page more, of ids that are new
LEMMA CollectedIsOK ==
    ASSUME NEW d, DraftOK(d), NEW page, DraftOK(page),
           \A e \in d.entities, f \in page.entities : e.id # f.id,
           NEW more, more = [entities |-> d.entities \cup page.entities,
                             aliases |-> d.aliases \cup page.aliases,
                             edges |-> d.edges \cup page.edges]
    PROVE  DraftOK(more)
<1>1. /\ more.entities = d.entities \cup page.entities
      /\ more.aliases = d.aliases \cup page.aliases /\ more.edges = d.edges \cup page.edges
      /\ more = [entities |-> more.entities, aliases |-> more.aliases, edges |-> more.edges]
  OBVIOUS
<1>2. EntitiesOK(more.entities)
  BY <1>1 DEF DraftOK, EntitiesOK
<1>3. ASSUME NEW a \in more.aliases PROVE RowOK(a, more.entities)
  <2>1. CASE a \in d.aliases
    <3>1. RowOK(a, d.entities)
      BY <2>1 DEF DraftOK
    <3>2. \A e \in page.entities : e.id # a.of
      BY <3>1 DEF RowOK, Owned
    <3>. QED
      BY <1>1, <3>1, <3>2 DEF RowOK, Owned
  <2>2. CASE a \in page.aliases
    <3>1. RowOK(a, page.entities)
      BY <2>2 DEF DraftOK
    <3>2. \A e \in d.entities : e.id # a.of
      BY <3>1 DEF RowOK, Owned
    <3>. QED
      BY <1>1, <3>1, <3>2 DEF RowOK, Owned
  <2>. QED
    BY <1>1, <2>1, <2>2
<1>4. \A e \in more.entities : e.kind = "node" => OperatorRow(e) \in more.aliases
  BY <1>1 DEF DraftOK
<1>5. \A x \in more.edges : EdgeOK(x)
  BY <1>1 DEF DraftOK
<1>. QED
  BY <1>1, <1>2, <1>3, <1>4, <1>5 DEF DraftOK

\* The empty draft
LEMMA NothingIsOK == DraftOK(K!Nothing)
<1>1. /\ K!Nothing.entities = {} /\ K!Nothing.aliases = {} /\ K!Nothing.edges = {}
      /\ K!Nothing = [entities |-> K!Nothing.entities, aliases |-> K!Nothing.aliases,
                      edges |-> K!Nothing.edges]
  BY DEF K!Nothing
<1>. QED
  BY <1>1 DEF DraftOK, EntitiesOK

\* The pages of every corpus are well formed
LEMMA PagesAreOK == \A q \in AllPages : K!PageOK(q)
BY CorpusAssumption DEF AllPages, K!CorpusOK

\* Every step of a build, of another process's build and of the facade
LEMMA KnowledgeStep == KnowledgeInv /\ K!KnowledgeNext => KnowledgeInv'
<1>. SUFFICES ASSUME KnowledgeInv, K!KnowledgeNext PROVE KnowledgeInv'
  OBVIOUS
<1>0. <<>> \in Seq(AllPages) /\ DraftOK(K!Nothing)
  BY NothingIsOK
<1>1. ASSUME NEW who, NEW corpus \in Corpora, K!BuildBegin(who, corpus) PROVE KnowledgeInv'
  <2>1. corpus.pages \in Seq(AllPages)
    <3>1. corpus.pages \in Seq(K!ToSet(corpus.pages)) /\ K!ToSet(corpus.pages) \subseteq AllPages
      BY <1>1, CorpusAssumption DEF K!CorpusOK, AllPages
    <3>. QED
      BY <3>1
  <2>2. todo' = corpus.pages /\ draft' = K!Nothing /\ cache' = cache
    BY <1>1 DEF K!BuildBegin
  <2>. QED
    BY <1>0, <2>1, <2>2 DEF KnowledgeInv
<1>2. CASE K!Collect
  <2>1. PICK q \in AllPages : q = Head(todo) /\ todo' \in Seq(AllPages)
    BY <1>2 DEF K!Collect, KnowledgeInv
  <2>2. DraftOK(K!Parse(q))
    BY PagesAreOK, ParsedIsOK
  <2>3. PICK page : page = K!Parse(q)
    OBVIOUS
  <2>4. /\ cache' = cache /\ draft' = [f \in DOMAIN draft |-> draft[f] \cup page[f]]
        /\ ~K!Duplicate(page)
    BY <1>2, <2>1, <2>3 DEF K!Collect
  <2>5. \A e \in draft.entities, f \in page.entities : e.id # f.id
    BY <2>4 DEF K!Duplicate
  <2>6. draft' = [entities |-> draft.entities \cup page.entities,
                  aliases |-> draft.aliases \cup page.aliases,
                  edges |-> draft.edges \cup page.edges]
    BY <2>4 DEF KnowledgeInv, DraftOK
  <2>7. DraftOK(draft')
    BY <2>2, <2>3, <2>5, <2>6, CollectedIsOK DEF KnowledgeInv
  <2>. QED
    BY <2>1, <2>4, <2>7 DEF KnowledgeInv
<1>3. CASE K!DuplicateId \/ K!BuildFails
  <2>1. todo' = <<>> /\ draft' = K!Nothing /\ cache' = cache
    BY <1>3 DEF K!DuplicateId, K!BuildFails, K!BuildOver
  <2>. QED
    BY <1>0, <2>1 DEF KnowledgeInv
<1>4. CASE K!Publish
  <2>1. PICK graph : graph = K!Assemble(draft, source.inventory)
    OBVIOUS
  <2>2. /\ todo' = <<>> /\ draft' = K!Nothing
        /\ cache' = IF K!ValidCache(graph) THEN graph ELSE cache
    BY <1>4, <2>1 DEF K!Publish, K!BuildOver
  <2>3. K!ValidCache(graph) => GraphOK(graph)
    BY <2>1, AssembledIsOK DEF K!ValidCache, KnowledgeInv
  <2>4. cache' # None => GraphOK(cache')
    BY <2>2, <2>3 DEF KnowledgeInv
  <2>. QED
    BY <1>0, <2>2, <2>4 DEF KnowledgeInv
<1>5. CASE K!Refresh \/ K!RuntimeStarts
  <2>1. UNCHANGED <<todo, draft, cache>>
    BY <1>5 DEF K!Refresh, K!RuntimeStarts
  <2>. QED
    BY <2>1 DEF KnowledgeInv
<1>6. \/ \E who \in {"runtime", "other"}, corpus \in Corpora : K!BuildBegin(who, corpus)
      \/ K!Collect \/ K!DuplicateId \/ K!Publish \/ K!BuildFails \/ K!Refresh \/ K!RuntimeStarts
  BY Zenon DEF K!KnowledgeNext
<1>. QED
  BY <1>1, <1>2, <1>3, <1>4, <1>5, <1>6

\* _isolate_historical_operator_aliases, _resolve_typed, alias_candidates: for any pages and
\* any inventory, in any number of builds, the unversioned name of a current operator never
\* leads to a historical page, and search and links agree.
THEOREM NamesResolveRight == MCSpec => []NamesResolve
<1>1. MCInit => KnowledgeInv
  BY NothingIsOK DEF MCInit, K!KnowledgeInit, KnowledgeInv
<1>2. KnowledgeInv /\ [MCNext]_<<part, vars, launchVars, agentVars, compilerVars, evidenceVars,
                                 knowledgeVars>> => KnowledgeInv'
  <2>1. KnowledgeInv /\ UNCHANGED knowledgeVars => KnowledgeInv'
    BY DEF KnowledgeInv, knowledgeVars
  <2>. QED
    BY <2>1, KnowledgeStep DEF MCNext
<1>3. KnowledgeInv => NamesResolve
  BY NamesAreCurrent, SearchAndLinks DEF KnowledgeInv, NamesResolve
<1>. QED
  BY <1>1, <1>2, <1>3, PTL DEF MCSpec
=============================================================================
