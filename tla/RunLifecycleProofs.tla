------------------------- MODULE RunLifecycleProofs -------------------------
(* Theorems about RunLifecycle for any number of runs, sessions, streamed  *)
(* events and process ends.                                                *)
EXTENDS RunLifecycle, FiniteSetTheorems, TLAPS

(* The slot argument needs to know which run the lock holder and the       *)
(* shutdown sweep are working on.                                          *)
IInv ==
    /\ TypeOK
    /\ SlotIsActiveRun
    /\ left # <<>> => held \in Run
    /\ sweep \in {"read", "aim", "write"} => sweepRun \in Run
    /\ lock = "sweep" => sweep = "write"
    /\ sweep # "off" => phase = "stopping"

USE NoRunAssumption, NoSessionAssumption, BoundAssumption

(* The legal edges leave the active statuses and stay within the statuses *)
LEMMA LegalFromActive ==
    ASSUME NEW s, NEW t, Legal(s, t)
    PROVE  s \in Active /\ t \in RunStatus
  BY DEF Legal, Active, RunStatus, Terminal

\* How the sets of statuses lie to one another
LEMMA StatusFacts ==
    /\ Active \subseteq RunStatus /\ Terminal \subseteq RunStatus
    /\ RunStatus \subseteq RowState
    /\ \A s \in Terminal : s \notin Active
    /\ \A s \in RowState : s \in Active \/ s \in Terminal \/ s \in {"absent", "deleted"}
    /\ "absent" \notin Active /\ "deleted" \notin Active
    /\ "absent" \notin Terminal /\ "deleted" \notin Terminal
    /\ "Created" \in Active /\ "Failed" \in Terminal
    /\ "StopRequested" \in Active /\ "Cancelled" \in Terminal
    /\ "absent" \in RowState /\ "deleted" \in RowState
    /\ "" \notin RunStatus
  BY DEF Active, Terminal, RunStatus, RowState

(* Events built by the service are events *)
LEMMA EventTypes ==
    /\ \A type \in EventType : Plain(type) \in Event
    /\ \A s, t \in RunStatus : Changed(s, t) \in Event
  BY DEF Plain, Changed, Event, EventType

\* Sequences, as the log uses them
LEMMA SeqFacts ==
    ASSUME NEW S
    PROVE  /\ <<>> \in Seq(S)
           /\ \A q \in Seq(S), e \in S : Append(q, e) \in Seq(S)
           /\ \A q \in Seq(S) : q # <<>> => Head(q) \in S /\ Tail(q) \in Seq(S)
           /\ \A e \in S : <<e>> \in Seq(S)
           /\ \A e, f \in S : <<e, f>> \in Seq(S)
           /\ \A e, f, g \in S : <<e, f, g>> \in Seq(S)
  OBVIOUS

(* Writing a status on the active run keeps the slot exact *)
LEMMA WriteKeepsSlot ==
    ASSUME IInv, NEW r \in Run, NEW t \in RunStatus,
           status[r] \in Active, WriteStatus(r, t)
    PROVE  /\ SlotIsActiveRun'
           /\ status' \in [Run -> RowState]
           /\ slot' \in Run \cup {NoRun}
           /\ trail' \in [Run -> Seq(RunStatus)]
  <1>1. status' \in [Run -> RowState] /\ slot' \in Run \cup {NoRun}
    BY StatusFacts DEF IInv, TypeOK, WriteStatus
  <1>2. trail' \in [Run -> Seq(RunStatus)]
    BY SeqFacts DEF IInv, TypeOK, WriteStatus
  <1>3. SlotIsActiveRun'
    BY StatusFacts DEF IInv, TypeOK, WriteStatus, SlotIsActiveRun, RunStatus
  <1> QED BY <1>1, <1>2, <1>3

(* The region of any holder: type correctness of what Enter writes *)
LEMMA EnterKeeps ==
    ASSUME IInv, NEW who \in {"task", "stop", "sweep"}, NEW r \in Run,
           NEW t \in RunStatus, NEW events \in Seq(Event),
           status[r] \in Active, Enter(who, r, t, events)
    PROVE  /\ SlotIsActiveRun'
           /\ status' \in [Run -> RowState]
           /\ slot' \in Run \cup {NoRun}
           /\ trail' \in [Run -> Seq(RunStatus)]
           /\ lock' = who
           /\ held' \in Run
           /\ left' \in Seq(Event)
  BY WriteKeepsSlot DEF Enter

\* The inductive invariant holds when the service has just been started
THEOREM InitIInv == Init => IInv
  <1> SUFFICES ASSUME Init PROVE IInv OBVIOUS
  <1> USE DEF Init, VolatileInit
  <1>1. TypeOK
    <2>1. log \in [Run -> Seq(Event)] /\ owed \in [Run -> Seq(Event)]
             /\ left \in Seq(Event) /\ trail \in [Run -> Seq(RunStatus)]
      OBVIOUS
    <2>2. status \in [Run -> RowState] /\ aim \in [Run -> RunStatus]
             /\ sweepAim \in RunStatus
      BY StatusFacts
    <2>3. pc \in [Run -> TaskPc]
      BY DEF TaskPc
    <2> QED BY <2>1, <2>2, <2>3 DEF TypeOK
  <1>2. SlotIsActiveRun
    BY StatusFacts DEF SlotIsActiveRun
  <1>3. (left # <<>> => held \in Run)
          /\ (sweep \in {"read", "aim", "write"} => sweepRun \in Run)
          /\ (lock = "sweep" => sweep = "write")
          /\ (sweep # "off" => phase = "stopping")
    OBVIOUS
  <1> QED BY <1>1, <1>2, <1>3 DEF IInv

(* Appending one event to a run's log keeps the logs well typed *)
LEMMA LogGrows ==
    ASSUME IInv, NEW r \in Run, NEW e \in Event,
           log' = [log EXCEPT ![r] = Append(@, e)]
    PROVE  log' \in [Run -> Seq(Event)]
  BY SeqFacts DEF IInv, TypeOK

(* Every step keeps the inductive invariant *)
THEOREM NextIInv == IInv /\ [Next]_vars => IInv'
  <1> SUFFICES ASSUME IInv, [Next]_vars PROVE IInv'
    OBVIOUS
  <1> USE DEF durable, region, starts, tasks, sweeper
  <1>1. ASSUME NEW s \in Session, CreateSession(s) \/ Archive(s) PROVE IInv'
    BY <1>1 DEF IInv, TypeOK, SlotIsActiveRun, CreateSession, Archive
  <1>2. ASSUME NEW s \in Session, Delete(s) PROVE IInv'
    <2>1. status' \in [Run -> RowState] /\ SlotIsActiveRun'
      BY <1>2, StatusFacts DEF IInv, TypeOK, SlotIsActiveRun, Delete, Busy
    <2>2. log' \in [Run -> Seq(Event)] /\ trail' \in [Run -> Seq(RunStatus)]
      BY <1>2 DEF IInv, TypeOK, Delete
    <2> QED BY <1>2, <2>1, <2>2 DEF IInv, TypeOK, Delete
  <1>3. ASSUME NEW r \in Run, NEW s \in Session, StartRun(r, s) PROVE IInv'
    <2>1. status' \in [Run -> RowState] /\ SlotIsActiveRun'
      BY <1>3, StatusFacts DEF IInv, TypeOK, SlotIsActiveRun, StartRun, Admissible
    <2>2. trail' \in [Run -> Seq(RunStatus)]
      BY <1>3, StatusFacts, SeqFacts DEF IInv, TypeOK, StartRun
    <2> QED BY <1>3, <2>1, <2>2 DEF IInv, TypeOK, StartRun
  <1>4. ASSUME NEW r \in Run, AcceptRun(r) PROVE IInv'
    <2>1. log' \in [Run -> Seq(Event)]
      BY <1>4, LogGrows, EventTypes DEF AcceptRun, EventType
    <2>2. pc' \in [Run -> TaskPc]
      BY <1>4 DEF IInv, TypeOK, AcceptRun, TaskPc
    <2> QED BY <1>4, <2>1, <2>2 DEF IInv, TypeOK, SlotIsActiveRun, AcceptRun
  <1>5. ASSUME NEW r \in Run, StopRun(r) PROVE IInv'
    <2> DEFINE ev == <<Changed(status[r], "StopRequested")>>
    <2>1. status[r] \in Active /\ Enter("stop", r, "StopRequested", ev)
      BY <1>5 DEF StopRun
    <2>a. Changed(status[r], "StopRequested") \in Event
      BY <2>1, StatusFacts, EventTypes
    <2>b. "StopRequested" \in RunStatus
      BY StatusFacts
    <2>2. ev \in Seq(Event)
      BY <2>a
    <2> HIDE DEF ev
    <2>3. /\ SlotIsActiveRun'
          /\ status' \in [Run -> RowState]
          /\ slot' \in Run \cup {NoRun}
          /\ trail' \in [Run -> Seq(RunStatus)]
          /\ lock' = "stop"
          /\ held' \in Run
          /\ left' \in Seq(Event)
      BY <2>1, <2>b, <2>2, EnterKeeps
    <2> QED BY <1>5, <2>3 DEF IInv, TypeOK, StopRun
  <1>6. ASSUME NEW r \in Run, StopAgain(r) PROVE IInv'
    BY <1>6 DEF IInv, TypeOK, SlotIsActiveRun, StopAgain, CancelTask
  <1>7. ASSUME NEW r \in Run, TaskStart(r) PROVE IInv'
    <2>1. pc' \in [Run -> TaskPc]
      BY <1>7 DEF IInv, TypeOK, TaskStart, Goto, TaskPc
    <2> QED BY <1>7, <2>1 DEF IInv, TypeOK, SlotIsActiveRun, TaskStart
  <1>8. ASSUME NEW r \in Run, TaskTransition(r) PROVE IInv'
    <2> DEFINE t == TargetOf(pc[r])
    <2>0. OnlyTask BY <1>8 DEF TaskTransition
    <2> HIDE DEF t
    <2>1. CASE /\ Legal(status[r], t)
               /\ Enter("task", r, t, <<Changed(status[r], t)>>)
               /\ UNCHANGED <<log, pc, aim, cancelled>>
      <3>1. status[r] \in Active /\ t \in RunStatus
        BY <2>1, LegalFromActive
      <3>2. Changed(status[r], t) \in Event
        BY <3>1, StatusFacts, EventTypes
      <3>3. <<Changed(status[r], t)>> \in Seq(Event)
        BY <3>2
      <3>4. /\ SlotIsActiveRun'
            /\ status' \in [Run -> RowState]
            /\ slot' \in Run \cup {NoRun}
            /\ trail' \in [Run -> Seq(RunStatus)]
            /\ lock' = "task"
            /\ held' \in Run
            /\ left' \in Seq(Event)
        BY <2>1, <3>1, <3>3, EnterKeeps
      <3> QED BY <2>0, <2>1, <3>4 DEF IInv, TypeOK, OnlyTask
    <2>2. CASE /\ Goto(r, "fail") /\ cancelled' = cancelled \ {r}
               /\ UNCHANGED <<status, slot, log, region, aim, trail>>
      <3>1. pc' \in [Run -> TaskPc]
        BY <2>2 DEF IInv, TypeOK, Goto, TaskPc
      <3> QED BY <2>0, <2>2, <3>1 DEF IInv, TypeOK, SlotIsActiveRun, OnlyTask
    <2> QED BY <1>8, <2>1, <2>2 DEF TaskTransition, t
  <1>9. ASSUME NEW r \in Run, StreamEvent(r) PROVE IInv'
    <2>1. log' \in [Run -> Seq(Event)]
      BY <1>9, LogGrows, EventTypes DEF StreamEvent, EventType
    <2> QED BY <1>9, <2>1 DEF IInv, TypeOK, SlotIsActiveRun, StreamEvent, OnlyTask
  <1>10. ASSUME NEW r \in Run, StreamEnd(r) PROVE IInv'
    <2>1. pc' \in [Run -> TaskPc]
      BY <1>10 DEF IInv, TypeOK, StreamEnd, Goto, TaskPc
    <2> QED BY <1>10, <2>1 DEF IInv, TypeOK, SlotIsActiveRun, StreamEnd, OnlyTask
  <1>11. ASSUME NEW r \in Run, FinalMessage(r) PROVE IInv'
    <2>1. log' \in [Run -> Seq(Event)]
      BY <1>11, LogGrows, EventTypes DEF FinalMessage, EventType
    <2>2. pc' \in [Run -> TaskPc]
      BY <1>11 DEF IInv, TypeOK, FinalMessage, Goto, TaskPc
    <2> QED BY <1>11, <2>1, <2>2
            DEF IInv, TypeOK, SlotIsActiveRun, FinalMessage, OnlyTask
  <1>12. ASSUME NEW r \in Run, CancelDelivered(r) PROVE IInv'
    <2>1. log' \in [Run -> Seq(Event)]
      <3>1. \/ log' = log
            \/ log' = [log EXCEPT ![r] = Append(@, Plain("message.assistant_final"))]
            \/ log' = [log EXCEPT ![r] = Append(@, Plain("stream"))]
        BY <1>12 DEF CancelDelivered
      <3>2. Plain("message.assistant_final") \in Event /\ Plain("stream") \in Event
        BY EventTypes DEF EventType
      <3>3. CASE log' = log
        BY <3>3 DEF IInv, TypeOK
      <3> QED BY <3>1, <3>2, <3>3, LogGrows
    <2>2. pc' \in [Run -> TaskPc]
      BY <1>12 DEF IInv, TypeOK, CancelDelivered, Goto, TaskPc
    <2> QED BY <1>12, <2>1, <2>2
            DEF IInv, TypeOK, SlotIsActiveRun, CancelDelivered, OnlyTask
  <1>13. ASSUME NEW r \in Run, TaskFail(r) PROVE IInv'
    <2> DEFINE ev == <<Plain("model.failed"), Changed(status[r], "Failed"),
                       Plain("run.failed")>>
    <2>0. OnlyTask BY <1>13 DEF TaskFail
    <2>1. CASE /\ FailureOwns(r)
               /\ Enter("task", r, "Failed", ev)
               /\ UNCHANGED <<log, pc, aim, cancelled>>
      <3>1. status[r] \in Active /\ "Failed" \in RunStatus
        BY <2>1, StatusFacts DEF FailureOwns
      <3>2. Plain("model.failed") \in Event /\ Plain("run.failed") \in Event
        BY EventTypes DEF EventType
      <3>3. Changed(status[r], "Failed") \in Event
        BY <3>1, StatusFacts, EventTypes
      <3>4. ev \in Seq(Event)
        BY <3>2, <3>3
      <3> HIDE DEF ev
      <3>5. /\ SlotIsActiveRun'
            /\ status' \in [Run -> RowState]
            /\ slot' \in Run \cup {NoRun}
            /\ trail' \in [Run -> Seq(RunStatus)]
            /\ lock' = "task"
            /\ held' \in Run
            /\ left' \in Seq(Event)
        BY <2>1, <3>1, <3>4, EnterKeeps
      <3> QED BY <2>0, <2>1, <3>5 DEF IInv, TypeOK, OnlyTask
    <2>2. CASE /\ Goto(r, "converge") /\ cancelled' = cancelled \ {r}
               /\ UNCHANGED <<status, slot, log, region, aim, trail>>
      <3>1. pc' \in [Run -> TaskPc]
        BY <2>2 DEF IInv, TypeOK, Goto, TaskPc
      <3> QED BY <2>0, <2>2, <3>1 DEF IInv, TypeOK, SlotIsActiveRun, OnlyTask
    <2> QED BY <1>13, <2>1, <2>2 DEF TaskFail
  <1>14. ASSUME NEW r \in Run, TaskConverge(r) PROVE IInv'
    <2>1. pc' \in [Run -> TaskPc]
      BY ZenonT(30), <1>14 DEF IInv, TypeOK, TaskConverge, Goto, TaskPc
    <2>2. aim' \in [Run -> RunStatus]
      BY <1>14 DEF IInv, TypeOK, TaskConverge, NextOnStop, RunStatus, Active, Terminal
    <2> QED BY <1>14, <2>1, <2>2
            DEF IInv, TypeOK, SlotIsActiveRun, TaskConverge, OnlyTask
  <1>15. ASSUME NEW r \in Run, TaskAim(r) PROVE IInv'
    <2> DEFINE t == aim[r]
    <2>0. OnlyTask BY <1>15 DEF TaskAim
    <2> HIDE DEF t
    <2>1. CASE /\ Legal(status[r], t)
               /\ Enter("task", r, t, <<Changed(status[r], t)>>)
               /\ UNCHANGED <<log, pc, aim, cancelled>>
      <3>1. status[r] \in Active /\ t \in RunStatus
        BY <2>1, LegalFromActive
      <3>2. Changed(status[r], t) \in Event
        BY <3>1, StatusFacts, EventTypes
      <3>3. <<Changed(status[r], t)>> \in Seq(Event)
        BY <3>2
      <3>4. /\ SlotIsActiveRun'
            /\ status' \in [Run -> RowState]
            /\ slot' \in Run \cup {NoRun}
            /\ trail' \in [Run -> Seq(RunStatus)]
            /\ lock' = "task"
            /\ held' \in Run
            /\ left' \in Seq(Event)
        BY <2>1, <3>1, <3>3, EnterKeeps
      <3> QED BY <2>0, <2>1, <3>4 DEF IInv, TypeOK, OnlyTask
    <2>2. CASE /\ Goto(r, "converge")
               /\ UNCHANGED <<status, slot, log, region, aim, cancelled, trail>>
      <3>1. pc' \in [Run -> TaskPc]
        BY <2>2 DEF IInv, TypeOK, Goto, TaskPc
      <3> QED BY <2>0, <2>2, <3>1 DEF IInv, TypeOK, SlotIsActiveRun, OnlyTask
    <2> QED BY <1>15, <2>1, <2>2 DEF TaskAim, t
  <1>16. ASSUME NEW r \in Run, ReconcileEmit(r) PROVE IInv'
    <2>1. Head(owed[r]) \in Event /\ Tail(owed[r]) \in Seq(Event)
      BY <1>16, SeqFacts DEF IInv, TypeOK, ReconcileEmit
    <2>2. log' \in [Run -> Seq(Event)]
      BY <1>16, <2>1, LogGrows DEF ReconcileEmit
    <2>3. owed' \in [Run -> Seq(Event)]
      BY <1>16, <2>1 DEF IInv, TypeOK, ReconcileEmit
    <2> QED BY <1>16, <2>2, <2>3 DEF IInv, TypeOK, SlotIsActiveRun, ReconcileEmit
  <1>17. ASSUME RegionAppend PROVE IInv'
    <2>1. held \in Run /\ Head(left) \in Event /\ Tail(left) \in Seq(Event)
      BY <1>17, SeqFacts DEF IInv, TypeOK, RegionAppend
    <2>2. log' \in [Run -> Seq(Event)]
      BY <1>17, <2>1, LogGrows DEF RegionAppend, AppendLeft
    <2>3. /\ lock' \in {"free", "task", "stop", "sweep"}
          /\ held' \in Run \cup {NoRun} /\ left' \in Seq(Event)
          /\ left' # <<>> => held' \in Run
      <3>1. CASE Release
        BY <3>1 DEF Release
      <3>2. CASE left' = Tail(left) /\ UNCHANGED <<lock, held>>
        BY <2>1, <3>2 DEF IInv, TypeOK
      <3> QED BY <1>17, <3>1, <3>2 DEF RegionAppend
    <2>4. pc' \in [Run -> TaskPc] /\ cancelled' \subseteq Run
      BY <1>17, <2>1 DEF IInv, TypeOK, RegionAppend, TaskAfterRegion, After,
                         CancelTask, TaskPc
    <2>5. /\ sweep' \in {"off", "wait", "read", "aim", "write", "over"}
          /\ sweep' \in {"read", "aim", "write"} => sweepRun' \in Run
          /\ lock' = "sweep" => sweep' = "write"
          /\ sweep' # "off" => phase' = "stopping"
      <3>1. \/ sweep' = sweep /\ (lock' = lock \/ lock' = "free")
            \/ lock = "sweep" /\ sweep' = "read" /\ lock' = "free"
        BY <1>17 DEF RegionAppend, Release
      <3>2. sweepRun' = sweepRun /\ phase' = phase
        BY <1>17 DEF RegionAppend
      <3> QED BY <3>1, <3>2 DEF IInv, TypeOK
    <2> QED BY <1>17, <2>2, <2>3, <2>4, <2>5
            DEF IInv, TypeOK, SlotIsActiveRun, RegionAppend
  <1>18. ASSUME RegionError PROVE IInv'
    <2>1. pc' \in [Run -> TaskPc] /\ cancelled' \subseteq Run
      BY <1>18 DEF IInv, TypeOK, RegionError, TaskAfterError, TaskPc
    <2> QED BY <1>18, <2>1 DEF IInv, TypeOK, SlotIsActiveRun, RegionError, Release
  <1>19. ASSUME ShutdownBegin PROVE IInv'
    BY <1>19 DEF IInv, TypeOK, SlotIsActiveRun, ShutdownBegin, Serving
  <1>20. ASSUME SweepStart PROVE IInv'
    BY <1>20 DEF IInv, TypeOK, SlotIsActiveRun, SweepStart, OnlySweep
  <1>21. ASSUME SweepRead PROVE IInv'
    <2>1. sweepAim' \in RunStatus
      BY <1>21 DEF IInv, TypeOK, SweepRead, NextOnStop, RunStatus, Active, Terminal
    <2> QED BY <1>21, <2>1 DEF IInv, TypeOK, SlotIsActiveRun, SweepRead, OnlySweep
  <1>22. ASSUME SweepAim PROVE IInv'
    <2> DEFINE r == sweepRun
    <2> DEFINE t == sweepAim
    <2>0. OnlySweep /\ r \in Run BY <1>22 DEF SweepAim, IInv
    <2>1. CASE /\ Legal(status[r], t)
               /\ Enter("sweep", r, t, <<Changed(status[r], t)>>)
               /\ sweep' = "write"
      <3>1. status[r] \in Active /\ t \in RunStatus
        BY <2>1, LegalFromActive
      <3>2. Changed(status[r], t) \in Event
        BY <3>1, StatusFacts, EventTypes
      <3>3. <<Changed(status[r], t)>> \in Seq(Event)
        BY <3>2
      <3>4.    /\ SlotIsActiveRun'
            /\ status' \in [Run -> RowState]
            /\ slot' \in Run \cup {NoRun}
            /\ trail' \in [Run -> Seq(RunStatus)]
            /\ lock' = "sweep"
            /\ held' \in Run
            /\ left' \in Seq(Event)
        BY <2>0, <2>1, <3>1, <3>3, EnterKeeps
      <3> QED BY <1>22, <2>0, <2>1, <3>4 DEF IInv, TypeOK, OnlySweep, SweepAim
    <2>2. CASE sweep' = "read" /\ UNCHANGED <<status, slot, region, trail>>
      BY <1>22, <2>0, <2>2 DEF IInv, TypeOK, SlotIsActiveRun, OnlySweep, SweepAim
    <2> QED BY <1>22, <2>1, <2>2 DEF SweepAim
  <1>23. ASSUME ShutdownEnd \/ Crash PROVE IInv'
    <2>1. ProcessEnds BY <1>23 DEF ShutdownEnd, Crash
    <2>2. pc' \in [Run -> TaskPc] /\ aim' \in [Run -> RunStatus]
             /\ sweepAim' \in RunStatus
      BY <2>1, StatusFacts DEF ProcessEnds, TaskPc
    <2>3. owed' \in [Run -> Seq(Event)] /\ left' \in Seq(Event)
      BY <2>1 DEF ProcessEnds
    <2> QED BY <2>1, <2>2, <2>3 DEF IInv, TypeOK, SlotIsActiveRun, ProcessEnds
  <1>24. ASSUME Reconcile PROVE IInv'
    <2>1. status' \in [Run -> RowState] /\ SlotIsActiveRun'
      BY <1>24, StatusFacts DEF IInv, TypeOK, SlotIsActiveRun, Reconcile
    <2>2. trail' \in [Run -> Seq(RunStatus)]
      BY <1>24, StatusFacts, SeqFacts DEF IInv, TypeOK, Reconcile
    <2>3. \A r \in Run : status[r] \in Active =>
            <<Changed(status[r], "Failed"), Plain("run.failed")>> \in Seq(Event)
      <3> SUFFICES ASSUME NEW r \in Run, status[r] \in Active
                   PROVE <<Changed(status[r], "Failed"), Plain("run.failed")>> \in Seq(Event)
        OBVIOUS
      <3>1. Changed(status[r], "Failed") \in Event
        BY StatusFacts, EventTypes
      <3>2. Plain("run.failed") \in Event
        BY EventTypes DEF EventType
      <3> QED BY <3>1, <3>2
    <2>4. owed' \in [Run -> Seq(Event)]
      BY <1>24, <2>3 DEF Reconcile
    <2> QED BY <1>24, <2>1, <2>2, <2>4 DEF IInv, TypeOK, Reconcile
  <1>25. ASSUME Open PROVE IInv'
    BY <1>25 DEF IInv, TypeOK, SlotIsActiveRun, Open
  <1>26. CASE UNCHANGED vars
    BY <1>26 DEF IInv, TypeOK, SlotIsActiveRun, vars
  <1> QED
    BY <1>1, <1>2, <1>3, <1>4, <1>5, <1>6, <1>7, <1>8, <1>9, <1>10, <1>11, <1>12,
       <1>13, <1>14, <1>15, <1>16, <1>17, <1>18, <1>19, <1>20, <1>21, <1>22,
       <1>23, <1>24, <1>25, <1>26
       DEF Next, TaskStep, ShutdownStep

(* The durable slot names exactly the run that has not ended, in every     *)
(* state of every behaviour (RunRepository's one-active-run rule).         *)
THEOREM SlotSafety == Spec => []SlotIsActiveRun
  <1>1. IInv => SlotIsActiveRun BY DEF IInv
  <1> QED BY InitIInv, NextIInv, <1>1, PTL DEF Spec

(* Type correctness of the run life cycle *)
THEOREM TypeSafety == Spec => []TypeOK
  <1>1. IInv => TypeOK BY DEF IInv
  <1> QED BY InitIInv, NextIInv, <1>1, PTL DEF Spec

----------------------------------------------------------------------------
(* The service implements RunSpec *)

(* A run that was never started belongs to no session *)
HomeInv == \A r \in Run : status[r] = "absent" => home[r] = NoSession

(* One legal edge of one run, written under the state lock *)
Edge == \E r \in Run, t \in RunStatus :
            /\ Legal(status[r], t)
            /\ status' = [status EXCEPT ![r] = t]
            /\ home' = home

(* Every step of the service is one of five things to the runs table *)
LEMMA RunsTableStep ==
    ASSUME IInv, [Next]_vars
    PROVE  \/ status' = status /\ home' = home
           \/ Edge
           \/ \E r \in Run, s \in Session : StartRun(r, s)
           \/ \E s \in Session : Delete(s)
           \/ Reconcile
  <1> USE DEF durable, region, starts, tasks, sweeper
  <1>1. ASSUME NEW r \in Run, StopRun(r) PROVE Edge
    <2>1. Legal(status[r], "StopRequested") /\ "StopRequested" \in RunStatus
      BY <1>1 DEF StopRun, Legal, Active, RunStatus
    <2> QED BY <1>1, <2>1 DEF StopRun, Enter, WriteStatus, Edge
  <1>2. ASSUME NEW r \in Run, TaskFail(r)
        PROVE Edge \/ (status' = status /\ home' = home)
    <2>1. FailureOwns(r) => Legal(status[r], "Failed") /\ "Failed" \in RunStatus
      BY DEF FailureOwns, Legal, Active, RunStatus, Terminal
    <2> QED BY <1>2, <2>1 DEF TaskFail, Enter, WriteStatus, Edge, OnlyTask
  <1>3. ASSUME NEW r \in Run, TaskTransition(r)
        PROVE Edge \/ (status' = status /\ home' = home)
    BY <1>3, LegalFromActive DEF TaskTransition, Enter, WriteStatus, Edge, OnlyTask
  <1>4. ASSUME NEW r \in Run, TaskAim(r)
        PROVE Edge \/ (status' = status /\ home' = home)
    BY <1>4, LegalFromActive DEF TaskAim, Enter, WriteStatus, Edge, OnlyTask
  <1>5. ASSUME SweepAim
        PROVE Edge \/ (status' = status /\ home' = home)
    BY <1>5, LegalFromActive DEF SweepAim, Enter, WriteStatus, Edge, OnlySweep, IInv
  <1>6. ASSUME NEW s \in Session, CreateSession(s) \/ Archive(s)
        PROVE status' = status /\ home' = home
    BY <1>6 DEF CreateSession, Archive
  <1>7. ASSUME NEW r \in Run,
               AcceptRun(r) \/ StopAgain(r) \/ TaskStart(r) \/ ReconcileEmit(r)
        PROVE status' = status /\ home' = home
    BY <1>7 DEF AcceptRun, StopAgain, TaskStart, ReconcileEmit
  <1>8. ASSUME NEW r \in Run,
               \/ FinalMessage(r) \/ CancelDelivered(r) \/ TaskConverge(r)
               \/ StreamEvent(r) \/ StreamEnd(r)
        PROVE status' = status /\ home' = home
    BY <1>8 DEF FinalMessage, CancelDelivered, TaskConverge, StreamEvent,
                StreamEnd, OnlyTask
  <1>9. ASSUME \/ RegionAppend \/ RegionError \/ ShutdownBegin \/ SweepStart
               \/ SweepRead \/ ShutdownEnd \/ Crash \/ Open \/ UNCHANGED vars
        PROVE status' = status /\ home' = home
    BY <1>9 DEF RegionAppend, RegionError, ShutdownBegin, SweepStart, SweepRead,
                ShutdownEnd, Crash, ProcessEnds, Open, OnlySweep, vars
  <1> QED BY <1>1, <1>2, <1>3, <1>4, <1>5, <1>6, <1>7, <1>8, <1>9
          DEF Next, TaskStep, ShutdownStep

\* A run without a row belongs to no session
LEMMA HomeStep == IInv /\ HomeInv /\ [Next]_vars => HomeInv'
  <1> SUFFICES ASSUME IInv, HomeInv, [Next]_vars PROVE HomeInv'
    OBVIOUS
  <1>1. CASE status' = status /\ home' = home
    BY <1>1 DEF HomeInv
  <1>2. CASE Edge
    BY <1>2, StatusFacts DEF HomeInv, Edge, IInv, TypeOK, RunStatus, Active, Terminal
  <1>3. ASSUME NEW r \in Run, NEW s \in Session, StartRun(r, s) PROVE HomeInv'
    BY <1>3 DEF HomeInv, StartRun, IInv, TypeOK
  <1>4. ASSUME NEW s \in Session, Delete(s) PROVE HomeInv'
    BY <1>4 DEF HomeInv, Delete, IInv, TypeOK
  <1>5. CASE Reconcile
    BY <1>5 DEF HomeInv, Reconcile, IInv, TypeOK
  <1> QED BY <1>1, <1>2, <1>3, <1>4, <1>5, RunsTableStep

(* Every step is a step of RunSpec or leaves the statuses alone *)
LEMMA StepRefines ==
    ASSUME IInv, HomeInv, [Next]_vars
    PROVE  [RS!Next]_status
  <1>1. CASE Edge
    BY <1>1 DEF Edge, RS!Next, RS!Move, RS!Legal, Legal, RS!RunStatus, RunStatus,
                RS!Active, Active, RS!Terminal, Terminal
  <1>2. ASSUME NEW r \in Run, NEW s \in Session, StartRun(r, s) PROVE RS!Next
    <2>1. status[r] = "absent" /\ status' = [status EXCEPT ![r] = "Created"]
      BY <1>2 DEF StartRun, Admissible
    <2>2. \A q \in Run : status[q] \notin Active
      BY <1>2 DEF StartRun, Admissible, IInv, SlotIsActiveRun
    <2>3. RS!Admit(r)
      BY <2>1, <2>2 DEF RS!Admit, RS!Active, Active
    <2> QED BY <2>3 DEF RS!Next
  <1>3. ASSUME NEW s \in Session, Delete(s) PROVE RS!Next
    <2> DEFINE gone == {r \in Run : home[r] = s /\ status[r] \in Terminal}
    <2>1. \A r \in Run : home[r] = s => status[r] \in Terminal \cup {"deleted"}
      BY ZenonT(30), <1>3, StatusFacts DEF Delete, Busy, IInv, TypeOK, SlotIsActiveRun, HomeInv
    <2>2. status' = [r \in Run |-> IF r \in gone THEN "deleted" ELSE status[r]]
      BY <1>3, <2>1 DEF Delete, IInv, TypeOK
    <2>3. RS!Forget(gone)
      BY <2>2 DEF RS!Forget, RS!Terminal, Terminal
    <2> QED BY <2>3 DEF RS!Next
  <1>4. CASE Reconcile
    <2>1. RS!Interrupt
      BY <1>4 DEF Reconcile, RS!Interrupt, RS!Active, Active
    <2> QED BY <2>1 DEF RS!Next
  <1> QED BY <1>1, <1>2, <1>3, <1>4, RunsTableStep

(* RuntimeService implements the abstract run specification: statuses move *)
(* along legal edges, one run at a time, and interrupted runs fail.        *)
THEOREM Refinement == Spec => ImplementsRunSpec
  <1>1. Init => RS!Init /\ HomeInv
    BY DEF Init, RS!Init, HomeInv
  <1>2. IInv /\ HomeInv /\ [Next]_vars => [RS!Next]_status
    BY StepRefines
  <1> QED BY <1>1, <1>2, InitIInv, NextIInv, HomeStep, PTL
          DEF Spec, ImplementsRunSpec, RS!Spec

(* A run that has ended keeps its verdict: no late stop, failure, sweep or *)
(* reconciliation rewrites it.                                             *)
THEOREM Finality == Spec => TerminalIsFinal
  <1> DEFINE Final == \A r \in Run : status[r] \in Terminal =>
                                    status'[r] \in {status[r], "deleted"}
  <1>1. ASSUME IInv, [Next]_vars PROVE [Final]_vars
    <2>1. CASE status' = status
      BY <2>1
    <2>2. CASE Edge
      <3> SUFFICES ASSUME NEW q \in Run, status[q] \in Terminal
                   PROVE status'[q] = status[q]
        OBVIOUS
      <3>1. PICK r \in Run, t \in RunStatus :
                Legal(status[r], t) /\ status' = [status EXCEPT ![r] = t]
        BY <2>2 DEF Edge
      <3>2. status[r] \in Active
        BY <3>1, LegalFromActive
      <3>3. q # r
        BY <3>2, StatusFacts
      <3> QED BY <3>1, <3>3 DEF IInv, TypeOK
    <2>3. ASSUME NEW r \in Run, NEW s \in Session, StartRun(r, s) PROVE Final
      <3>1. status' = [status EXCEPT ![r] = "Created"] /\ status[r] \notin Terminal
        BY <2>3, StatusFacts DEF StartRun, Admissible
      <3> QED BY <1>1, <3>1 DEF IInv, TypeOK
    <2>4. ASSUME NEW s \in Session, Delete(s) PROVE Final
      BY <2>4 DEF Delete, IInv, TypeOK
    <2>5. CASE Reconcile
      BY <2>5, StatusFacts DEF Reconcile, IInv, TypeOK
    <2> QED BY <1>1, <2>1, <2>2, <2>3, <2>4, <2>5, RunsTableStep
  <1> QED BY <1>1, InitIInv, NextIInv, PTL DEF Spec, TerminalIsFinal

-----------------------------------------------------------------------------
(* What a run's record and its task owe the client *)

(* _reconcile owes events only to the runs it failed, and only until the   *)
(* service opens                                                           *)
OwedToFailed ==
    \A r \in Run : owed[r] # <<>> => status[r] = "Failed" /\ phase = "reconciling"

\* and every step keeps it so
LEMMA OwedStep ==
    IInv /\ OwedToFailed /\ [Next]_vars => OwedToFailed'
  <1> SUFFICES ASSUME IInv, OwedToFailed, [Next]_vars PROVE OwedToFailed'
    OBVIOUS
  <1> USE DEF durable, region, starts, tasks, sweeper
  <1>0. /\ status \in [Run -> RowState] /\ owed \in [Run -> Seq(Event)]
        /\ "Failed" \notin Active
    BY StatusFacts DEF IInv, TypeOK
  <1>1. CASE phase = "serving" \/ phase = "stopping"
    <2>1. \A r \in Run : owed[r] = <<>>
      BY <1>1 DEF OwedToFailed
    <2>2. owed' = owed \/ owed' = [r \in Run |-> <<>>]
      BY <1>1 DEF Next, TaskStep, ShutdownStep, CreateSession, Archive, Delete, StartRun,
         AcceptRun, StopRun, StopAgain, TaskStart, TaskTransition, FinalMessage,
         CancelDelivered, TaskFail, TaskConverge, TaskAim, StreamEvent, StreamEnd,
         ReconcileEmit, RegionAppend, RegionError, ShutdownBegin, SweepStart,
         SweepRead, SweepAim, ShutdownEnd, Crash, ProcessEnds, Reconcile, Open,
         OnlyTask, OnlySweep, vars
    <2> QED BY <2>1, <2>2 DEF OwedToFailed
  <1>2. CASE phase = "down" \/ phase = "reconciling"
    <2>1. \/ Reconcile \/ Open \/ Crash
          \/ \E r \in Run : ReconcileEmit(r) \/ AcceptRun(r) \/ TaskStart(r)
          \/ UNCHANGED vars
      BY <1>2 DEF Next, TaskStep, ShutdownStep, CreateSession, Archive, Delete, StartRun,
         StopRun, StopAgain, TaskTransition, FinalMessage,
         CancelDelivered, TaskFail, TaskConverge, TaskAim, StreamEvent, StreamEnd,
         RegionAppend, RegionError, ShutdownBegin, SweepStart,
         SweepRead, SweepAim, ShutdownEnd, Serving, Alive
    <2>2. CASE Reconcile
      BY <2>2, <1>0 DEF Reconcile, OwedToFailed
    <2>3. ASSUME NEW r \in Run, ReconcileEmit(r) PROVE OwedToFailed'
      BY <2>3, <1>0 DEF ReconcileEmit, OwedToFailed
    <2>4. CASE Open \/ Crash \/ UNCHANGED vars
      BY <2>4 DEF Open, Crash, ProcessEnds, vars, OwedToFailed
    <2>5. ASSUME NEW r \in Run, AcceptRun(r) \/ TaskStart(r) PROVE OwedToFailed'
      BY <2>5 DEF AcceptRun, TaskStart, OwedToFailed
    <2> QED BY <2>1, <2>2, <2>3, <2>4, <2>5
  <1> QED BY <1>1, <1>2 DEF IInv, TypeOK

----------------------------------------------------------------------------
(* The record of a run, for every behaviour of the service *)

(* The lock is held exactly while events are left to append, never across  *)
(* a process end, and by a task only inside one of its transitions.        *)
Regions ==
    /\ lock = "free" <=> left = <<>>
    /\ lock = "free" <=> held = NoRun
    /\ phase \in {"down", "reconciling"} => lock = "free"
    /\ lock = "task" => pc[held] \in {"prepare", "plan", "finalize", "complete",
                                      "fail", "aim"}

(* A run without a row, and one inside start_run *)
Beginnings ==
    /\ \A r \in Run : status[r] = "absent" =>
          pc[r] = "none" /\ r \notin starting /\ held # r /\ log[r] = <<>>
    /\ \A r \in starting : pc[r] = "none" /\ status[r] \in Active
    /\ phase # "serving" => starting = {}

(* A task at these places writes nothing more to its log but its end *)
PastEnd == {"none", "complete", "fail", "converge", "aim", "done"}

(* The final answer is written once, between "message" and "complete" *)
Final == "message.assistant_final"
Unanswered == {"ready", "prepare", "plan", "stream", "finalize", "message"}
Answers ==
    \A r \in Run :
        /\ r \in starting \/ pc[r] \in Unanswered => At(log[r], Final) = {}
        /\ pc[r] = "complete" /\ Writable(r) =>
              \E i \in DOMAIN log[r] : At(log[r], Final) = {i}
        /\ status[r] = "Completed" => pc[r] \in PastEnd

(* Neither a convergence loop nor the sweep aims at anything but the stop; *)
(* the sweep works on the only run that can be active.                     *)
Stops == {"StopRequested", "Stopping", "Cancelled"}
Sweeping ==
    /\ \A r \in Run : aim[r] \in Stops
    /\ sweepAim \in Stops
    /\ sweep \in {"read", "aim", "write"} => slot \in {sweepRun, NoRun}
    /\ sweep = "over" => slot = NoRun

(* The record of one run: its status st, trail t, log told, the events     *)
(* still coming, and the process ends so far.                              *)

(* The trail ends with the present status; once somebody asked for a stop  *)
(* the run only moves on towards its end.                                  *)
TrailTells(st, t) ==
    /\ st \in {"absent", "deleted"} => t = <<>>
    /\ st \in RunStatus => t # <<>> /\ t[Len(t)] = st
    /\ st \in Active \ {"StopRequested", "Stopping"} =>
          \A i \in 1..Len(t) : t[i] # "StopRequested"

(* What is still to be appended tells the latest change, and a failure     *)
(* that no event has told yet.                                             *)
Truthful(st, t, told, e) ==
    \/ e.type = "run.state_changed" /\ Tells(e, t, Len(t) - 1) /\ Len(t) > 1
    \/ /\ e.type \in {"run.failed", "model.failed"} /\ st = "Failed"
       /\ At(told, e.type) = {}
       /\ e.type = "model.failed" => \A i \in 1..Len(t) : t[i] # "StopRequested"

ComingIsTrue(st, t, told, coming) ==
    /\ \A i, j \in DOMAIN coming : coming[i].type = coming[j].type => i = j
    /\ \A i \in DOMAIN coming : Truthful(st, t, told, coming[i])

Verdict(st, t, told) ==
    /\ At(told, "run.failed") \cup At(told, "model.failed") # {} => st = "Failed"
    /\ \A i, j \in At(told, "run.failed") : i = j
    /\ \A i, j \in At(told, "model.failed") : i = j
    /\ At(told, "model.failed") # {} => \A i \in 1..Len(t) : t[i] # "StopRequested"

Rec(st, t, told, coming, ends) ==
    /\ st \in RowState /\ t \in Seq(RunStatus) /\ told \in Seq(Event)
    /\ coming \in Seq(Event) /\ ends \in Nat
    /\ TrailTells(st, t) /\ Verdict(st, t, told)
    /\ st # "deleted" => ComingIsTrue(st, t, told, coming) /\ Follows(t, told, coming, ends)

Record(r) == Rec(status[r], trail[r], log[r], Coming(r), restarts)
Records == \A r \in Run : Record(r)

RecordInv ==
    /\ OwedToFailed /\ Regions /\ Beginnings /\ Answers /\ CompletedIsAnswered
    /\ Sweeping /\ Records

(* The events that tell what became of a run *)
Telling == {"run.state_changed", "run.failed", "model.failed"}

(* Appending an event adds its position to those of its type *)
LEMMA AtAppend ==
    ASSUME NEW q \in Seq(Event), NEW e \in Event, NEW type
    PROVE  /\ At(q, type) \subseteq 1..Len(q)
           /\ e.type # type => At(Append(q, e), type) = At(q, type)
           /\ e.type = type => At(Append(q, e), type) = At(q, type) \cup {Len(q) + 1}
           /\ \A i \in 1..Len(q) : Append(q, e)[i] = q[i]
           /\ Append(q, e)[Len(q) + 1] = e
           /\ Len(q) + 1 \notin At(q, type)
  BY DEF At

(* Taking the first event away shifts the others *)
LEMMA AtTail ==
    ASSUME NEW q \in Seq(Event), q # <<>>
    PROVE  /\ Tail(q) \in Seq(Event) /\ Head(q) = q[1] /\ 1 \in DOMAIN q
           /\ Head(q) \in Event
           /\ \A i \in DOMAIN Tail(q) : i + 1 \in DOMAIN q /\ Tail(q)[i] = q[i + 1]
           /\ \A i \in DOMAIN Tail(q) : i + 1 # 1
           /\ \A i \in DOMAIN q : i # 1 => i - 1 \in DOMAIN Tail(q)
  OBVIOUS

\* The places of an event in a log are finite in number
LEMMA AtFinite ==
    ASSUME NEW q \in Seq(Event), NEW type
    PROVE  IsFiniteSet(At(q, type)) /\ Cardinality(At(q, type)) \in Nat
  <1>1. At(q, type) \subseteq 1..Len(q) /\ Len(q) \in Nat
    BY DEF At
  <1>2. IsFiniteSet(1..Len(q))
    BY <1>1, FS_Interval
  <1> QED BY <1>1, <1>2, FS_Subset, FS_CardinalityType

\* An event that tells no status change leaves the record true
LEMMA RecPlain ==
    ASSUME NEW st, NEW t, NEW told, NEW coming, NEW ends, NEW e \in Event,
           Rec(st, t, told, coming, ends),
           e.type \notin {"run.state_changed", "run.failed", "model.failed"}
    PROVE  Rec(st, t, Append(told, e), coming, ends)
  <1> DEFINE new == Append(told, e)
  <1>0. told \in Seq(Event) /\ new \in Seq(Event)
    BY SeqFacts DEF Rec
  <1>1. /\ \A type \in {"run.state_changed", "run.failed", "model.failed"} :
              At(new, type) = At(told, type)
        /\ \A i \in At(told, "run.state_changed") : new[i] = told[i]
    BY <1>0, AtAppend
  <1> HIDE DEF new
  <1>2. Verdict(st, t, new)
    BY <1>1 DEF Rec, Verdict
  <1>3. st # "deleted" => ComingIsTrue(st, t, new, coming)
    BY <1>1 DEF Rec, ComingIsTrue, Truthful
  <1>a. \A k : ToldInOrder(t, told, k) => ToldInOrder(t, new, k)
    BY <1>1 DEF ToldInOrder
  <1>4. st # "deleted" => Follows(t, new, coming, ends)
    BY <1>1, <1>a DEF Rec, Follows
  <1>5. Rec(st, t, new, coming, ends)
    BY <1>0, <1>2, <1>3, <1>4 DEF Rec
  <1> QED BY <1>5 DEF new

\* The end of the process loses at most the events still coming
LEMMA RecLost ==
    ASSUME NEW st, NEW t, NEW told, NEW coming, NEW ends,
           Rec(st, t, told, coming, ends)
    PROVE  Rec(st, t, told, <<>>, ends + 1)
  <1> DEFINE none == <<>>
  <1>0. /\ none \in Seq(Event) /\ DOMAIN none = {} /\ At(none, "run.state_changed") = {}
    BY DEF At
  <1> HIDE DEF none
  <1>1. ComingIsTrue(st, t, told, none)
    BY <1>0 DEF ComingIsTrue
  <1>2. ASSUME st # "deleted" PROVE Follows(t, told, none, ends + 1)
    <2> DEFINE n == IF t = <<>> THEN 0 ELSE Len(t) - 1
    <2> DEFINE told0 == At(told, "run.state_changed")
    <2>0. n \in Int /\ Cardinality(told0) \in Nat /\ ends \in Nat
      BY AtFinite DEF Rec
    <2> HIDE DEF n, told0
    <2>1. PICK lost \in 0..ends :
             /\ n = Cardinality(told0) + lost + 0 \/ n = Cardinality(told0) + lost + 1
             /\ ToldInOrder(t, told, lost)
      BY <1>2 DEF Rec, Follows, n, told0
    <2>2. [told0 -> 0..lost] \subseteq [told0 -> 0..lost + 1]
      BY <2>0
    <2>3. ToldInOrder(t, told, lost + 1)
      BY <2>1, <2>2 DEF ToldInOrder, told0
    <2>4. \E k \in 0..ends + 1 : n = Cardinality(told0) + k + 0 /\ ToldInOrder(t, told, k)
      <3>1. lost \in 0..ends + 1 /\ lost + 1 \in 0..ends + 1
               /\ Cardinality(told0) + lost + 1 = Cardinality(told0) + (lost + 1) + 0
        BY <2>0
      <3> QED BY <2>1, <2>3, <3>1
    <2> QED BY <1>0, <2>4 DEF Follows, n, told0
  <1>3. Rec(st, t, told, none, ends + 1)
    BY <1>0, <1>1, <1>2 DEF Rec
  <1> QED BY <1>3 DEF none

\* A deleted run has no record
LEMMA RecForget ==
    ASSUME NEW coming \in Seq(Event), NEW ends \in Nat
    PROVE  Rec("deleted", <<>>, <<>>, coming, ends)
  <1>1. \A type : At(<<>>, type) = {}
    BY DEF At
  <1>2. Verdict("deleted", <<>>, <<>>)
    BY <1>1 DEF Verdict
  <1>3. TrailTells("deleted", <<>>)
    BY StatusFacts DEF TrailTells, RunStatus
  <1>4. "deleted" \in RowState /\ <<>> \in Seq(RunStatus) /\ <<>> \in Seq(Event)
    BY StatusFacts, SeqFacts
  <1> QED BY <1>2, <1>3, <1>4, Zenon DEF Rec

\* The record of a new run
LEMMA RecBorn ==
    ASSUME NEW t, NEW told, NEW coming, NEW ends, told = <<>>, coming = <<>>,
           Rec("absent", t, told, coming, ends)
    PROVE  Rec("Created", <<"Created">>, told, coming, ends)
  <1> DEFINE new == <<"Created">>
  <1>0. /\ \A type : At(told, type) = {} /\ At(coming, type) = {}
        /\ DOMAIN coming = {} /\ ends \in Nat
    BY DEF At, Rec
  <1>a. "Created" \in RunStatus
    BY StatusFacts
  <1>1. /\ new \in Seq(RunStatus) /\ new # <<>> /\ Len(new) = 1 /\ new[1] = "Created"
    BY <1>a
  <1> HIDE DEF new
  <1>b. \A i \in 1..Len(new) : new[i] = "Created"
    BY <1>1
  <1>2. TrailTells("Created", new) /\ Verdict("Created", new, told)
    BY <1>0, <1>1, <1>b DEF TrailTells, Verdict
  <1>3. ComingIsTrue("Created", new, told, coming)
    BY <1>0 DEF ComingIsTrue
  <1>4. Follows(new, told, coming, ends)
    <2>1. Cardinality({}) = 0
      BY FS_EmptySet
    <2>2. ToldInOrder(new, told, 0)
      <3>1. [i \in {} |-> 0] \in [{} -> 0..0]
        OBVIOUS
      <3> QED BY <1>0, <3>1 DEF ToldInOrder
    <2>3. 0 \in 0..ends /\ 0 = 0 + 0 + 0 /\ Len(new) - 1 = 0
      BY <1>0, <1>1
    <2> QED BY <1>0, <1>1, <2>1, <2>2, <2>3 DEF Follows
  <1>5. Rec("Created", new, told, coming, ends)
    BY <1>1, <1>2, <1>3, <1>4, StatusFacts DEF Rec
  <1> QED BY <1>5 DEF new

(* The first of the coming events is appended *)
LEMMA RecEmit ==
    ASSUME NEW st, NEW t, NEW told, NEW coming, NEW ends,
           Rec(st, t, told, coming, ends), coming # <<>>, st # "deleted",
           NEW e, e = Head(coming)
    PROVE  Rec(st, t, Append(told, e), Tail(coming), ends)
  <1> DEFINE new == Append(told, e)
  <1> DEFINE rest == Tail(coming)
  <1> DEFINE N == Len(told) + 1
  <1>0. /\ told \in Seq(Event) /\ e \in Event /\ rest \in Seq(Event)
        /\ t \in Seq(RunStatus) /\ ends \in Nat /\ st \in RowState
        /\ TrailTells(st, t) /\ Verdict(st, t, told)
        /\ ComingIsTrue(st, t, told, coming) /\ Follows(t, told, coming, ends)
    BY AtTail DEF Rec
  <1>1. new \in Seq(Event)
    BY <1>0, SeqFacts
  <1>a. \A type \in Telling : e.type # type => At(new, type) = At(told, type)
    BY <1>0, AtAppend
  <1>d. \A type \in Telling : e.type = type => At(new, type) = At(told, type) \cup {N}
    <2>1. told \in Seq(Event) /\ e \in Event
      BY <1>0
    <2>2. ASSUME NEW type \in Telling, e.type = type
          PROVE At(Append(told, e), type) = At(told, type) \cup {Len(told) + 1}
      BY SMTT(30), <2>1, <2>2, AtAppend
    <2> QED BY <2>2 DEF N, new
  <1>e. \A type \in Telling :
              At(told, type) \subseteq 1..Len(told) /\ N \notin At(told, type)
    BY <1>0, AtAppend
  <1>b. (\A i \in 1..Len(told) : new[i] = told[i]) /\ new[N] = e
    BY <1>0
  <1>c. "run.state_changed" \in Telling /\ "run.failed" \in Telling
          /\ "model.failed" \in Telling
    BY DEF Telling
  <1>2. /\ \A type \in Telling : e.type # type => At(new, type) = At(told, type)
        /\ \A type \in Telling : e.type = type => At(new, type) = At(told, type) \cup {N}
        /\ \A type \in Telling :
              At(told, type) \subseteq 1..Len(told) /\ N \notin At(told, type)
        /\ \A i \in 1..Len(told) : new[i] = told[i]
        /\ new[N] = e
        /\ "run.state_changed" \in Telling /\ "run.failed" \in Telling
        /\ "model.failed" \in Telling
    BY <1>a, <1>b, <1>c, <1>d, <1>e
  <1>3. /\ e = coming[1] /\ 1 \in DOMAIN coming
        /\ \A i \in DOMAIN rest : i + 1 \in DOMAIN coming /\ rest[i] = coming[i + 1]
        /\ \A i \in DOMAIN rest : i + 1 # 1
    BY <1>0, AtTail DEF Rec
  <1>4. Truthful(st, t, told, e)
    BY <1>0, <1>3 DEF ComingIsTrue
  <1> HIDE DEF new, rest, N
  <1>5. \A i \in DOMAIN rest : rest[i].type # e.type
    BY <1>0, <1>3 DEF ComingIsTrue
  <1>6. Verdict(st, t, new)
    BY <1>0, <1>2, <1>4 DEF Verdict, Truthful
  <1>7. ComingIsTrue(st, t, new, rest)
    <2>1. \A i, j \in DOMAIN rest : rest[i].type = rest[j].type => i = j
      <3>1. \A i, j \in DOMAIN rest : rest[i].type = rest[j].type => i + 1 = j + 1
        BY <1>0, <1>3 DEF ComingIsTrue
      <3>2. \A i, j \in Nat : i + 1 = j + 1 => i = j
        OBVIOUS
      <3>3. DOMAIN rest \subseteq Nat
        BY <1>0
      <3> QED BY <3>1, <3>2, <3>3
    <2>2. \A i \in DOMAIN rest : Truthful(st, t, told, rest[i])
      BY <1>0, <1>3 DEF ComingIsTrue
    <2>3. \A i \in DOMAIN rest : Truthful(st, t, new, rest[i])
      BY <1>2, <1>5, <2>2 DEF Truthful
    <2> QED BY <2>1, <2>3 DEF ComingIsTrue
  <1>8. Follows(t, new, rest, ends)
    <2> DEFINE n == IF t = <<>> THEN 0 ELSE Len(t) - 1
    <2> DEFINE old == At(told, "run.state_changed")
    <2> DEFINE c == Cardinality(old)
    <2> DEFINE soon == At(coming, "run.state_changed")
    <2> DEFINE after == At(rest, "run.state_changed")
    <2>0. n \in Int /\ c \in Nat /\ IsFiniteSet(old)
      BY <1>0, AtFinite
    <2>1. PICK lost \in 0..ends :
             /\ n = c + lost + IF soon = {} THEN 0 ELSE 1
             /\ ToldInOrder(t, told, lost)
      BY <1>0 DEF Follows
    <2>2. \A i \in soon : Tells(coming[i], t, n)
      BY <1>0 DEF Follows
    <2>3. \A i \in after : Tells(rest[i], t, n)
      BY <1>3, <2>2 DEF At
    <2>4. CASE e.type # "run.state_changed"
      <3>1. At(new, "run.state_changed") = old
        BY <1>2, <2>4
      <3>2. after = {} <=> soon = {}
        <4>1. ASSUME NEW i \in soon PROVE i # 1 /\ i - 1 \in after
          <5>1. i \in DOMAIN coming /\ coming[i].type = "run.state_changed" /\ i # 1
            BY <4>1, <1>3, <2>4 DEF At
          <5>2. i - 1 \in DOMAIN rest /\ (i - 1) + 1 = i
            BY <5>1, AtTail DEF Rec, rest
          <5> QED BY <5>1, <5>2, <1>3 DEF At
        <4>2. ASSUME NEW i \in after PROVE i + 1 \in soon
          BY <4>2, <1>3 DEF At
        <4> QED BY <4>1, <4>2
      <3>3. ToldInOrder(t, new, lost)
        <4>1. \A i \in old : new[i] = told[i]
          BY <1>2
        <4> QED BY <2>1, <3>1, <4>1 DEF ToldInOrder
      <3> QED BY <2>1, <2>3, <3>1, <3>2, <3>3 DEF Follows
    <2>5. CASE e.type = "run.state_changed"
      <3>1. /\ At(new, "run.state_changed") = old \cup {N} /\ N \notin old
            /\ N = Len(told) + 1 /\ old \subseteq 1..Len(told) /\ Len(told) \in Nat
        BY SMTT(30), <1>0, <1>2, <2>5 DEF N
      <3>2. after = {} /\ soon # {}
        BY <1>3, <1>5, <2>5 DEF At
      <3>3. Cardinality(old \cup {N}) = c + 1
        BY <2>0, <3>1, FS_AddElement
      <3>4. n = (c + 1) + lost + 0 /\ lost \in Nat
        BY <2>0, <2>1, <3>2, <1>0
      <3>5. ToldInOrder(t, new, lost)
        <4> DEFINE more == old \cup {N}
        <4>1. PICK lag \in [old -> 0..lost] :
                 /\ \A i, j \in old : i <= j => lag[i] <= lag[j]
                 /\ \A i \in old :
                      Tells(told[i], t, Cardinality({j \in old : j <= i}) + lag[i])
          BY <2>1 DEF ToldInOrder
        <4> DEFINE lag2 == [i \in more |-> IF i = N THEN lost ELSE lag[i]]
        <4>2. /\ lag2 \in [more -> 0..lost]
              /\ \A i \in old : lag2[i] = lag[i]
              /\ lag2[N] = lost
          BY <3>1, <3>4
        <4> HIDE DEF lag2
        <4>a. \A i \in old : i \in Int /\ i < N /\ ~(N <= i)
          BY <3>1
        <4>3. \A i, j \in more : i <= j => lag2[i] <= lag2[j]
          <5>1. \A i \in more : lag2[i] <= lost
            BY <4>2, <3>4
          <5> QED BY <4>1, <4>2, <4>a, <5>1
        <4>4. \A i \in old : {j \in more : j <= i} = {j \in old : j <= i}
          BY <4>a
        <4>5. {j \in more : j <= N} = more
          BY <4>a, <3>1
        <4>6. \A i \in old : Tells(new[i], t, Cardinality({j \in more : j <= i}) + lag2[i])
          <5>1. \A i \in old : new[i] = told[i]
            BY <1>2
          <5> QED BY <4>1, <4>2, <4>4, <5>1
        <4>7. Tells(new[N], t, Cardinality({j \in more : j <= N}) + lag2[N])
          <5>0. Cardinality({j \in more : j <= N}) = c + 1
            BY <4>5, <3>3
          <5>1. Cardinality({j \in more : j <= N}) + lag2[N] = n
            BY <5>0, <4>2, <3>4, <2>0
          <5>2. Tells(e, t, n)
            BY <1>3, <2>2, <2>5 DEF At
          <5> QED BY <1>2, <5>1, <5>2
        <4>8. \A i \in more : Tells(new[i], t, Cardinality({j \in more : j <= i}) + lag2[i])
          BY <4>6, <4>7
        <4>9. At(new, "run.state_changed") = more
          BY <3>1
        <4> HIDE DEF more
        <4> QED BY <4>2, <4>3, <4>8, <4>9 DEF ToldInOrder
      <3> QED BY <2>1, <2>3, <3>1, <3>2, <3>3, <3>4, <3>5 DEF Follows
    <2> QED BY <2>4, <2>5
  <1>9. Rec(st, t, new, rest, ends)
    BY <1>0, <1>1, <1>6, <1>7, <1>8 DEF Rec
  <1> QED BY <1>9 DEF new, rest

(* The events a status change from st to s owes *)
Owes(st, s, events) ==
    /\ events \in Seq(Event)
    /\ \A i, j \in DOMAIN events : events[i].type = events[j].type => i = j
    /\ \E i \in DOMAIN events : events[i].type = "run.state_changed"
    /\ \A i \in DOMAIN events :
          \/ /\ events[i].type = "run.state_changed"
             /\ events[i].from = st /\ events[i].to = s
          \/ events[i].type = "run.failed" /\ s = "Failed"
          \/ /\ events[i].type = "model.failed" /\ s = "Failed"
             /\ st \notin {"StopRequested", "Stopping"}

(* A status is written and its events are owed *)
LEMMA RecWrite ==
    ASSUME NEW st \in Active, NEW t, NEW told, NEW ends, NEW s \in RunStatus,
           NEW events, Rec(st, t, told, <<>>, ends), Owes(st, s, events),
           st \in {"StopRequested", "Stopping"} /\ s \in Active =>
               s \in {"StopRequested", "Stopping"}
    PROVE  Rec(s, Append(t, s), told, events, ends)
  <1> DEFINE t2 == Append(t, s)
  <1> DEFINE L == Len(t)
  <1>0. /\ t \in Seq(RunStatus) /\ told \in Seq(Event) /\ ends \in Nat /\ st \in RowState
        /\ TrailTells(st, t) /\ Verdict(st, t, told) /\ st # "deleted"
        /\ Follows(t, told, <<>>, ends) /\ events \in Seq(Event)
    BY StatusFacts DEF Rec, Owes
  <1>1. t # <<>> /\ t[L] = st /\ st # "Failed"
    BY <1>0, StatusFacts DEF TrailTells, RunStatus
  <1>2. /\ t2 \in Seq(RunStatus) /\ Len(t2) = L + 1 /\ t2 # <<>> /\ L \in Nat /\ L > 0
        /\ \A i \in 1..L : t2[i] = t[i]
        /\ t2[L + 1] = s
    BY <1>0, <1>1
  <1> HIDE DEF t2, L
  <1>3. TrailTells(s, t2)
    <2>1. s \notin {"absent", "deleted"}
      BY StatusFacts DEF RunStatus
    <2>2. ASSUME s \in Active \ {"StopRequested", "Stopping"}, NEW i \in 1..Len(t2)
          PROVE t2[i] # "StopRequested"
      <3>1. i \in 1..L \/ i = L + 1
        BY <1>2
      <3>2. st \in Active \ {"StopRequested", "Stopping"}
        BY <2>2
      <3> QED BY <1>0, <1>2, <2>2, <3>1, <3>2 DEF TrailTells, L
    <2> QED BY <1>2, <2>1, <2>2 DEF TrailTells
  <1>4. At(told, "run.failed") = {} /\ At(told, "model.failed") = {}
    BY <1>0, <1>1 DEF Verdict
  <1>5. Verdict(s, t2, told)
    BY <1>4 DEF Verdict
  <1>6. \A i \in DOMAIN events : events[i].type = "run.state_changed" =>
             Tells(events[i], t2, L)
    BY <1>1, <1>2 DEF Owes, Tells
  <1>7. ComingIsTrue(s, t2, told, events)
    <2> SUFFICES ASSUME NEW i \in DOMAIN events PROVE Truthful(s, t2, told, events[i])
      BY DEF ComingIsTrue, Owes
    <2>1. CASE events[i].type = "run.state_changed"
      <3>1. Len(t2) - 1 = L /\ Len(t2) > 1
        BY <1>2
      <3> QED BY <1>6, <2>1, <3>1 DEF Truthful
    <2>2. CASE events[i].type = "run.failed" /\ s = "Failed"
      BY <1>4, <2>2 DEF Truthful
    <2>3. CASE events[i].type = "model.failed" /\ s = "Failed"
               /\ st \notin {"StopRequested", "Stopping"}
      <3>1. \A j \in 1..L : t2[j] # "StopRequested"
        BY <1>0, <1>2, <2>3 DEF TrailTells, L
      <3>2. \A j \in 1..Len(t2) : j \in 1..L \/ j = L + 1
        BY <1>2
      <3>3. \A j \in 1..Len(t2) : t2[j] # "StopRequested"
        BY <1>2, <2>3, <3>1, <3>2
      <3> QED BY <1>4, <2>3, <3>3 DEF Truthful
    <2> QED BY <2>1, <2>2, <2>3 DEF Owes
  <1>8. Follows(t2, told, events, ends)
    <2> DEFINE c == Cardinality(At(told, "run.state_changed"))
    <2>0. c \in Nat
      BY <1>0, AtFinite
    <2>1. PICK lost \in 0..ends : L - 1 = c + lost + 0 /\ ToldInOrder(t, told, lost)
      <3>1. At(<<>>, "run.state_changed") = {}
        BY DEF At
      <3> QED BY <1>0, <1>1, <3>1 DEF Follows, L
    <2>2. \A e, k : k \in Nat /\ k > 0 /\ Tells(e, t, k) => Tells(e, t2, k)
      <3> SUFFICES ASSUME NEW e, NEW k \in Nat, k > 0, Tells(e, t, k)
                   PROVE Tells(e, t2, k)
        OBVIOUS
      <3>1. k < L /\ e.from = t[k] /\ e.to = t[k + 1]
        BY DEF Tells, L
      <3>2. k \in 1..L /\ k + 1 \in 1..L /\ k < Len(t2)
        BY <1>2, <3>1
      <3> QED BY <1>2, <3>1, <3>2 DEF Tells
    <2>3. ToldInOrder(t2, told, lost)
      <3> DEFINE old == At(told, "run.state_changed")
      <3> DEFINE rank(i) == Cardinality({j \in old : j <= i})
      <3>1. PICK lag \in [old -> 0..lost] :
               /\ \A i, j \in old : i <= j => lag[i] <= lag[j]
               /\ \A i \in old : Tells(told[i], t, rank(i) + lag[i])
        BY <2>1 DEF ToldInOrder
      <3>2. ASSUME NEW i \in old PROVE rank(i) + lag[i] \in Nat /\ rank(i) + lag[i] > 0
        <4>1. IsFiniteSet(old) /\ {j \in old : j <= i} \subseteq old
          BY <1>0, AtFinite
        <4>2. IsFiniteSet({j \in old : j <= i})
          BY <4>1, FS_Subset
        <4>3. rank(i) \in Nat
          BY <4>2, FS_CardinalityType
        <4>4. i <= i
          BY <1>0 DEF At
        <4>5. {j \in old : j <= i} # {}
          BY <4>4
        <4>6. rank(i) # 0
          BY <4>2, <4>5, FS_EmptySet
        <4>7. lag[i] \in Nat
          BY <3>1, <1>0
        <4> HIDE DEF rank
        <4> QED BY <4>3, <4>6, <4>7
      <3>3. \A i \in old : Tells(told[i], t2, rank(i) + lag[i])
        BY <2>2, <3>1, <3>2
      <3> QED BY <3>1, <3>3 DEF ToldInOrder
    <2>4. At(events, "run.state_changed") # {}
      BY DEF Owes, At
    <2>5. Len(t2) - 1 = L /\ L = c + lost + 1
      BY <2>0, <2>1, <1>2, <1>0
    <2>6. \A i \in At(events, "run.state_changed") : Tells(events[i], t2, L)
      BY <1>6 DEF At
    <2> QED BY <1>2, <2>3, <2>4, <2>5, <2>6 DEF Follows
  <1>9. Rec(s, t2, told, events, ends)
    BY <1>0, <1>2, <1>3, <1>5, <1>7, <1>8, StatusFacts DEF Rec
  <1> QED BY <1>9 DEF t2

\* What the holder of the lock has still to append
LEMMA OwesFacts ==
    /\ \A st, s \in RunStatus : Owes(st, s, <<Changed(st, s)>>)
    /\ \A st \in RunStatus :
          Owes(st, "Failed", <<Changed(st, "Failed"), Plain("run.failed")>>)
    /\ \A st \in RunStatus : st \notin {"StopRequested", "Stopping"} =>
          Owes(st, "Failed", <<Plain("model.failed"), Changed(st, "Failed"),
                               Plain("run.failed")>>)
  <1>0. "Failed" \in RunStatus
    BY StatusFacts
  <1>1. /\ Plain("run.failed") \in Event /\ Plain("model.failed") \in Event
        /\ \A st, s \in RunStatus : Changed(st, s) \in Event
    BY EventTypes DEF EventType
  <1>2. /\ Plain("run.failed").type = "run.failed"
        /\ Plain("model.failed").type = "model.failed"
        /\ \A st, s : /\ Changed(st, s).type = "run.state_changed"
                      /\ Changed(st, s).from = st /\ Changed(st, s).to = s
    BY DEF Plain, Changed
  <1>3. ASSUME NEW st \in RunStatus, NEW s \in RunStatus
        PROVE Owes(st, s, <<Changed(st, s)>>)
    <2>0. PICK c \in Event : c = Changed(st, s)
      BY <1>1
    <2> DEFINE q == <<c>>
    <2>1. q \in Seq(Event) /\ DOMAIN q = {1} /\ q[1] = c
      BY SeqFacts
    <2> HIDE DEF q
    <2>2. Owes(st, s, q)
      BY <1>2, <2>0, <2>1 DEF Owes
    <2> QED BY <2>0, <2>2 DEF q
  <1>4. ASSUME NEW st \in RunStatus
        PROVE Owes(st, "Failed", <<Changed(st, "Failed"), Plain("run.failed")>>)
    <2>0. PICK c \in Event, f \in Event : c = Changed(st, "Failed") /\ f = Plain("run.failed")
      BY <1>0, <1>1
    <2> DEFINE q == <<c, f>>
    <2>1. q \in Seq(Event) /\ DOMAIN q = 1..2 /\ q[1] = c /\ q[2] = f
      BY SeqFacts
    <2>a. \A i \in 1..2 : i = 1 \/ i = 2
      OBVIOUS
    <2> HIDE DEF q
    <2>2. Owes(st, "Failed", q)
      <3>1. 1 \in DOMAIN q /\ q[1].type = "run.state_changed"
        BY <1>2, <2>0, <2>1
      <3> QED BY <1>2, <2>0, <2>1, <2>a, <3>1 DEF Owes
    <2> QED BY <2>0, <2>2 DEF q
  <1>5. ASSUME NEW st \in RunStatus, st \notin {"StopRequested", "Stopping"}
        PROVE Owes(st, "Failed", <<Plain("model.failed"), Changed(st, "Failed"),
                                   Plain("run.failed")>>)
    <2>0. PICK m \in Event, c \in Event, f \in Event :
             m = Plain("model.failed") /\ c = Changed(st, "Failed") /\ f = Plain("run.failed")
      BY <1>0, <1>1
    <2> DEFINE q == <<m, c, f>>
    <2>1. q \in Seq(Event) /\ DOMAIN q = 1..3 /\ q[1] = m /\ q[2] = c /\ q[3] = f
      BY SeqFacts
    <2>a. (\A i \in 1..3 : i = 1 \/ i = 2 \/ i = 3) /\ 2 \in 1..3
      OBVIOUS
    <2> HIDE DEF q
    <2>2. Owes(st, "Failed", q)
      <3>1. 2 \in DOMAIN q /\ q[2].type = "run.state_changed"
        BY <1>2, <2>0, <2>1, <2>a
      <3> QED BY <1>2, <1>5, <2>0, <2>1, <2>a, <3>1 DEF Owes
    <2> QED BY <2>0, <2>2 DEF q
  <1> QED BY <1>3, <1>4, <1>5

\* A step that touches no record
LEMMA SameRecords ==
    ASSUME Records, UNCHANGED <<status, trail, log, held, left, owed, restarts>>
    PROVE  Records'
  BY DEF Records, Record, Coming

\* A step that appends one event which tells no status change
LEMMA PlainRecords ==
    ASSUME IInv, Records, NEW r \in Run, NEW e \in Event,
           e.type \notin {"run.state_changed", "run.failed", "model.failed"},
           log' = [log EXCEPT ![r] = Append(@, e)],
           UNCHANGED <<status, trail, held, left, owed, restarts>>
    PROVE  Records'
  <1> SUFFICES ASSUME NEW q \in Run PROVE Record(q)'
    BY DEF Records
  <1>1. Rec(status[q], trail[q], log[q], Coming(q), restarts)
    BY DEF Records, Record
  <1>2. /\ status'[q] = status[q] /\ trail'[q] = trail[q] /\ Coming(q)' = Coming(q)
        /\ restarts' = restarts /\ log \in [Run -> Seq(Event)]
    BY DEF Coming, IInv, TypeOK
  <1>3. CASE q = r
    <2>1. log'[q] = Append(log[q], e)
      BY <1>2, <1>3
    <2>2. Rec(status[q], trail[q], Append(log[q], e), Coming(q), restarts)
      BY <1>1, RecPlain
    <2> QED BY <1>2, <2>1, <2>2 DEF Record
  <1>4. CASE q # r
    BY <1>1, <1>2, <1>4 DEF Record
  <1> QED BY <1>3, <1>4

\* A status change: the row now, its events to come
LEMMA EnterRecords ==
    ASSUME IInv, Records, Regions, OwedToFailed,
           NEW who, NEW r \in Run, NEW t \in RunStatus, NEW events,
           Enter(who, r, t, events), status[r] \in Active,
           Owes(status[r], t, events),
           status[r] \in {"StopRequested", "Stopping"} /\ t \in Active =>
               t \in {"StopRequested", "Stopping"},
           UNCHANGED <<log, owed, restarts>>
    PROVE  Records'
  <1> SUFFICES ASSUME NEW q \in Run PROVE Record(q)'
    BY DEF Records
  <1>1. Rec(status[q], trail[q], log[q], Coming(q), restarts)
    BY DEF Records, Record
  <1>2. /\ held = NoRun /\ held' = r /\ left' = events
        /\ status' = [status EXCEPT ![r] = t] /\ status \in [Run -> RowState]
        /\ trail' = [trail EXCEPT ![r] = Append(@, t)] /\ trail \in [Run -> Seq(RunStatus)]
    BY DEF Enter, WriteStatus, Regions, IInv, TypeOK
  <1>3. CASE q = r
    <2>1. Coming(q) = <<>>
      BY <1>2, <1>3, StatusFacts DEF Coming, OwedToFailed
    <2>2. /\ status'[q] = t /\ trail'[q] = Append(trail[q], t) /\ log'[q] = log[q]
          /\ Coming(q)' = events
      BY <1>2, <1>3 DEF Coming
    <2>3. Rec(t, Append(trail[q], t), log[q], events, restarts)
      BY <1>1, <1>3, <2>1, RecWrite
    <2> QED BY <2>2, <2>3 DEF Record
  <1>4. CASE q # r
    <2>1. /\ status'[q] = status[q] /\ trail'[q] = trail[q] /\ log'[q] = log[q]
          /\ Coming(q)' = Coming(q)
      BY <1>2, <1>4 DEF Coming
    <2> QED BY <1>1, <2>1 DEF Record
  <1> QED BY <1>3, <1>4

(* A legal edge keeps to the stop once it was asked for *)
LEMMA LegalStop ==
    ASSUME NEW st, NEW t, Legal(st, t), st \in {"StopRequested", "Stopping"}, t \in Active
    PROVE  t \in {"StopRequested", "Stopping"}
  BY DEF Legal, Active

(* Every step keeps the record of every run *)
LEMMA RecordsStep ==
    ASSUME IInv, RecordInv, [Next]_vars
    PROVE  Records'
  <1> USE DEF durable, region, starts, tasks, sweeper
  <1>r. Records /\ Regions /\ OwedToFailed /\ Beginnings
    BY DEF RecordInv
  <1>t. /\ status \in [Run -> RowState] /\ log \in [Run -> Seq(Event)]
        /\ trail \in [Run -> Seq(RunStatus)] /\ owed \in [Run -> Seq(Event)]
        /\ held \in Run \cup {NoRun} /\ left \in Seq(Event) /\ restarts \in Nat
        /\ left # <<>> => held \in Run
    BY DEF IInv, TypeOK
  <1>q. \A q \in Run : Rec(status[q], trail[q], log[q], Coming(q), restarts)
    BY <1>r DEF Records, Record
  (* one legal edge written under the lock *)
  <1>e. ASSUME NEW who, NEW r \in Run, NEW t, Legal(status[r], t),
               Enter(who, r, t, <<Changed(status[r], t)>>),
               UNCHANGED <<log, owed, restarts>>
        PROVE  Records'
    <2>1. status[r] \in Active /\ t \in RunStatus
      BY <1>e, LegalFromActive
    <2>2. Owes(status[r], t, <<Changed(status[r], t)>>)
      BY <2>1, OwesFacts, StatusFacts
    <2>3. status[r] \in {"StopRequested", "Stopping"} /\ t \in Active =>
               t \in {"StopRequested", "Stopping"}
      BY <1>e, LegalStop
    <2> QED BY <1>e, <1>r, <2>1, <2>2, <2>3, EnterRecords
  <1>1. ASSUME NEW s \in Session, CreateSession(s) \/ Archive(s) PROVE Records'
    BY <1>1, <1>r, SameRecords DEF CreateSession, Archive
  <1>2. ASSUME NEW s \in Session, Delete(s) PROVE Records'
    <2> SUFFICES ASSUME NEW q \in Run PROVE Record(q)'
      BY DEF Records
    <2>1. /\ status' = [r \in Run |-> IF home[r] = s THEN "deleted" ELSE status[r]]
          /\ log' = [r \in Run |-> IF home[r] = s THEN <<>> ELSE log[r]]
          /\ trail' = [r \in Run |-> IF home[r] = s THEN <<>> ELSE trail[r]]
          /\ restarts' = restarts /\ Coming(q)' = Coming(q)
      BY <1>2 DEF Delete, Coming
    <2>2. CASE home[q] = s
      <3>1. Coming(q) \in Seq(Event)
        BY <1>t DEF Coming
      <3>2. Rec("deleted", <<>>, <<>>, Coming(q), restarts)
        BY <3>1, <1>t, RecForget
      <3> QED BY <2>1, <2>2, <3>2 DEF Record
    <2>3. CASE home[q] # s
      BY <2>1, <2>3, <1>q DEF Record
    <2> QED BY <2>2, <2>3
  <1>3. ASSUME NEW r \in Run, NEW s \in Session, StartRun(r, s) PROVE Records'
    <2> SUFFICES ASSUME NEW q \in Run PROVE Record(q)'
      BY DEF Records
    <2>1. /\ status[r] = "absent" /\ status' = [status EXCEPT ![r] = "Created"]
          /\ trail' = [trail EXCEPT ![r] = <<"Created">>]
          /\ log' = log /\ restarts' = restarts /\ Coming(q)' = Coming(q)
      BY <1>3 DEF StartRun, Admissible, Coming
    <2>2. CASE q = r
      <3>1. log[q] = <<>> /\ Coming(q) = <<>>
        BY <2>1, <2>2, <1>r DEF Beginnings, Coming, OwedToFailed
      <3>2. Rec("Created", <<"Created">>, log[q], Coming(q), restarts)
        BY <2>1, <2>2, <3>1, <1>q, RecBorn
      <3>3. status'[q] = "Created" /\ trail'[q] = <<"Created">>
        BY <2>1, <2>2, <1>t
      <3> QED BY <2>1, <3>2, <3>3 DEF Record
    <2>3. CASE q # r
      BY <2>1, <2>3, <1>q, <1>t DEF Record
    <2> QED BY <2>2, <2>3
  <1>p. /\ \A type \in {"run.created", "stream", "message.assistant_final"} :
              Plain(type) \in Event /\ Plain(type).type = type
    BY EventTypes DEF EventType, Plain
  <1>4. ASSUME NEW r \in Run, AcceptRun(r) PROVE Records'
    <2>1. log' = [log EXCEPT ![r] = Append(@, Plain("run.created"))]
             /\ UNCHANGED <<status, trail, held, left, owed, restarts>>
      BY <1>4 DEF AcceptRun
    <2> QED BY <2>1, <1>p, <1>r, PlainRecords
  <1>5. ASSUME NEW r \in Run, StopRun(r) PROVE Records'
    <2>1. Legal(status[r], "StopRequested")
      BY <1>5 DEF StopRun, Legal, Active
    <2>2. Enter("stop", r, "StopRequested", <<Changed(status[r], "StopRequested")>>)
            /\ UNCHANGED <<log, owed, restarts>>
      BY <1>5 DEF StopRun
    <2> QED BY <2>1, <2>2, <1>e
  <1>6. ASSUME NEW r \in Run, StopAgain(r) \/ TaskStart(r) PROVE Records'
    BY <1>6, <1>r, SameRecords DEF StopAgain, TaskStart
  <1>7. ASSUME NEW r \in Run, TaskTransition(r) PROVE Records'
    <2> DEFINE t == TargetOf(pc[r])
    <2>1. \/ /\ Legal(status[r], t) /\ Enter("task", r, t, <<Changed(status[r], t)>>)
             /\ UNCHANGED <<log, owed, restarts>>
          \/ UNCHANGED <<status, trail, log, held, left, owed, restarts>>
      BY <1>7 DEF TaskTransition, OnlyTask
    <2> HIDE DEF t
    <2> QED BY <2>1, <1>e, <1>r, SameRecords
  <1>8. ASSUME NEW r \in Run, StreamEvent(r) \/ FinalMessage(r) \/ CancelDelivered(r)
        PROVE Records'
    <2>1. \/ log' = log
          \/ log' = [log EXCEPT ![r] = Append(@, Plain("stream"))]
          \/ log' = [log EXCEPT ![r] = Append(@, Plain("message.assistant_final"))]
      BY <1>8 DEF StreamEvent, FinalMessage, CancelDelivered
    <2>2. UNCHANGED <<status, trail, held, left, owed, restarts>>
      BY <1>8 DEF StreamEvent, FinalMessage, CancelDelivered, OnlyTask
    <2>3. CASE log' = log
      BY <2>2, <2>3, <1>r, SameRecords
    <2>4. CASE log' = [log EXCEPT ![r] = Append(@, Plain("stream"))]
      BY <2>2, <2>4, <1>p, <1>r, PlainRecords
    <2>5. CASE log' = [log EXCEPT ![r] = Append(@, Plain("message.assistant_final"))]
      BY <2>2, <2>5, <1>p, <1>r, PlainRecords
    <2> QED BY <2>1, <2>3, <2>4, <2>5
  <1>9. ASSUME NEW r \in Run, StreamEnd(r) \/ TaskConverge(r) PROVE Records'
    BY <1>9, <1>r, SameRecords DEF StreamEnd, TaskConverge, OnlyTask
  <1>10. ASSUME NEW r \in Run, TaskFail(r) PROVE Records'
    <2> DEFINE ev == <<Plain("model.failed"), Changed(status[r], "Failed"),
                       Plain("run.failed")>>
    <2>1. \/ /\ FailureOwns(r) /\ Enter("task", r, "Failed", ev)
             /\ UNCHANGED <<log, owed, restarts>>
          \/ UNCHANGED <<status, trail, log, held, left, owed, restarts>>
      BY <1>10 DEF TaskFail, OnlyTask
    <2>2. CASE FailureOwns(r) /\ Enter("task", r, "Failed", ev)
               /\ UNCHANGED <<log, owed, restarts>>
      <3>1. status[r] \in Active /\ status[r] \notin {"StopRequested", "Stopping"}
               /\ "Failed" \in RunStatus
        BY <2>2, StatusFacts DEF FailureOwns
      <3>2. Owes(status[r], "Failed", ev)
        BY <3>1, OwesFacts, StatusFacts
      <3> HIDE DEF ev
      <3> QED BY <2>2, <3>1, <3>2, <1>r, EnterRecords
    <2> QED BY <2>1, <2>2, <1>r, SameRecords
  <1>11. ASSUME NEW r \in Run, TaskAim(r) PROVE Records'
    <2> DEFINE t == aim[r]
    <2>1. \/ /\ Legal(status[r], t) /\ Enter("task", r, t, <<Changed(status[r], t)>>)
             /\ UNCHANGED <<log, owed, restarts>>
          \/ UNCHANGED <<status, trail, log, held, left, owed, restarts>>
      BY <1>11 DEF TaskAim, OnlyTask
    <2> HIDE DEF t
    <2> QED BY <2>1, <1>e, <1>r, SameRecords
  <1>12. ASSUME NEW r \in Run, ReconcileEmit(r) PROVE Records'
    <2> SUFFICES ASSUME NEW q \in Run PROVE Record(q)'
      BY DEF Records
    <2>1. /\ held = NoRun /\ held' = NoRun /\ owed[r] # <<>> /\ status[r] # "deleted"
          /\ log' = [log EXCEPT ![r] = Append(@, Head(owed[r]))]
          /\ owed' = [owed EXCEPT ![r] = Tail(@)]
          /\ UNCHANGED <<status, trail, restarts>>
      BY <1>12, <1>r DEF ReconcileEmit, Regions, OwedToFailed
    <2>2. CASE q = r
      <3>1. Coming(q) = owed[r] /\ Coming(q)' = Tail(owed[r])
               /\ log'[q] = Append(log[q], Head(owed[r]))
        BY <2>1, <2>2, <1>t DEF Coming
      <3>2. Rec(status[q], trail[q], Append(log[q], Head(owed[r])), Tail(owed[r]), restarts)
        BY <2>1, <2>2, <3>1, <1>q, RecEmit
      <3> QED BY <2>1, <3>1, <3>2 DEF Record
    <2>3. CASE q # r
      <3>1. Coming(q)' = Coming(q) /\ log'[q] = log[q]
        BY <2>1, <2>3, <1>t DEF Coming
      <3> QED BY <2>1, <3>1, <1>q DEF Record
    <2> QED BY <2>2, <2>3
  <1>13. ASSUME RegionAppend PROVE Records'
    <2> SUFFICES ASSUME NEW q \in Run PROVE Record(q)'
      BY DEF Records
    <2>1. /\ held \in Run /\ left # <<>> /\ status[held] # "deleted"
          /\ log' = [log EXCEPT ![held] = Append(@, Head(left))]
          /\ UNCHANGED <<status, trail, restarts, owed>>
          /\ \A p \in Run : owed[p] = <<>>
      BY <1>13, <1>r, <1>t DEF RegionAppend, AppendLeft, Writable, OwedToFailed, Alive
    <2>2. \/ left' = Tail(left) /\ held' = held
          \/ Tail(left) = <<>> /\ held' = NoRun
      <3>1. Len(left) > 1 \/ Tail(left) = <<>>
        BY <1>t, <2>1
      <3>2. \/ Len(left) > 1 /\ left' = Tail(left) /\ held' = held
            \/ ~(Len(left) > 1) /\ held' = NoRun
        BY <1>13 DEF RegionAppend, Release
      <3> QED BY <3>1, <3>2
    <2>3. CASE q = held
      <3>1. Coming(q) = left /\ Coming(q)' = Tail(left)
               /\ log'[q] = Append(log[q], Head(left))
        BY <2>1, <2>2, <2>3, <1>t DEF Coming
      <3>2. Rec(status[q], trail[q], Append(log[q], Head(left)), Tail(left), restarts)
        BY <2>1, <2>3, <3>1, <1>q, RecEmit
      <3> QED BY <2>1, <3>1, <3>2 DEF Record
    <2>4. CASE q # held
      <3>1. Coming(q)' = Coming(q) /\ log'[q] = log[q]
        BY <2>1, <2>2, <2>4, <1>t DEF Coming
      <3> QED BY <2>1, <3>1, <1>q DEF Record
    <2> QED BY <2>3, <2>4
  <1>14. ASSUME RegionError PROVE Records'
    <2> SUFFICES ASSUME NEW q \in Run PROVE Record(q)'
      BY DEF Records
    <2>1. /\ held \in Run /\ status[held] = "deleted" /\ held' = NoRun
          /\ UNCHANGED <<status, trail, restarts, owed, log>>
      BY <1>14, <1>t DEF RegionError, Release, Writable
    <2>2. CASE q = held
      <3>1. Coming(q)' \in Seq(Event)
        BY <2>1, <1>t DEF Coming
      <3>2. \A c \in Seq(Event) : Rec(status[q], trail[q], log[q], c, restarts)
        BY <1>q, <2>1, <2>2 DEF Rec
      <3> QED BY <2>1, <3>1, <3>2 DEF Record
    <2>3. CASE q # held
      <3>1. Coming(q)' = Coming(q)
        BY <2>1, <2>3 DEF Coming
      <3> QED BY <2>1, <3>1, <1>q DEF Record
    <2> QED BY <2>2, <2>3
  <1>15. ASSUME ShutdownBegin \/ SweepStart \/ SweepRead \/ Open \/ UNCHANGED vars
         PROVE Records'
    BY <1>15, <1>r, SameRecords
       DEF ShutdownBegin, SweepStart, SweepRead, Open, OnlySweep, vars
  <1>16. ASSUME SweepAim PROVE Records'
    <2>0. sweepRun \in Run
      BY <1>16 DEF SweepAim, IInv
    <2>1. \/ /\ Legal(status[sweepRun], sweepAim)
             /\ Enter("sweep", sweepRun, sweepAim, <<Changed(status[sweepRun], sweepAim)>>)
             /\ UNCHANGED <<log, owed, restarts>>
          \/ UNCHANGED <<status, trail, log, held, left, owed, restarts>>
      BY <1>16 DEF SweepAim, OnlySweep
    <2> QED BY <2>0, <2>1, <1>e, <1>r, SameRecords
  <1>17. ASSUME ShutdownEnd \/ Crash PROVE Records'
    <2> SUFFICES ASSUME NEW q \in Run PROVE Record(q)'
      BY DEF Records
    <2>1. /\ Coming(q)' = <<>> /\ restarts' = restarts + 1
          /\ UNCHANGED <<status, trail, log>>
      BY <1>17 DEF ShutdownEnd, Crash, ProcessEnds, Coming
    <2>2. Rec(status[q], trail[q], log[q], <<>>, restarts + 1)
      BY <1>q, RecLost
    <2> QED BY <2>1, <2>2 DEF Record
  <1>18. ASSUME Reconcile PROVE Records'
    <2> SUFFICES ASSUME NEW q \in Run PROVE Record(q)'
      BY DEF Records
    <2>1. /\ phase = "down" /\ held = NoRun /\ held' = NoRun
          /\ UNCHANGED <<log, restarts>>
      BY <1>18, <1>r DEF Reconcile, Regions
    <2>2. Coming(q) = <<>> /\ Coming(q)' = owed'[q]
      BY <2>1, <1>r DEF Coming, OwedToFailed
    <2>3. CASE status[q] \in Active
      <3> DEFINE ev == <<Changed(status[q], "Failed"), Plain("run.failed")>>
      <3>1. status'[q] = "Failed" /\ trail'[q] = Append(trail[q], "Failed")
               /\ owed'[q] = ev
        BY <1>18, <2>3 DEF Reconcile
      <3>2. Owes(status[q], "Failed", ev) /\ "Failed" \in RunStatus /\ "Failed" \notin Active
        BY <2>3, OwesFacts, StatusFacts
      <3> HIDE DEF ev
      <3>3. Rec("Failed", Append(trail[q], "Failed"), log[q], ev, restarts)
        BY <1>q, <2>2, <2>3, <3>2, RecWrite
      <3> QED BY <2>1, <2>2, <3>1, <3>3 DEF Record
    <2>4. CASE status[q] \notin Active
      <3>1. status'[q] = status[q] /\ trail'[q] = trail[q] /\ owed'[q] = <<>>
        BY <1>18, <2>4 DEF Reconcile
      <3> QED BY <2>1, <2>2, <3>1, <1>q DEF Record
    <2> QED BY <2>3, <2>4
  <1> QED
    BY <1>1, <1>2, <1>3, <1>4, <1>5, <1>6, <1>7, <1>8, <1>9, <1>10, <1>11, <1>12,
       <1>13, <1>14, <1>15, <1>16, <1>17, <1>18
       DEF Next, TaskStep, ShutdownStep

(* The lock, the run it is held for and the events left go together *)
LEMMA RegionsStep ==
    ASSUME IInv, Regions, Beginnings, [Next]_vars
    PROVE  Regions'
  <1> USE DEF durable, region, starts, tasks, sweeper
  <1> DEFINE InTransition == {"prepare", "plan", "finalize", "complete", "fail", "aim"}
  <1>t. /\ pc \in [Run -> TaskPc] /\ left \in Seq(Event) /\ held \in Run \cup {NoRun}
        /\ lock \in {"free", "task", "stop", "sweep"}
        /\ left # <<>> => held \in Run
    BY DEF IInv, TypeOK
  (* the lock is taken *)
  <1>e. ASSUME NEW who \in {"task", "stop", "sweep"}, NEW r \in Run, NEW t, NEW events,
               Enter(who, r, t, events), events # <<>>,
               phase' \notin {"down", "reconciling"}, pc' = pc,
               who = "task" => pc[r] \in InTransition
        PROVE  Regions'
    BY <1>e DEF Enter, Regions
  (* the lock is left alone, and the task inside a transition too *)
  <1>f. ASSUME UNCHANGED region, phase' \in {"down", "reconciling"} => lock = "free",
               lock = "task" => pc'[held] = pc[held]
        PROVE  Regions'
    BY <1>f DEF Regions
  (* a task that is in no transition, or finds the lock free, moves *)
  <1>g. ASSUME NEW r \in Run, NEW p, pc' = [pc EXCEPT ![r] = p],
               lock = "free" \/ pc[r] \notin InTransition,
               UNCHANGED region, phase' = phase
        PROVE  Regions'
    <2>1. lock = "task" => held \in Run /\ held # r
      BY <1>g, <1>t DEF Regions
    <2>2. lock = "task" => pc'[held] = pc[held]
      BY <1>g, <1>t, <2>1
    <2> QED BY <1>f, <1>g, <2>2 DEF Regions
  <1>1. ASSUME NEW s \in Session, CreateSession(s) \/ Archive(s) \/ Delete(s)
        PROVE Regions'
    BY <1>1, <1>f DEF CreateSession, Archive, Delete, Regions
  <1>2. ASSUME NEW r \in Run, NEW s \in Session, StartRun(r, s) PROVE Regions'
    BY <1>2, <1>f DEF StartRun, Regions
  <1>3. ASSUME NEW r \in Run, AcceptRun(r) PROVE Regions'
    <2>1. pc' = [pc EXCEPT ![r] = "ready"] /\ pc[r] = "none" /\ UNCHANGED region
             /\ phase' = phase
      BY <1>3 DEF AcceptRun, Beginnings
    <2> QED BY <2>1, <1>g
  <1>4. ASSUME NEW r \in Run, StopRun(r) PROVE Regions'
    <2>1. /\ Enter("stop", r, "StopRequested", <<Changed(status[r], "StopRequested")>>)
          /\ phase' \notin {"down", "reconciling"} /\ pc' = pc
      BY <1>4 DEF StopRun, Serving
    <2> QED BY <2>1, <1>e
  <1>5. ASSUME NEW r \in Run, StopAgain(r) \/ StreamEvent(r) \/ ReconcileEmit(r)
        PROVE Regions'
    BY <1>5, <1>f DEF StopAgain, StreamEvent, ReconcileEmit, OnlyTask, Regions
  <1>6. ASSUME NEW r \in Run,
               \/ TaskStart(r) \/ StreamEnd(r) \/ FinalMessage(r) \/ CancelDelivered(r)
               \/ TaskConverge(r)
        PROVE Regions'
    <2>1. /\ pc[r] \in {"ready", "stream", "message", "converge"}
          /\ UNCHANGED region /\ phase' = phase
      BY <1>6 DEF TaskStart, StreamEnd, FinalMessage, CancelDelivered, TaskConverge, OnlyTask
    <2>2. \E p : pc' = [pc EXCEPT ![r] = p]
      BY <1>6 DEF TaskStart, StreamEnd, FinalMessage, CancelDelivered, TaskConverge, Goto
    <2> QED BY <2>1, <2>2, <1>g
  <1>7. ASSUME NEW r \in Run, TaskTransition(r) PROVE Regions'
    <2> DEFINE t == TargetOf(pc[r])
    <2>1. /\ phase' \notin {"down", "reconciling"} /\ phase' = phase
          /\ pc[r] \in InTransition
      BY <1>7 DEF TaskTransition, Alive, OnlyTask
    <2>2. \/ Enter("task", r, t, <<Changed(status[r], t)>>) /\ pc' = pc
          \/ lock = "free" /\ pc' = [pc EXCEPT ![r] = "fail"] /\ UNCHANGED region
      BY <1>7 DEF TaskTransition, Goto
    <2> HIDE DEF t
    <2> QED BY <2>1, <2>2, <1>e, <1>g
  <1>8. ASSUME NEW r \in Run, TaskFail(r) PROVE Regions'
    <2> DEFINE ev == <<Plain("model.failed"), Changed(status[r], "Failed"),
                       Plain("run.failed")>>
    <2>1. /\ phase' \notin {"down", "reconciling"} /\ phase' = phase
          /\ pc[r] \in InTransition
      BY <1>8 DEF TaskFail, Alive, OnlyTask
    <2>2. \/ Enter("task", r, "Failed", ev) /\ pc' = pc
          \/ lock = "free" /\ pc' = [pc EXCEPT ![r] = "converge"] /\ UNCHANGED region
      BY <1>8 DEF TaskFail, Goto
    <2>3. ev # <<>>
      OBVIOUS
    <2> HIDE DEF ev
    <2> QED BY <2>1, <2>2, <2>3, <1>e, <1>g
  <1>9. ASSUME NEW r \in Run, TaskAim(r) PROVE Regions'
    <2>1. /\ phase' \notin {"down", "reconciling"} /\ phase' = phase
          /\ pc[r] \in InTransition
      BY <1>9 DEF TaskAim, Alive, OnlyTask
    <2>2. \/ Enter("task", r, aim[r], <<Changed(status[r], aim[r])>>) /\ pc' = pc
          \/ lock = "free" /\ pc' = [pc EXCEPT ![r] = "converge"] /\ UNCHANGED region
      BY <1>9 DEF TaskAim, Goto
    <2> QED BY <2>1, <2>2, <1>e, <1>g
  <1>10. ASSUME RegionAppend PROVE Regions'
    <2>1. \/ Len(left) > 1 /\ left' = Tail(left) /\ UNCHANGED <<lock, held, pc, phase>>
          \/ Release
      BY <1>10 DEF RegionAppend
    <2>a. \A q \in Seq(Event) : Len(q) > 1 => Tail(q) # <<>> /\ q # <<>>
      <3> SUFFICES ASSUME NEW q \in Seq(Event), Len(q) > 1
                   PROVE Tail(q) # <<>> /\ q # <<>>
        OBVIOUS
      <3>1. q # <<>> /\ Len(q) \in Nat
        OBVIOUS
      <3>2. Len(Tail(q)) = Len(q) - 1
        BY <3>1
      <3>3. Len(Tail(q)) # 0
        BY <3>1, <3>2
      <3> QED BY <3>1, <3>3
    <2>2. Len(left) > 1 => Tail(left) # <<>> /\ left # <<>>
      BY <1>t, <2>a
    <2> QED BY <2>1, <2>2 DEF Regions, Release
  <1>11. ASSUME RegionError \/ ShutdownEnd \/ Crash PROVE Regions'
    BY <1>11 DEF RegionError, Release, ShutdownEnd, Crash, ProcessEnds, Regions
  <1>12. ASSUME SweepAim PROVE Regions'
    <2>0. phase' = "stopping" /\ pc' = pc /\ sweepRun \in Run
      BY <1>12 DEF SweepAim, OnlySweep, IInv
    <2>1. \/ Enter("sweep", sweepRun, sweepAim, <<Changed(status[sweepRun], sweepAim)>>)
          \/ UNCHANGED region
      BY <1>12 DEF SweepAim
    <2> QED BY <2>0, <2>1, <1>e, <1>f
  <1>13. ASSUME \/ ShutdownBegin \/ SweepStart \/ SweepRead \/ Reconcile \/ Open
                \/ UNCHANGED vars
         PROVE Regions'
    BY <1>13, <1>f DEF ShutdownBegin, SweepStart, SweepRead, Reconcile, Open, OnlySweep,
                       vars, Regions
  <1> QED
    BY <1>1, <1>2, <1>3, <1>4, <1>5, <1>6, <1>7, <1>8, <1>9, <1>10, <1>11, <1>12, <1>13
       DEF Next, TaskStep, ShutdownStep

(* Runs without a row and runs inside start_run stay as they are until     *)
(* start_run goes on.                                                      *)
LEMMA BeginningsStep ==
    ASSUME IInv, Regions, Beginnings, OwedToFailed, [Next]_vars
    PROVE  Beginnings'
  <1> USE DEF durable, region, starts, tasks, sweeper
  <1>t. /\ status \in [Run -> RowState] /\ pc \in [Run -> TaskPc]
        /\ log \in [Run -> Seq(Event)] /\ starting \subseteq Run
        /\ held \in Run \cup {NoRun}
        /\ left # <<>> => held \in Run
        /\ "absent" \notin Active /\ "deleted" \notin Active /\ "absent" \notin RunStatus
    BY StatusFacts DEF IInv, TypeOK, RunStatus
  (* a task moves, and may append to its log *)
  <1>g. ASSUME NEW r \in Run, pc[r] # "none", \A q \in Run : q # r => pc'[q] = pc[q],
               \A q \in Run : q # r => log'[q] = log[q],
               UNCHANGED <<status, starting, held, phase>>
        PROVE  Beginnings'
    BY <1>g, <1>t DEF Beginnings
  (* a status is written on a run that is not starting *)
  <1>e. ASSUME NEW who, NEW r \in Run, NEW t \in RunStatus, NEW events,
               Enter(who, r, t, events), status[r] \in Active,
               r \in starting => t \in Active, UNCHANGED <<pc, log, starting, phase>>
        PROVE  Beginnings'
    <2>1. status' = [status EXCEPT ![r] = t] /\ held' = r
      BY <1>e DEF Enter, WriteStatus
    <2> QED BY <1>e, <1>t, <2>1 DEF Beginnings
  <1>f. ASSUME UNCHANGED <<status, pc, log, starting, held, phase>> PROVE Beginnings'
    BY <1>f DEF Beginnings
  <1>1. ASSUME NEW s \in Session, CreateSession(s) \/ Archive(s) PROVE Beginnings'
    BY <1>1, <1>f DEF CreateSession, Archive
  <1>2. ASSUME NEW s \in Session, Delete(s) PROVE Beginnings'
    <2>1. /\ \A r \in Run : home[r] = s => status[r] \notin Active
          /\ status' = [r \in Run |-> IF home[r] = s THEN "deleted" ELSE status[r]]
          /\ log' = [r \in Run |-> IF home[r] = s THEN <<>> ELSE log[r]]
          /\ UNCHANGED <<pc, starting, held, phase>>
      BY <1>2 DEF Delete, Busy, IInv, SlotIsActiveRun
    <2> QED BY <2>1, <1>t DEF Beginnings
  <1>3. ASSUME NEW r \in Run, NEW s \in Session, StartRun(r, s) PROVE Beginnings'
    <2>1. /\ phase = "serving" /\ status[r] = "absent"
          /\ status' = [status EXCEPT ![r] = "Created"]
          /\ starting' \subseteq starting \cup {r}
          /\ UNCHANGED <<log, pc, phase, held>>
      BY <1>3 DEF StartRun, Serving, Admissible
    <2>2. /\ status'[r] = "Created" /\ "Created" # "absent" /\ "Created" \in Active
          /\ \A q \in Run : q # r => status'[q] = status[q]
          /\ starting' \subseteq Run
      BY <2>1, <1>t, StatusFacts
    <2>3. \A q \in Run : status'[q] = "absent" =>
             pc'[q] = "none" /\ q \notin starting' /\ held' # q /\ log'[q] = <<>>
      BY <2>1, <2>2 DEF Beginnings
    <2>4. \A q \in starting' : pc'[q] = "none" /\ status'[q] \in Active
      BY <2>1, <2>2, <1>t DEF Beginnings
    <2> QED BY <2>1, <2>3, <2>4 DEF Beginnings
  <1>4. ASSUME NEW r \in Run, AcceptRun(r) PROVE Beginnings'
    <2>1. /\ r \in starting /\ starting' = starting \ {r}
          /\ \A q \in Run : q # r => log'[q] = log[q] /\ pc'[q] = pc[q]
          /\ UNCHANGED <<status, held, phase>>
      BY <1>4, <1>t DEF AcceptRun
    <2> QED BY <2>1, <1>t DEF Beginnings
  <1>5. ASSUME NEW r \in Run, StopRun(r) PROVE Beginnings'
    <2>1. /\ Enter("stop", r, "StopRequested", <<Changed(status[r], "StopRequested")>>)
          /\ status[r] \in Active /\ UNCHANGED <<pc, log, starting, phase>>
      BY <1>5 DEF StopRun
    <2> QED BY <2>1, <1>e, StatusFacts
  <1>6. ASSUME NEW r \in Run, StopAgain(r) PROVE Beginnings'
    BY <1>6, <1>f DEF StopAgain
  <1>7. ASSUME NEW r \in Run,
               \/ TaskStart(r) \/ StreamEvent(r) \/ StreamEnd(r) \/ FinalMessage(r)
               \/ CancelDelivered(r) \/ TaskConverge(r)
        PROVE Beginnings'
    <2>1. pc[r] # "none" /\ UNCHANGED <<status, starting, held, phase>>
      BY <1>7 DEF TaskStart, StreamEvent, StreamEnd, FinalMessage, CancelDelivered,
                  TaskConverge, OnlyTask
    <2>2. \A q \in Run : q # r => pc'[q] = pc[q] /\ log'[q] = log[q]
      BY <1>7, <1>t DEF TaskStart, StreamEvent, StreamEnd, FinalMessage, CancelDelivered,
                  TaskConverge, OnlyTask, Goto
    <2> QED BY <2>1, <2>2, <1>g
  <1>8. ASSUME NEW r \in Run, TaskTransition(r) \/ TaskFail(r) \/ TaskAim(r)
        PROVE Beginnings'
    <2>0. pc[r] # "none" /\ r \notin starting /\ UNCHANGED <<starting, phase>>
      BY <1>8 DEF TaskTransition, TaskFail, TaskAim, OnlyTask, Beginnings
    <2>1. \/ \E t, ev : /\ Enter("task", r, t, ev) /\ UNCHANGED <<pc, log>>
                        /\ Legal(status[r], t) \/ (FailureOwns(r) /\ t = "Failed")
          \/ \E p : pc' = [pc EXCEPT ![r] = p] /\ UNCHANGED <<status, log, held>>
      BY <1>8 DEF TaskTransition, TaskFail, TaskAim, Goto
    <2>2. ASSUME NEW t, NEW ev, Enter("task", r, t, ev), UNCHANGED <<pc, log>>,
                 Legal(status[r], t) \/ (FailureOwns(r) /\ t = "Failed")
          PROVE Beginnings'
      <3>1. status[r] \in Active /\ t \in RunStatus
        BY <2>2, LegalFromActive, StatusFacts DEF FailureOwns
      <3> QED BY <2>0, <2>2, <3>1, <1>e
    <2>3. ASSUME NEW p, pc' = [pc EXCEPT ![r] = p], UNCHANGED <<status, log, held>>
          PROVE Beginnings'
      BY <2>0, <2>3, <1>g, <1>t
    <2> QED BY <2>1, <2>2, <2>3
  <1>9. ASSUME NEW r \in Run, ReconcileEmit(r) PROVE Beginnings'
    <2>1. /\ phase = "reconciling" /\ status[r] # "absent"
          /\ \A q \in Run : q # r => log'[q] = log[q]
          /\ UNCHANGED <<status, pc, starting, held, phase>>
      BY <1>9, <1>t DEF ReconcileEmit, OwedToFailed
    <2> QED BY <2>1 DEF Beginnings
  <1>10. ASSUME RegionAppend PROVE Beginnings'
    <2>1. /\ held \in Run /\ status[held] # "absent" /\ held' \in {held, NoRun}
          /\ \A q \in Run : q # held => log'[q] = log[q]
          /\ UNCHANGED <<status, starting, phase>>
      BY <1>10, <1>t DEF RegionAppend, AppendLeft, Release, Beginnings
    <2>2. pc' = pc \/ (held \notin starting /\ \A q \in Run : q # held => pc'[q] = pc[q])
      <3>1. pc' = pc \/ (lock = "task" /\ TaskAfterRegion(held))
        BY <1>10 DEF RegionAppend
      <3>2. lock = "task" => held \notin starting
        BY DEF Regions, Beginnings
      <3> QED BY <3>1, <3>2, <1>t DEF TaskAfterRegion
    <2> QED BY <2>1, <2>2, <1>t DEF Beginnings
  <1>11. ASSUME RegionError PROVE Beginnings'
    <2>1. /\ held \in Run /\ status[held] = "deleted" /\ held' = NoRun
          /\ \A q \in Run : q # held => pc'[q] = pc[q]
          /\ UNCHANGED <<status, starting, phase, log>>
      BY <1>11, <1>t DEF RegionError, Writable, Release, TaskAfterError
    <2> QED BY <2>1, <1>t DEF Beginnings
  <1>12. ASSUME SweepAim PROVE Beginnings'
    <2>0. /\ phase = "stopping" /\ sweepRun \in Run /\ starting = {}
          /\ UNCHANGED <<log, pc, starting, phase>>
      BY <1>12 DEF SweepAim, OnlySweep, IInv, Beginnings
    <2>1. CASE /\ Legal(status[sweepRun], sweepAim)
               /\ Enter("sweep", sweepRun, sweepAim,
                        <<Changed(status[sweepRun], sweepAim)>>)
      <3>1. status[sweepRun] \in Active /\ sweepAim \in RunStatus
        BY <2>1, LegalFromActive
      <3> QED BY <2>0, <2>1, <3>1, <1>e
    <2>2. CASE UNCHANGED <<status, slot, region, trail>>
      BY <2>0, <2>2, <1>f
    <2> QED BY <1>12, <2>1, <2>2 DEF SweepAim
  <1>13. ASSUME \/ ShutdownBegin \/ SweepStart \/ SweepRead \/ ShutdownEnd \/ Crash
                \/ Reconcile \/ Open \/ UNCHANGED vars
         PROVE Beginnings'
    <2>1. CASE ShutdownBegin \/ SweepStart \/ SweepRead \/ UNCHANGED vars
      BY <2>1 DEF ShutdownBegin, SweepStart, SweepRead, OnlySweep, vars, Beginnings
    <2>2. CASE ShutdownEnd \/ Crash
      BY <2>2 DEF ShutdownEnd, Crash, ProcessEnds, Beginnings
    <2>3. CASE Reconcile
      BY <2>3, <1>t DEF Reconcile, Beginnings
    <2>4. CASE Open
      BY <2>4 DEF Open, Beginnings
    <2> QED BY <1>13, <2>1, <2>2, <2>3, <2>4
  <1> QED
    BY <1>1, <1>2, <1>3, <1>4, <1>5, <1>6, <1>7, <1>8, <1>9, <1>10, <1>11, <1>12, <1>13
       DEF Next, TaskStep, ShutdownStep

(* The sweep and the convergence loops *)
LEMMA SweepingStep ==
    ASSUME IInv, Sweeping, [Next]_vars
    PROVE  Sweeping'
  <1> USE DEF durable, region, starts, tasks, sweeper
  <1>t. aim \in [Run -> RunStatus] /\ slot \in Run \cup {NoRun}
    BY DEF IInv, TypeOK
  <1>n. \A st : NextOnStop(st) \in Stops
    BY DEF NextOnStop, Stops
  <1>1. \/ aim' = aim \/ aim' = [r \in Run |-> "Cancelled"]
        \/ \E r \in Run : aim' = [aim EXCEPT ![r] = NextOnStop(status[r])]
    BY DEF Next, TaskStep, ShutdownStep, CreateSession, Archive, Delete, StartRun,
         AcceptRun, StopRun, StopAgain, TaskStart, TaskTransition, FinalMessage,
         CancelDelivered, TaskFail, TaskConverge, TaskAim, StreamEvent, StreamEnd,
         ReconcileEmit, RegionAppend, RegionError, ShutdownBegin, SweepStart,
         SweepRead, SweepAim, ShutdownEnd, Crash, ProcessEnds, Reconcile, Open,
         OnlyTask, OnlySweep, vars
  <1>2. \A r \in Run : aim'[r] \in Stops
    BY <1>1, <1>n, <1>t DEF Sweeping, Stops
  <1>3. sweepAim' \in {sweepAim, "Cancelled"} \/ \E st : sweepAim' = NextOnStop(st)
    BY DEF Next, TaskStep, ShutdownStep, CreateSession, Archive, Delete, StartRun,
         AcceptRun, StopRun, StopAgain, TaskStart, TaskTransition, FinalMessage,
         CancelDelivered, TaskFail, TaskConverge, TaskAim, StreamEvent, StreamEnd,
         ReconcileEmit, RegionAppend, RegionError, ShutdownBegin, SweepStart,
         SweepRead, SweepAim, ShutdownEnd, Crash, ProcessEnds, Reconcile, Open,
         OnlyTask, OnlySweep, vars
  <1>4. sweepAim' \in Stops
    BY <1>3, <1>n DEF Sweeping, Stops
  <1>5. slot' \in {slot, NoRun} \/ phase = "serving"
    BY SMTT(90) DEF Next, TaskStep, ShutdownStep, CreateSession, Archive, Delete, StartRun,
         AcceptRun, StopRun, StopAgain, TaskStart, TaskTransition, FinalMessage,
         CancelDelivered, TaskFail, TaskConverge, TaskAim, StreamEvent, StreamEnd,
         ReconcileEmit, RegionAppend, RegionError, ShutdownBegin, SweepStart,
         SweepRead, SweepAim, ShutdownEnd, Crash, ProcessEnds, Reconcile, Open,
         OnlyTask, OnlySweep, vars, Enter, WriteStatus, Serving
  <1>6. \/ UNCHANGED <<sweep, sweepRun>> \/ sweep' \in {"off", "wait"}
        \/ SweepStart \/ SweepRead \/ SweepAim
        \/ lock = "sweep" /\ sweep' = "read" /\ UNCHANGED sweepRun
    BY ZenonT(30) DEF Next, TaskStep, ShutdownStep, CreateSession, Archive, Delete, StartRun,
         AcceptRun, StopRun, StopAgain, TaskStart, TaskTransition, FinalMessage,
         CancelDelivered, TaskFail, TaskConverge, TaskAim, StreamEvent, StreamEnd,
         ReconcileEmit, RegionAppend, RegionError, ShutdownBegin,
         ShutdownEnd, Crash, ProcessEnds, Reconcile, Open,
         OnlyTask, vars
  <1>7. /\ sweep' \in {"read", "aim", "write"} => slot' \in {sweepRun', NoRun}
        /\ sweep' = "over" => slot' = NoRun
    <2>1. CASE SweepStart
      BY <2>1, <1>t DEF SweepStart
    <2>2. CASE SweepRead
      <3>1. status[sweepRun] \notin Active => slot = NoRun
        BY <2>2, <1>t DEF SweepRead, Sweeping, IInv, SlotIsActiveRun
      <3> QED BY <2>2, <3>1 DEF SweepRead, Sweeping
    <2>3. CASE SweepAim
      BY <2>3 DEF SweepAim, Sweeping, Enter, WriteStatus
    <2>4. CASE lock = "sweep" /\ sweep' = "read" /\ UNCHANGED sweepRun
      BY <1>5, <2>4 DEF IInv, Sweeping
    <2>5. CASE UNCHANGED <<sweep, sweepRun>>
      BY <1>5, <2>5 DEF IInv, Sweeping
    <2> QED BY <1>6, <2>1, <2>2, <2>3, <2>4, <2>5
  <1> QED BY <1>2, <1>4, <1>7 DEF Sweeping

Answered(told) == \E i \in DOMAIN told : At(told, Final) = {i}

\* The final answer in the log
LEMMA AnswerFacts ==
    ASSUME NEW told \in Seq(Event), NEW e \in Event
    PROVE  /\ e.type # Final => At(Append(told, e), Final) = At(told, Final)
           /\ e.type # Final /\ Answered(told) => Answered(Append(told, e))
           /\ e.type = Final /\ At(told, Final) = {} => Answered(Append(told, e))
  <1>1. e.type # Final => At(Append(told, e), Final) = At(told, Final)
    BY AtAppend
  <1>2. e.type = Final => At(Append(told, e), Final) = At(told, Final) \cup {Len(told) + 1}
    BY AtAppend
  <1>3. \A i \in DOMAIN told : i \in DOMAIN Append(told, e)
    OBVIOUS
  <1>4. Len(told) + 1 \in DOMAIN Append(told, e)
    OBVIOUS
  <1> QED BY <1>1, <1>2, <1>3, <1>4 DEF Answered

(* The final answer is written once *)
LEMMA AnswersStep ==
    ASSUME IInv, RecordInv, [Next]_vars
    PROVE  Answers' /\ CompletedIsAnswered'
  <1> USE DEF durable, region, starts, tasks, sweeper
  <1>t. /\ status \in [Run -> RowState] /\ pc \in [Run -> TaskPc]
        /\ log \in [Run -> Seq(Event)] /\ starting \subseteq Run
        /\ held \in Run \cup {NoRun}
        /\ left # <<>> => held \in Run
        /\ left \in Seq(Event) /\ owed \in [Run -> Seq(Event)]
        /\ "Completed" \notin Active
    BY DEF IInv, TypeOK, Active
  <1> DEFINE Ans(st, p, begun, told) ==
        /\ begun \/ p \in Unanswered => At(told, Final) = {}
        /\ p = "complete" /\ st # "deleted" => Answered(told)
        /\ st = "Completed" => p \in PastEnd /\ Answered(told)
  <1>a. \A r \in Run : Ans(status[r], pc[r], r \in starting, log[r])
    BY DEF RecordInv, Answers, CompletedIsAnswered, Answered, Final, Writable
  <1>s. SUFFICES ASSUME NEW r \in Run
                 PROVE  Ans(status'[r], pc'[r], r \in starting', log'[r])
    BY DEF Answers, CompletedIsAnswered, Answered, Final, Writable
  <1>c. "complete" \in PastEnd /\ "none" \in PastEnd /\ "converge" \in PastEnd
           /\ PastEnd \cap Unanswered = {}
    BY DEF PastEnd, Unanswered
  <1>r. /\ Regions /\ Beginnings /\ OwedToFailed /\ Sweeping
        /\ \A q \in Run : Rec(status[q], trail[q], log[q], Coming(q), restarts)
    BY DEF RecordInv, Records, Record
  (* nothing of r that matters here changes *)
  <1>f. ASSUME status'[r] = status[r], pc'[r] = pc[r], r \in starting' => r \in starting,
               log'[r] = log[r]
        PROVE  Ans(status'[r], pc'[r], r \in starting', log'[r])
    BY <1>f, <1>a
  (* an event that is not the answer is appended to r *)
  <1>l. ASSUME NEW e \in Event, e.type # Final, log'[r] = Append(log[r], e)
        PROVE  /\ At(log'[r], Final) = At(log[r], Final)
               /\ Answered(log[r]) => Answered(log'[r])
    BY <1>l, <1>t, AnswerFacts
  (* what is coming is never an answer *)
  <1>m. ASSUME NEW q \in Run, status[q] # "deleted", Coming(q) # <<>>
        PROVE  Head(Coming(q)) \in Event /\ Head(Coming(q)).type # Final
    <2>1. Coming(q) \in Seq(Event) /\ ComingIsTrue(status[q], trail[q], log[q], Coming(q))
      BY <1>m, <1>r DEF Rec
    <2>2. Head(Coming(q)) \in Event /\ Head(Coming(q)) = Coming(q)[1] /\ 1 \in DOMAIN Coming(q)
      BY <1>m, <2>1, AtTail
    <2> QED BY <2>1, <2>2 DEF ComingIsTrue, Truthful, Final
  (* a status other than Completed is written *)
  <1>e. ASSUME NEW who, NEW q \in Run, NEW t, NEW events, Enter(who, q, t, events),
               t # "Completed" \/ pc[q] = "complete", status[q] # "deleted",
               UNCHANGED <<pc, log, starting>>
        PROVE  Ans(status'[r], pc'[r], r \in starting', log'[r])
    <2>1. status'[r] = IF r = q THEN t ELSE status[r]
      BY <1>e, <1>t DEF Enter, WriteStatus
    <2> QED BY <1>e, <1>a, <1>c, <2>1
  (* the task of q moves to p *)
  <1>g. ASSUME NEW q \in Run, NEW p, pc' = [pc EXCEPT ![q] = p],
               UNCHANGED <<status, log, starting>>,
               p \in Unanswered => pc[q] \in Unanswered,
               p = "complete" => pc[q] = "complete",
               pc[q] \in PastEnd => p \in PastEnd
        PROVE  Ans(status'[r], pc'[r], r \in starting', log'[r])
    <2>1. pc'[r] = IF r = q THEN p ELSE pc[r]
      BY <1>g, <1>t
    <2> QED BY <1>g, <1>a, <2>1
  <1> HIDE DEF Ans
  <1> DEFINE Goal == Ans(status'[r], pc'[r], r \in starting', log'[r])
  <1>1. ASSUME NEW s \in Session, CreateSession(s) \/ Archive(s) PROVE Goal
    BY <1>1, <1>f DEF CreateSession, Archive
  <1>2. ASSUME NEW s \in Session, Delete(s) PROVE Goal
    <2>1. /\ status' = [q \in Run |-> IF home[q] = s THEN "deleted" ELSE status[q]]
          /\ log' = [q \in Run |-> IF home[q] = s THEN <<>> ELSE log[q]]
          /\ UNCHANGED <<pc, starting>>
      BY <1>2 DEF Delete
    <2>2. CASE home[r] = s
      <3>1. At(<<>>, Final) = {}
        BY DEF At
      <3>2. status'[r] = "deleted" /\ log'[r] = <<>>
        BY <2>1, <2>2
      <3> QED BY <3>1, <3>2 DEF Ans
    <2>3. CASE home[r] # s
      BY <2>1, <2>3, <1>f
    <2> QED BY <2>2, <2>3
  <1>3. ASSUME NEW q \in Run, NEW s \in Session, StartRun(q, s) PROVE Goal
    <2>1. /\ status[q] = "absent" /\ status' = [status EXCEPT ![q] = "Created"]
          /\ starting' \subseteq starting \cup {q}
          /\ UNCHANGED <<log, pc>>
      BY <1>3 DEF StartRun, Admissible
    <2>2. CASE r = q
      <3>1. pc[r] = "none" /\ log[r] = <<>>
        BY <2>1, <2>2, <1>r DEF Beginnings
      <3>2. At(<<>>, Final) = {}
        BY DEF At
      <3>3. status'[r] = "Created" /\ pc'[r] = "none" /\ log'[r] = <<>>
        BY <2>1, <2>2, <3>1, <1>t
      <3> QED BY <3>2, <3>3 DEF Ans
    <2>3. CASE r # q
      BY <2>1, <2>3, <1>f, <1>t
    <2> QED BY <2>2, <2>3
  <1>p. \A type \in EventType : Plain(type) \in Event /\ Plain(type).type = type
    BY EventTypes DEF Plain
  <1>4. ASSUME NEW q \in Run, AcceptRun(q) PROVE Goal
    <2>1. /\ q \in starting /\ log' = [log EXCEPT ![q] = Append(@, Plain("run.created"))]
          /\ starting' = starting \ {q} /\ pc' = [pc EXCEPT ![q] = "ready"]
          /\ UNCHANGED status
      BY <1>4 DEF AcceptRun
    <2>2. CASE r = q
      <3>1. Plain("run.created") \in Event /\ Plain("run.created").type # Final
        BY <1>p DEF EventType, Final
      <3>2. At(log[r], Final) = {} /\ status[r] # "Completed"
        BY <2>1, <2>2, <1>a, <1>r, <1>t DEF Ans, Beginnings
      <3>3. At(log'[r], Final) = {} /\ pc'[r] = "ready" /\ status'[r] # "Completed"
        BY <2>1, <2>2, <3>1, <3>2, <1>l, <1>t
      <3> QED BY <3>3 DEF Ans
    <2>3. CASE r # q
      BY <2>1, <2>3, <1>f, <1>t
    <2> QED BY <2>2, <2>3
  <1>5. ASSUME NEW q \in Run, StopRun(q) PROVE Goal
    <2>1. /\ Enter("stop", q, "StopRequested", <<Changed(status[q], "StopRequested")>>)
          /\ status[q] # "deleted" /\ UNCHANGED <<pc, log, starting>>
      BY <1>5, StatusFacts DEF StopRun
    <2> QED BY <2>1, <1>e
  <1>6. ASSUME NEW q \in Run, StopAgain(q) PROVE Goal
    BY <1>6, <1>f DEF StopAgain
  <1>7. ASSUME NEW q \in Run, TaskStart(q) \/ StreamEnd(q) \/ TaskConverge(q) PROVE Goal
    <2>1. \E p : /\ pc' = [pc EXCEPT ![q] = p]
                 /\ \/ pc[q] = "ready" /\ p \in {"prepare", "done"}
                    \/ pc[q] = "stream" /\ p \in {"finalize", "fail"}
                    \/ pc[q] = "converge" /\ p \in {"aim", "done"}
      BY <1>7 DEF TaskStart, StreamEnd, TaskConverge, Goto
    <2>2. UNCHANGED <<status, log, starting>>
      BY <1>7 DEF TaskStart, StreamEnd, TaskConverge, OnlyTask
    <2> QED BY <2>1, <2>2, <1>g DEF Unanswered, PastEnd
  <1>8. ASSUME NEW q \in Run, TaskTransition(q) PROVE Goal
    <2> DEFINE t == TargetOf(pc[q])
    <2>0. pc[q] \in {"prepare", "plan", "finalize", "complete"} /\ UNCHANGED starting
      BY <1>8 DEF TaskTransition, OnlyTask
    <2>1. t # "Completed" \/ pc[q] = "complete"
      BY <2>0 DEF TargetOf
    <2> HIDE DEF t
    <2>2. CASE /\ Legal(status[q], t)
               /\ Enter("task", q, t, <<Changed(status[q], t)>>)
               /\ UNCHANGED <<log, pc, aim, cancelled>>
      <3>1. status[q] # "deleted"
        BY <2>2, LegalFromActive, StatusFacts
      <3> QED BY <2>0, <2>1, <2>2, <3>1, <1>e
    <2>3. CASE Goto(q, "fail") /\ UNCHANGED <<status, slot, log, region, aim, trail>>
      BY <2>0, <2>3, <1>g DEF Goto, Unanswered, PastEnd
    <2> QED BY <1>8, <2>2, <2>3 DEF TaskTransition, t
  <1>9. ASSUME NEW q \in Run, StreamEvent(q) \/ FinalMessage(q) \/ CancelDelivered(q)
        PROVE Goal
    <2>0. UNCHANGED <<status, starting>> /\ pc[q] \in {"stream", "message"}
      BY <1>9 DEF StreamEvent, FinalMessage, CancelDelivered, OnlyTask
    <2>1. CASE r # q
      <3>1. log'[r] = log[r] /\ pc'[r] = pc[r]
        BY <1>9, <2>1, <1>t DEF StreamEvent, FinalMessage, CancelDelivered, Goto
      <3> QED BY <2>0, <3>1, <1>f
    <2>2. CASE r = q
      <3>1. /\ At(log[r], Final) = {} /\ status[r] # "Completed" /\ r \notin starting
        BY <2>0, <2>2, <1>a, <1>c, <1>r DEF Ans, Unanswered, Beginnings, PastEnd
      <3>2. Plain("stream") \in Event /\ Plain("stream").type # Final
              /\ Plain(Final) \in Event /\ Plain(Final).type = Final
        BY <1>p DEF EventType, Final
      <3>3. CASE StreamEvent(q)
        <4>1. log'[r] = Append(log[r], Plain("stream")) /\ pc'[r] = "stream"
          BY <2>2, <3>3, <1>t DEF StreamEvent
        <4>2. At(log'[r], Final) = {}
          BY <3>1, <3>2, <4>1, <1>l
        <4> QED BY <2>0, <3>1, <4>1, <4>2 DEF Ans
      <3>4. CASE FinalMessage(q)
        <4>1. log'[r] = Append(log[r], Plain(Final)) /\ pc'[r] = "complete"
          BY <2>2, <3>4, <1>t DEF FinalMessage, Goto, Final
        <4>2. Answered(log'[r])
          BY <3>1, <3>2, <4>1, <1>t, AnswerFacts
        <4> QED BY <2>0, <3>1, <4>1, <4>2 DEF Ans, Unanswered
      <3>5. CASE CancelDelivered(q)
        <4>1. pc'[r] = "converge"
          BY <2>2, <3>5, <1>t DEF CancelDelivered, Goto
        <4> QED BY <2>0, <3>1, <4>1 DEF Ans, Unanswered
      <3> QED BY <1>9, <3>3, <3>4, <3>5
    <2> QED BY <2>1, <2>2
  <1>10. ASSUME NEW q \in Run, TaskFail(q) PROVE Goal
    <2> DEFINE ev == <<Plain("model.failed"), Changed(status[q], "Failed"),
                       Plain("run.failed")>>
    <2>0. pc[q] = "fail" /\ UNCHANGED starting
      BY <1>10 DEF TaskFail, OnlyTask
    <2>1. \/ FailureOwns(q) /\ Enter("task", q, "Failed", ev) /\ UNCHANGED <<log, pc>>
          \/ pc' = [pc EXCEPT ![q] = "converge"] /\ UNCHANGED <<status, log>>
      BY <1>10 DEF TaskFail, Goto
    <2>2. FailureOwns(q) => status[q] # "deleted"
      BY StatusFacts DEF FailureOwns
    <2> HIDE DEF ev
    <2>3. "fail" \in PastEnd /\ "converge" \in PastEnd /\ "converge" \notin Unanswered
      BY DEF PastEnd, Unanswered
    <2> QED BY <2>0, <2>1, <2>2, <2>3, <1>e, <1>g
  <1>11. ASSUME NEW q \in Run, TaskAim(q) PROVE Goal
    <2>0. pc[q] = "aim" /\ UNCHANGED starting /\ aim[q] # "Completed"
      BY <1>11, <1>r DEF TaskAim, OnlyTask, Sweeping, Stops
    <2>1. \/ /\ Legal(status[q], aim[q]) /\ UNCHANGED <<log, pc>>
             /\ Enter("task", q, aim[q], <<Changed(status[q], aim[q])>>)
          \/ pc' = [pc EXCEPT ![q] = "converge"] /\ UNCHANGED <<status, log>>
      BY <1>11 DEF TaskAim, Goto
    <2>2. Legal(status[q], aim[q]) => status[q] # "deleted"
      BY LegalFromActive, StatusFacts
    <2>3. "aim" \in PastEnd /\ "converge" \in PastEnd /\ "converge" \notin Unanswered
      BY DEF PastEnd, Unanswered
    <2> QED BY <2>0, <2>1, <2>2, <2>3, <1>e, <1>g
  <1>12. ASSUME NEW q \in Run, ReconcileEmit(q) PROVE Goal
    <2>1. /\ owed[q] # <<>> /\ log' = [log EXCEPT ![q] = Append(@, Head(owed[q]))]
          /\ UNCHANGED <<status, pc, starting>> /\ phase = "reconciling"
      BY <1>12 DEF ReconcileEmit
    <2>2. /\ status[q] = "Failed" /\ held = NoRun /\ Coming(q) = owed[q]
      BY <2>1, <1>r DEF OwedToFailed, Regions, Coming
    <2>3. CASE r = q
      <3>1. Head(owed[q]) \in Event /\ Head(owed[q]).type # Final
        BY <2>1, <2>2, <1>m
      <3>2. log'[r] = Append(log[r], Head(owed[q]))
        BY <2>1, <2>3, <1>t
      <3>3. /\ At(log'[r], Final) = At(log[r], Final)
            /\ Answered(log[r]) => Answered(log'[r])
        BY <3>1, <3>2, <1>l
      <3> QED BY <2>1, <3>3, <1>a DEF Ans
    <2>4. CASE r # q
      BY <2>1, <2>4, <1>f, <1>t
    <2> QED BY <2>3, <2>4
  <1>13. ASSUME RegionAppend PROVE Goal
    <2>0. PICK q \in Run : q = held
      BY <1>13, <1>t DEF RegionAppend
    <2>1. /\ left # <<>> /\ log' = [log EXCEPT ![q] = Append(@, Head(left))]
          /\ UNCHANGED <<status, starting>> /\ status[q] # "deleted"
          /\ Coming(q) = left
      BY <1>13, <2>0 DEF RegionAppend, AppendLeft, Writable, Coming
    <2>2. \E p : /\ pc' = [pc EXCEPT ![q] = p]
                 /\ p \in Unanswered => pc[q] \in Unanswered
                 /\ p = "complete" => pc[q] = "complete"
                 /\ pc[q] \in PastEnd => p \in PastEnd
      <3>1. \A p \in TaskPc : /\ After(p) \in Unanswered => p \in Unanswered
                              /\ After(p) # "complete"
                              /\ p \in PastEnd => After(p) \in PastEnd
        BY DEF After, TaskPc, PastEnd, Unanswered
      <3>2. pc' = pc \/ TaskAfterRegion(q)
        BY <1>13, <2>0 DEF RegionAppend
      <3>3. CASE TaskAfterRegion(q)
        <4> DEFINE p == IF q \in cancelled THEN "converge" ELSE After(pc[q])
        <4>1. pc' = [pc EXCEPT ![q] = p]
          BY <3>3, <1>t DEF TaskAfterRegion
        <4>2. /\ p \in Unanswered => pc[q] \in Unanswered
              /\ p # "complete"
              /\ pc[q] \in PastEnd => p \in PastEnd
          BY <3>1, <1>t, <1>c
        <4> QED BY <4>1, <4>2
      <3>4. CASE pc' = pc
        <4>1. pc' = [pc EXCEPT ![q] = pc[q]]
          BY <3>4, <1>t
        <4> QED BY <4>1
      <3> QED BY <3>2, <3>3, <3>4
    <2>3. CASE r = q
      <3>1. Head(left) \in Event /\ Head(left).type # Final
        BY <2>1, <1>m
      <3>2. log'[r] = Append(log[r], Head(left))
        BY <2>1, <2>3, <1>t
      <3>3. /\ At(log'[r], Final) = At(log[r], Final)
            /\ Answered(log[r]) => Answered(log'[r])
        BY <3>1, <3>2, <1>l
      <3>4. /\ pc'[r] \in Unanswered => pc[r] \in Unanswered
            /\ pc'[r] = "complete" => pc[r] = "complete"
            /\ pc[r] \in PastEnd => pc'[r] \in PastEnd
        BY <2>2, <2>3, <1>t
      <3> QED BY <2>1, <3>3, <3>4, <1>a DEF Ans
    <2>4. CASE r # q
      <3>1. log'[r] = log[r] /\ pc'[r] = pc[r]
        BY <2>1, <2>2, <2>4, <1>t
      <3> QED BY <2>1, <3>1, <1>f
    <2> QED BY <2>3, <2>4
  <1>14. ASSUME RegionError PROVE Goal
    <2>1. /\ held \in Run /\ status[held] = "deleted"
          /\ UNCHANGED <<status, starting, log>>
      BY <1>14, <1>t DEF RegionError, Writable
    <2>2. \E p \in {"converge", "done", "fail"} : pc' = [pc EXCEPT ![held] = p]
      BY <1>14 DEF RegionError, TaskAfterError
    <2> QED BY <2>1, <2>2, <1>g DEF Unanswered, PastEnd
  <1>15. ASSUME SweepAim PROVE Goal
    <2>0. sweepRun \in Run /\ UNCHANGED <<log, pc, starting>> /\ sweepAim # "Completed"
      BY <1>15, <1>r DEF SweepAim, OnlySweep, IInv, Sweeping, Stops
    <2>1. \/ /\ Legal(status[sweepRun], sweepAim)
             /\ Enter("sweep", sweepRun, sweepAim, <<Changed(status[sweepRun], sweepAim)>>)
          \/ UNCHANGED status
      BY <1>15 DEF SweepAim
    <2>2. Legal(status[sweepRun], sweepAim) => status[sweepRun] # "deleted"
      BY LegalFromActive, StatusFacts
    <2> QED BY <2>0, <2>1, <2>2, <1>e, <1>f
  <1>16. ASSUME ShutdownBegin \/ SweepStart \/ SweepRead \/ Open \/ UNCHANGED vars
         PROVE Goal
    BY <1>16, <1>f DEF ShutdownBegin, SweepStart, SweepRead, Open, OnlySweep, vars
  <1>17. ASSUME ShutdownEnd \/ Crash PROVE Goal
    <2>1. pc'[r] = "none" /\ starting' = {} /\ UNCHANGED <<status, log>>
      BY <1>17 DEF ShutdownEnd, Crash, ProcessEnds
    <2> QED BY <2>1, <1>a, <1>c DEF Ans, Unanswered
  <1>18. ASSUME Reconcile PROVE Goal
    <2>1. /\ status'[r] = IF status[r] \in Active THEN "Failed" ELSE status[r]
          /\ UNCHANGED <<pc, log, starting>>
      BY <1>18 DEF Reconcile
    <2>2. status'[r] = "deleted" => status[r] = "deleted"
      BY <2>1
    <2>3. status'[r] = "Completed" => status[r] = "Completed"
      BY <2>1
    <2>4. status[r] = "deleted" => status'[r] = "deleted"
      BY <2>1, StatusFacts
    <2> QED BY <2>1, <2>2, <2>3, <2>4, <1>a DEF Ans
  <1> QED
    BY <1>1, <1>2, <1>3, <1>4, <1>5, <1>6, <1>7, <1>8, <1>9, <1>10, <1>11, <1>12,
       <1>13, <1>14, <1>15, <1>16, <1>17, <1>18
       DEF Next, TaskStep, ShutdownStep

\* There is no record at the start
LEMMA RecordInit == Init => RecordInv
  <1> SUFFICES ASSUME Init PROVE RecordInv OBVIOUS
  <1> USE DEF Init, VolatileInit
  <1>0. /\ \A r \in Run : status[r] = "absent" /\ trail[r] = <<>> /\ log[r] = <<>>
                            /\ owed[r] = <<>> /\ pc[r] = "none" /\ aim[r] = "Cancelled"
        /\ "absent" \notin Active
    BY StatusFacts
  <1>1. OwedToFailed /\ Regions /\ Beginnings
    BY <1>0 DEF OwedToFailed, Regions, Beginnings
  <1>2. Answers /\ CompletedIsAnswered
    BY <1>0 DEF Answers, CompletedIsAnswered, Unanswered
  <1>3. Sweeping
    BY <1>0 DEF Sweeping, Stops
  <1>4. Rec("absent", <<>>, <<>>, <<>>, 0)
    <2> DEFINE none == <<>>
    <2>1. /\ none \in Seq(RunStatus) /\ none \in Seq(Event) /\ DOMAIN none = {}
          /\ \A type : At(none, type) = {}
      BY SeqFacts DEF At
    <2>2. TrailTells("absent", none)
      BY StatusFacts DEF TrailTells, RunStatus
    <2>3. Follows(none, none, none, 0)
      <3>1. ToldInOrder(none, none, 0)
        <4>1. [i \in {} |-> 0] \in [{} -> 0..0]
          OBVIOUS
        <4> QED BY <2>1, <4>1 DEF ToldInOrder
      <3>2. Cardinality({}) = 0 /\ 0 \in 0..0 /\ 0 = 0 + 0 + 0
        BY FS_EmptySet
      <3> QED BY <2>1, <3>1, <3>2 DEF Follows
    <2> HIDE DEF none
    <2>4. Verdict("absent", none, none) /\ ComingIsTrue("absent", none, none, none)
      BY <2>1 DEF Verdict, ComingIsTrue
    <2>5. Rec("absent", none, none, none, 0)
      BY <2>1, <2>2, <2>3, <2>4, StatusFacts DEF Rec
    <2> QED BY <2>5 DEF none
  <1>5. Records
    BY <1>0, <1>4 DEF Records, Record, Coming
  <1> QED BY <1>1, <1>2, <1>3, <1>5 DEF RecordInv

\* Every step keeps all of the record's invariant
LEMMA RecordInvStep ==
    ASSUME IInv, RecordInv, [Next]_vars
    PROVE  RecordInv'
  <1>1. OwedToFailed' /\ Regions' /\ Beginnings' /\ Sweeping'
    BY OwedStep, RegionsStep, BeginningsStep, SweepingStep DEF RecordInv
  <1>2. Records' /\ Answers' /\ CompletedIsAnswered'
    BY RecordsStep, AnswersStep
  <1> QED BY <1>1, <1>2 DEF RecordInv

(* In every behaviour of the service - stops at any moment, cancelled      *)
(* callers, crashes, shutdowns - what is recorded of a run is what         *)
(* happened to it: one verdict, one answer if it completed, every status   *)
(* change in order but at most one per process end, and nothing left       *)
(* active behind a shutdown.                                               *)
THEOREM RecordIsTrue == Spec => []RecordTellsTheRun
  <1>1. ASSUME IInv, RecordInv PROVE RecordTellsTheRun
    <2>1. OneVerdict
      BY <1>1 DEF RecordInv, Records, Record, Rec, Verdict, OneVerdict
    <2>2. LogFollowsStatus
      BY <1>1 DEF RecordInv, Records, Record, Rec, LogFollowsStatus, Writable
    <2>3. SweepLeavesNothing
      BY <1>1 DEF RecordInv, Sweeping, SweepLeavesNothing, IInv, SlotIsActiveRun
    <2> QED BY <1>1, <2>1, <2>2, <2>3 DEF RecordInv, RecordTellsTheRun
  <1>3. IInv /\ RecordInv => RecordTellsTheRun
    BY <1>1
  <1>4. IInv /\ RecordInv /\ [Next]_vars => RecordInv'
    BY RecordInvStep
  <1> QED BY <1>3, <1>4, RecordInit, InitIInv, NextIInv, PTL DEF Spec
----------------------------------------------------------------------------
(* Accepted runs, for every behaviour of the service: callers that are     *)
(* cancelled and stops that overtake start_run included                    *)

First == {Plain("run.created"), Changed("Created", "StopRequested")}
EarlyStop == <<Changed("Created", "StopRequested")>>

(* A run is cut once it was born, and never while start_run goes on *)
CutApart == \A r \in cut : status[r] # "absent" /\ r \notin starting

Phases ==
    /\ phase = "reconciling" => \A r \in Run : status[r] \notin Active
    /\ phase \in {"down", "reconciling"} => \A r \in Run : pc[r] = "none"
    /\ restarts = 0 => phase \in {"serving", "stopping"}

(* A task whose run has ended writes to its log no more; the sweep may end *)
(* a run under its task, but then nobody deletes it any more.              *)
EndedTasks ==
    \A r \in Run :
        status[r] = "deleted" \/ (status[r] \in Terminal /\ phase = "serving")
            => pc[r] \in PastEnd

(* A log is opened by start_run, or by the stop that overtook it; until    *)
(* then there is no task and nothing but that stop has touched the row.    *)
OpenedOrEarly(r) ==
    /\ log[r] # <<>> => log[r][1] \in First
    /\ log[r] = <<>> =>
          /\ pc[r] = "none"
          /\ IF held = r THEN left = EarlyStop ELSE status[r] = "Created"
Opened ==
    restarts = 0 => \A r \in Run :
        /\ status[r] \in {"absent", "deleted"} => log[r] = <<>>
        /\ status[r] \in RunStatus => OpenedOrEarly(r)

(* Nothing is streamed before the task's first step *)
Silent ==
    \A r \in Run : r \in starting \/ pc[r] = "ready" => At(log[r], "stream") = {}

(* Nobody deletes a run under a stop or under the sweep *)
HeldLives ==
    /\ lock = "stop" => status[held] \in Active
    /\ lock = "sweep" => status[held] # "deleted"

ServeInv ==
    /\ CutApart /\ Phases /\ EndedTasks /\ Opened /\ Silent /\ HeldLives
    /\ AcceptedRunHasTask /\ CutIsNeverExecuted

\* Appending does not change how a log begins
LEMMA FirstKept ==
    ASSUME NEW q \in Seq(Event), NEW e \in Event
    PROVE  /\ Append(q, e) # <<>>
           /\ q # <<>> => Append(q, e)[1] = q[1]
           /\ q = <<>> => Append(q, e)[1] = e
  OBVIOUS

\* What a lock holder or _reconcile appends tells of the run, it does not run it
LEMMA ComingTells ==
    ASSUME IInv, RecordInv, NEW r \in Run, status[r] # "deleted", Coming(r) # <<>>
    PROVE  Head(Coming(r)) \in Event /\ Head(Coming(r)).type \notin {"stream", Final}
  <1>1. Rec(status[r], trail[r], log[r], Coming(r), restarts)
    BY DEF RecordInv, Records, Record
  <1>2. Coming(r) \in Seq(Event) /\ \A i \in DOMAIN Coming(r) : Coming(r)[i].type \in Telling
    BY <1>1 DEF Rec, ComingIsTrue, Truthful, Telling
  <1>3. Head(Coming(r)) = Coming(r)[1] /\ 1 \in DOMAIN Coming(r) /\ Head(Coming(r)) \in Event
    BY <1>2, AtTail
  <1> QED BY <1>2, <1>3 DEF Telling, Final

\* Nothing has been accepted at the start
LEMMA ServeInit == Init => ServeInv
  <1> SUFFICES ASSUME Init PROVE ServeInv OBVIOUS
  <1> USE DEF Init, VolatileInit
  <1>1. \A r \in Run : /\ status[r] = "absent" /\ log[r] = <<>> /\ pc[r] = "none"
                       /\ status[r] \notin RunStatus /\ status[r] \notin Active
                       /\ status[r] \notin Terminal
    BY DEF RunStatus, Active, Terminal
  <1>2. CutApart /\ Phases /\ EndedTasks /\ HeldLives
    BY <1>1 DEF CutApart, Phases, EndedTasks, HeldLives
  <1>3. Opened /\ AcceptedRunHasTask /\ CutIsNeverExecuted
    BY <1>1 DEF Opened, AcceptedRunHasTask, CutIsNeverExecuted
  <1>4. Silent
    BY <1>1 DEF Silent
  <1> QED BY <1>2, <1>3, <1>4 DEF ServeInv

(* A status written on an active run by the lock's new holder keeps what   *)
(* ServeInv says, if the writer's place allows it.                         *)
LEMMA EnterServes ==
    ASSUME IInv, RecordInv, ServeInv, NEW who, NEW r \in Run, NEW t \in RunStatus,
           NEW events, Enter(who, r, t, events), status[r] \in Active,
           t \in Terminal /\ phase = "serving" => pc[r] \in PastEnd,
           r \in cut => t # "Completed",
           pc[r] = "none" /\ status[r] = "Created" => events = EarlyStop,
           who = "stop" => t \in Active,
           UNCHANGED <<log, pc, starting, cut, phase, restarts>>
    PROVE  ServeInv'
  <1> USE DEF ServeInv
  <1>0. /\ status' = [status EXCEPT ![r] = t] /\ held' = r /\ held = NoRun
        /\ left' = events /\ lock' = who
        /\ status \in [Run -> RowState] /\ cut \subseteq Run
        /\ t # "absent" /\ t # "deleted" /\ t \notin {"absent", "deleted"}
        /\ \A q \in Run : q # r => status'[q] = status[q]
        /\ status'[r] = t /\ status[r] \in RunStatus
    BY StatusFacts DEF Enter, WriteStatus, IInv, TypeOK, RecordInv, Regions, RunStatus, Active, Terminal
  <1>1. CutApart' /\ HeldLives'
    BY <1>0 DEF CutApart, HeldLives
  <1>2. Phases'
    BY <1>0, StatusFacts DEF Phases
  <1>3. EndedTasks'
    BY <1>0, StatusFacts DEF EndedTasks
  <1>4. Opened'
    <2> SUFFICES ASSUME restarts = 0, NEW q \in Run
                 PROVE  /\ status'[q] \in {"absent", "deleted"} => log[q] = <<>>
                        /\ status'[q] \in RunStatus => OpenedOrEarly(q)'
      BY DEF Opened
    <2>1. CASE q = r
      BY <1>0, <2>1 DEF Opened, OpenedOrEarly
    <2>2. CASE q # r
      BY <1>0, <2>2 DEF Opened, OpenedOrEarly
    <2> QED BY <2>1, <2>2
  <1>5. AcceptedRunHasTask'
    BY <1>0, StatusFacts DEF AcceptedRunHasTask
  <1>6. Silent'
    BY DEF Silent
  <1>7. CutIsNeverExecuted'
    BY <1>0 DEF CutIsNeverExecuted
  <1> QED BY <1>1, <1>2, <1>3, <1>4, <1>5, <1>6, <1>7

(* A task that has begun moves on, and may append an event to its log *)
LEMMA MoveServes ==
    ASSUME IInv, RecordInv, ServeInv, NEW r \in Run, NEW p \in TaskPc \ {"none", "ready"},
           pc' = [pc EXCEPT ![r] = p], pc[r] \notin {"none", "ready", "done"},
           p = "done" => status[r] \notin Active,
           pc[r] \in PastEnd \/ status[r] \in Active => p \in PastEnd \/ status[r] \in Active,
           \/ log' = log
           \/ pc[r] \in {"stream", "message"}
                /\ \E e \in Event : log' = [log EXCEPT ![r] = Append(@, e)],
           UNCHANGED <<status, starting, cut, phase, restarts, lock, held, left>>
    PROVE  ServeInv'
  <1> USE DEF ServeInv
  <1>0. /\ status \in [Run -> RowState] /\ pc \in [Run -> TaskPc] /\ log \in [Run -> Seq(Event)]
        /\ cut \subseteq Run /\ starting \subseteq Run
        /\ \A q \in Run : q # r => pc'[q] = pc[q]
        /\ pc'[r] = p
    BY DEF IInv, TypeOK
  <1>1. r \notin cut /\ r \notin starting
    BY DEF CutIsNeverExecuted, RecordInv, Beginnings
  <1>2. /\ \A q \in Run : q # r => log'[q] = log[q]
        /\ log[r] # <<>> => log'[r] # <<>> /\ log'[r][1] = log[r][1]
    BY <1>0, FirstKept
  <1>3. CutApart' /\ HeldLives'
    BY DEF CutApart, HeldLives
  <1>4. Phases'
    BY <1>0 DEF Phases
  <1>5. EndedTasks'
    BY <1>0, StatusFacts DEF EndedTasks
  <1>6. AcceptedRunHasTask'
    BY <1>0 DEF AcceptedRunHasTask
  <1>7. Silent'
    BY <1>0, <1>1, <1>2 DEF Silent
  <1>8. CutIsNeverExecuted'
    BY <1>0, <1>1, <1>2 DEF CutIsNeverExecuted
  <1>9. Opened'
    <2> SUFFICES ASSUME restarts = 0, NEW q \in Run
                 PROVE  /\ status[q] \in {"absent", "deleted"} => log'[q] = <<>>
                        /\ status[q] \in RunStatus => OpenedOrEarly(q)'
      BY DEF Opened
    <2>1. CASE q = r
      <3>1. status[r] \in {"absent", "deleted"} => log' = log
        BY DEF EndedTasks, PastEnd, RecordInv, Beginnings
      <3>2. status[r] \in RunStatus => log[r] # <<>> /\ log[r][1] \in First
        BY DEF Opened, OpenedOrEarly
      <3> QED BY <1>2, <2>1, <3>1, <3>2 DEF Opened, OpenedOrEarly
    <2>2. CASE q # r
      BY <1>0, <1>2, <2>2 DEF Opened, OpenedOrEarly
    <2> QED BY <2>1, <2>2
  <1> QED BY <1>3, <1>4, <1>5, <1>6, <1>7, <1>8, <1>9

(* What else touches ServeInv leaves rows, tasks, logs and holders alone *)
LEMMA SameServes ==
    ASSUME ServeInv, UNCHANGED <<status, pc, log, starting, cut, phase, restarts, region>>
    PROVE  ServeInv'
  <1> USE DEF ServeInv, region
  <1>1. CutApart' /\ Phases' /\ EndedTasks' /\ HeldLives'
    BY DEF CutApart, Phases, EndedTasks, HeldLives
  <1>2. Opened' /\ Silent'
    BY DEF Opened, OpenedOrEarly, Silent
  <1>3. AcceptedRunHasTask' /\ CutIsNeverExecuted'
    BY DEF AcceptedRunHasTask, CutIsNeverExecuted
  <1> QED BY <1>1, <1>2, <1>3

\* Every step keeps the promise to accepted runs, one case per action
LEMMA ServeStep ==
    ASSUME IInv, RecordInv, ServeInv, [Next]_vars
    PROVE  ServeInv'
  <1> USE DEF ServeInv, durable, region, starts, tasks, sweeper
  <1>t. /\ status \in [Run -> RowState] /\ pc \in [Run -> TaskPc]
        /\ log \in [Run -> Seq(Event)] /\ held \in Run \cup {NoRun}
        /\ left \in Seq(Event) /\ restarts \in Nat /\ cut \subseteq Run
        /\ starting \subseteq Run
        /\ left # <<>> => held \in Run
    BY DEF IInv, TypeOK
  <1>r. /\ Regions /\ Beginnings /\ Answers /\ Sweeping /\ OwedToFailed
    BY DEF RecordInv
  <1>1. ASSUME NEW s \in Session, CreateSession(s) \/ Archive(s) PROVE ServeInv'
    BY <1>1, SameServes DEF CreateSession, Archive
  <1>2. ASSUME NEW s \in Session, Delete(s) PROVE ServeInv'
    <2>1. /\ phase = "serving"
          /\ \A r \in Run : home[r] = s => status[r] \notin Active
          /\ status' = [r \in Run |-> IF home[r] = s THEN "deleted" ELSE status[r]]
          /\ log' = [r \in Run |-> IF home[r] = s THEN <<>> ELSE log[r]]
          /\ UNCHANGED <<pc, cut, starting, phase, restarts, lock, held, left>>
      BY <1>2 DEF Delete, Serving, Busy, IInv, SlotIsActiveRun
    <2>2. \A r \in Run : \/ status'[r] = "deleted" /\ log'[r] = <<>> /\ status[r] \notin Active
                         \/ status'[r] = status[r] /\ log'[r] = log[r]
      BY <2>1
    <2>3. /\ "deleted" \notin RunStatus /\ "deleted" \notin Active /\ "deleted" \notin Terminal
      BY DEF RunStatus, Active, Terminal
    <2>a. At(<<>>, "stream") = {} /\ At(<<>>, "message.assistant_final") = {}
      BY DEF At
    <2>4. CutApart'
      BY <2>1, <2>2, <1>t DEF CutApart
    <2>5. Phases'
      BY <2>1, <2>2, <2>3 DEF Phases
    <2>6. EndedTasks'
      BY <2>1, <2>2, <2>3, <1>t, <1>r, StatusFacts DEF EndedTasks, Beginnings, PastEnd
    <2>7. Opened'
      BY <2>1, <2>2, <2>3 DEF Opened, OpenedOrEarly
    <2>8. Silent' /\ CutIsNeverExecuted'
      BY <2>1, <2>2, <2>3, <2>a, <1>t DEF Silent, CutIsNeverExecuted
    <2>9. AcceptedRunHasTask'
      BY <2>1, <2>2, <2>3 DEF AcceptedRunHasTask
    <2>10. HeldLives'
      <3>1. lock = "stop" => held \in Run
        BY <1>t, <1>r DEF Regions
      <3>2. lock # "sweep"
        BY <2>1 DEF IInv
      <3> QED BY <2>1, <2>2, <3>1, <3>2 DEF HeldLives
    <2> QED BY <2>4, <2>5, <2>6, <2>7, <2>8, <2>9, <2>10
  <1>3. ASSUME NEW r \in Run, NEW s \in Session, StartRun(r, s) PROVE ServeInv'
    <2>1. /\ phase = "serving" /\ status[r] = "absent"
          /\ status' = [status EXCEPT ![r] = "Created"]
          /\ \/ starting' = starting \cup {r} /\ cut' = cut
             \/ starting' = starting /\ cut' = cut \cup {r}
          /\ UNCHANGED <<log, pc, phase, restarts, lock, held, left>>
      BY <1>3 DEF StartRun, Serving, Admissible
    <2>2. /\ pc[r] = "none" /\ held # r /\ log[r] = <<>> /\ r \notin starting /\ r \notin cut
          /\ At(log[r], "stream") = {} /\ At(log[r], "message.assistant_final") = {}
      BY <2>1, <1>r DEF Beginnings, CutApart, At
    <2>3. CutApart'
      BY <2>1, <2>2, <1>t DEF CutApart
    <2>4. Phases' /\ EndedTasks'
      BY <2>1, <2>2, <1>t, StatusFacts DEF Phases, EndedTasks, PastEnd
    <2>5. Opened'
      BY <2>1, <2>2, <1>t DEF Opened, OpenedOrEarly
    <2>6. Silent' /\ CutIsNeverExecuted'
      BY <2>1, <2>2, <1>t DEF Silent, CutIsNeverExecuted
    <2>7. AcceptedRunHasTask'
      BY <2>1, <1>t DEF AcceptedRunHasTask
    <2>8. HeldLives'
      BY <2>1, <2>2, <1>t, <1>r DEF HeldLives, Regions
    <2> QED BY <2>3, <2>4, <2>5, <2>6, <2>7, <2>8
  <1>4. ASSUME NEW r \in Run, AcceptRun(r) PROVE ServeInv'
    <2> DEFINE e == Plain("run.created")
    <2>1. /\ r \in starting /\ phase = "serving" /\ status[r] \in Active /\ r \notin cut
          /\ pc[r] = "none"
          /\ log' = [log EXCEPT ![r] = Append(@, e)]
          /\ starting' = starting \ {r} /\ pc' = [pc EXCEPT ![r] = "ready"]
          /\ UNCHANGED <<status, cut, phase, restarts, lock, held, left>>
      BY <1>4, <1>r DEF AcceptRun, Beginnings, CutApart
    <2>2. e \in Event /\ e.type = "run.created" /\ e \in First
      BY EventTypes DEF Plain, EventType, First
    <2> HIDE DEF e
    <2>3. /\ \A q \in Run : q # r => log'[q] = log[q] /\ pc'[q] = pc[q]
          /\ log'[r] = Append(log[r], e) /\ pc'[r] = "ready"
      BY <2>1, <1>t
    <2>4. /\ log'[r] # <<>> /\ (log[r] # <<>> => log'[r][1] = log[r][1])
          /\ (log[r] = <<>> => log'[r][1] = e)
          /\ At(log'[r], "stream") = At(log[r], "stream")
      <3>1. log[r] \in Seq(Event) /\ e.type # "stream"
        BY <2>2, <1>t
      <3> QED BY <2>2, <2>3, <3>1, FirstKept, AtAppend
    <2>5. Opened'
      <3> SUFFICES ASSUME restarts = 0, NEW q \in Run
                   PROVE  /\ status[q] \in {"absent", "deleted"} => log'[q] = <<>>
                          /\ status[q] \in RunStatus => OpenedOrEarly(q)'
        BY <2>1 DEF Opened
      <3>1. CASE q = r
        BY <2>1, <2>2, <2>4, <3>1, StatusFacts DEF Opened, OpenedOrEarly
      <3>2. CASE q # r
        BY <2>1, <2>3, <3>2 DEF Opened, OpenedOrEarly
      <3> QED BY <3>1, <3>2
    <2>6. Silent'
      BY <2>1, <2>3, <2>4 DEF Silent
    <2>7. CutApart' /\ CutIsNeverExecuted'
      BY <2>1, <2>3, <1>t DEF CutApart, CutIsNeverExecuted
    <2>8. Phases' /\ EndedTasks' /\ HeldLives'
      BY <2>1, <2>3, <1>r, StatusFacts DEF Phases, EndedTasks, HeldLives, Regions
    <2>9. AcceptedRunHasTask'
      BY <2>1, <2>3 DEF AcceptedRunHasTask
    <2> QED BY <2>5, <2>6, <2>7, <2>8, <2>9
  <1>5. ASSUME NEW r \in Run, StopRun(r) PROVE ServeInv'
    <2> DEFINE events == <<Changed(status[r], "StopRequested")>>
    <2>1. /\ Enter("stop", r, "StopRequested", events)
          /\ status[r] \in Active
          /\ UNCHANGED <<log, pc, starting, cut, phase, restarts>>
      BY <1>5 DEF StopRun
    <2>2. "StopRequested" \in RunStatus /\ "StopRequested" \notin Terminal /\ "StopRequested" \in Active
      BY StatusFacts
    <2>3. status[r] = "Created" => events = EarlyStop
      BY DEF EarlyStop
    <2> HIDE DEF events
    <2> QED BY <2>1, <2>2, <2>3, EnterServes
  <1>6. ASSUME NEW r \in Run, StopAgain(r) PROVE ServeInv'
    BY <1>6, SameServes DEF StopAgain
  <1>7. ASSUME NEW r \in Run, TaskStart(r) PROVE ServeInv'
    <2>0. /\ pc[r] = "ready" /\ UNCHANGED <<log, status, lock, held, left, starting, phase, restarts>>
          /\ \/ pc' = [pc EXCEPT ![r] = "prepare"] /\ cut' = cut
             \/ pc' = [pc EXCEPT ![r] = "done"] /\ cut' = cut \cup {r}
      BY <1>7 DEF TaskStart, Goto
    <2>1. /\ \A q \in Run : q # r => pc'[q] = pc[q]
          /\ \/ pc'[r] = "prepare" /\ cut' = cut
             \/ pc'[r] = "done" /\ cut' = cut \cup {r}
      BY <2>0, <1>t
    <2>2. /\ r \notin cut /\ r \notin starting /\ status[r] # "absent" /\ status[r] # "deleted"
          /\ status[r] # "Completed"
          /\ At(log[r], "stream") = {} /\ At(log[r], "message.assistant_final") = {}
      BY <2>0, <1>r DEF CutIsNeverExecuted, Beginnings, EndedTasks, Silent, Answers, Final,
                        PastEnd, Unanswered
    <2>3. CutApart' /\ HeldLives'
      BY <2>0, <2>1, <2>2, <1>t DEF CutApart, HeldLives
    <2>4. Phases' /\ EndedTasks'
      BY <2>0, <2>1, <2>2 DEF Phases, EndedTasks, PastEnd
    <2>5. Opened' /\ Silent'
      BY <2>0, <2>1, <2>2 DEF Opened, OpenedOrEarly, Silent
    <2>6. AcceptedRunHasTask'
      BY <2>0, <2>1 DEF AcceptedRunHasTask
    <2>7. CutIsNeverExecuted'
      <3> SUFFICES ASSUME NEW q \in cut'
                   PROVE  /\ pc'[q] \in {"none", "done"} /\ status[q] # "Completed"
                          /\ At(log[q], "stream") \cup At(log[q], "message.assistant_final") = {}
        BY <2>0 DEF CutIsNeverExecuted
      <3>1. CASE q = r
        BY <2>1, <2>2, <3>1
      <3>2. CASE q # r
        BY <2>1, <3>2, <1>t DEF CutIsNeverExecuted
      <3> QED BY <3>1, <3>2
    <2> QED BY <2>3, <2>4, <2>5, <2>6, <2>7
  (* a status that the run's own task writes *)
  <1>w. ASSUME NEW r \in Run, NEW t \in RunStatus, NEW events, Enter("task", r, t, events),
               status[r] \in Active, pc[r] \notin {"none", "done"},
               t \in Terminal => pc[r] \in PastEnd,
               UNCHANGED <<log, pc, starting, cut, phase, restarts>>
        PROVE  ServeInv'
    <2>1. r \notin cut
      BY <1>w DEF CutIsNeverExecuted
    <2> QED BY <1>w, <2>1, EnterServes
  <1>8. ASSUME NEW r \in Run, TaskTransition(r) PROVE ServeInv'
    <2> DEFINE t == TargetOf(pc[r])
    <2>0. /\ pc[r] \in {"prepare", "plan", "finalize", "complete"}
          /\ UNCHANGED <<starting, cut, phase, restarts>>
      BY <1>8 DEF TaskTransition, OnlyTask
    <2>a. t \in Terminal => pc[r] \in PastEnd
      BY <2>0 DEF TargetOf, Terminal, PastEnd
    <2> HIDE DEF t
    <2>1. CASE /\ Legal(status[r], t)
               /\ Enter("task", r, t, <<Changed(status[r], t)>>)
               /\ UNCHANGED <<log, pc, aim, cancelled>>
      <3>1. status[r] \in Active /\ t \in RunStatus
        BY <2>1, LegalFromActive
      <3> QED BY <2>0, <2>1, <2>a, <3>1, <1>w
    <2>2. CASE /\ Goto(r, "fail") /\ cancelled' = cancelled \ {r}
               /\ UNCHANGED <<status, slot, log, region, aim, trail>>
      BY <2>0, <2>2, MoveServes DEF Goto, TaskPc, PastEnd
    <2> QED BY <1>8, <2>1, <2>2 DEF TaskTransition, t
  <1>9. ASSUME NEW r \in Run, StreamEvent(r) \/ FinalMessage(r) \/ CancelDelivered(r)
        PROVE ServeInv'
    <2>1. /\ pc[r] \in {"stream", "message"}
          /\ UNCHANGED <<status, starting, cut, phase, restarts, lock, held, left>>
      BY <1>9 DEF StreamEvent, FinalMessage, CancelDelivered, OnlyTask
    <2>2. \E p \in {"stream", "complete", "converge"} :
             pc' = [pc EXCEPT ![r] = p] /\ (p = "stream" => pc[r] = "stream")
      <3>1. CASE StreamEvent(r)
        BY <3>1, <1>t DEF StreamEvent
      <3>2. CASE FinalMessage(r) \/ CancelDelivered(r)
        BY <3>2 DEF FinalMessage, CancelDelivered, Goto
      <3> QED BY <1>9, <3>1, <3>2
    <2>3. \/ log' = log
          \/ \E e \in Event : log' = [log EXCEPT ![r] = Append(@, e)]
      <3>1. Plain("message.assistant_final") \in Event /\ Plain("stream") \in Event
        BY EventTypes DEF EventType
      <3> QED BY <1>9, <3>1 DEF StreamEvent, FinalMessage, CancelDelivered
    <2> QED BY <2>1, <2>2, <2>3, MoveServes DEF TaskPc, PastEnd
  <1>10. ASSUME NEW r \in Run, StreamEnd(r) PROVE ServeInv'
    <2>1. \E p \in {"finalize", "fail"} : pc' = [pc EXCEPT ![r] = p]
      BY <1>10 DEF StreamEnd, Goto
    <2>2. /\ pc[r] = "stream" /\ log' = log
          /\ UNCHANGED <<status, starting, cut, phase, restarts, lock, held, left>>
      BY <1>10 DEF StreamEnd, OnlyTask
    <2> QED BY <2>1, <2>2, MoveServes DEF TaskPc, PastEnd
  <1>11. ASSUME NEW r \in Run, TaskFail(r) PROVE ServeInv'
    <2>0. /\ pc[r] = "fail" /\ pc[r] \in PastEnd
          /\ UNCHANGED <<starting, cut, phase, restarts>>
      BY <1>11 DEF TaskFail, OnlyTask, PastEnd
    <2> DEFINE ev == <<Plain("model.failed"), Changed(status[r], "Failed"),
                       Plain("run.failed")>>
    <2>1. CASE /\ FailureOwns(r)
               /\ Enter("task", r, "Failed", ev)
               /\ UNCHANGED <<log, pc, aim, cancelled>>
      <3>1. status[r] \in Active /\ "Failed" \in RunStatus
        BY <2>1, StatusFacts DEF FailureOwns
      <3> HIDE DEF ev
      <3> QED BY <2>0, <2>1, <3>1, <1>w
    <2>2. CASE /\ Goto(r, "converge") /\ cancelled' = cancelled \ {r}
               /\ UNCHANGED <<status, slot, log, region, aim, trail>>
      BY <2>0, <2>2, MoveServes DEF Goto, TaskPc, PastEnd
    <2> QED BY <1>11, <2>1, <2>2 DEF TaskFail
  <1>12. ASSUME NEW r \in Run, TaskConverge(r) PROVE ServeInv'
    <2>0. /\ pc[r] = "converge" /\ log' = log
          /\ UNCHANGED <<status, starting, cut, phase, restarts, lock, held, left>>
      BY <1>12 DEF TaskConverge, OnlyTask
    <2>1. \/ pc' = [pc EXCEPT ![r] = "aim"]
          \/ pc' = [pc EXCEPT ![r] = "done"] /\ status[r] \notin Active
      BY <1>12 DEF TaskConverge, Goto
    <2> QED BY <2>0, <2>1, MoveServes DEF TaskPc, PastEnd
  <1>13. ASSUME NEW r \in Run, TaskAim(r) PROVE ServeInv'
    <2>0. /\ pc[r] = "aim" /\ pc[r] \in PastEnd
          /\ UNCHANGED <<starting, cut, phase, restarts>>
      BY <1>13 DEF TaskAim, OnlyTask, PastEnd
    <2>1. CASE /\ Legal(status[r], aim[r])
               /\ Enter("task", r, aim[r], <<Changed(status[r], aim[r])>>)
               /\ UNCHANGED <<log, pc, aim, cancelled>>
      <3>1. status[r] \in Active /\ aim[r] \in RunStatus
        BY <2>1, LegalFromActive
      <3> QED BY <2>0, <2>1, <3>1, <1>w
    <2>2. CASE /\ Goto(r, "converge")
               /\ UNCHANGED <<status, slot, log, region, aim, cancelled, trail>>
      BY <2>0, <2>2, MoveServes DEF Goto, TaskPc, PastEnd
    <2> QED BY <1>13, <2>1, <2>2 DEF TaskAim
  <1>14. ASSUME NEW r \in Run, ReconcileEmit(r) PROVE ServeInv'
    <2>1. /\ phase = "reconciling" /\ restarts # 0 /\ starting = {} /\ pc[r] = "none"
          /\ log' = [log EXCEPT ![r] = Append(@, Head(owed[r]))]
          /\ owed[r] # <<>> /\ status[r] = "Failed" /\ held = NoRun
          /\ UNCHANGED <<status, pc, starting, cut, phase, restarts, lock, held, left>>
      BY <1>14, <1>r DEF ReconcileEmit, Phases, Beginnings, OwedToFailed, Regions
    <2>2. Head(owed[r]) \in Event /\ Head(owed[r]).type \notin {"stream", "message.assistant_final"}
      BY <2>1, ComingTells DEF Coming, Final
    <2>3. /\ \A q \in Run : q # r => log'[q] = log[q]
          /\ At(log'[r], "stream") = At(log[r], "stream")
          /\ At(log'[r], "message.assistant_final") = At(log[r], "message.assistant_final")
      BY <2>1, <2>2, <1>t, AtAppend
    <2>4. CutApart' /\ Phases' /\ EndedTasks' /\ HeldLives'
      BY <2>1 DEF CutApart, Phases, EndedTasks, HeldLives
    <2>5. Opened' /\ Silent' /\ AcceptedRunHasTask'
      BY <2>1, <2>3 DEF Opened, Silent, AcceptedRunHasTask
    <2>6. CutIsNeverExecuted'
      BY <2>1, <2>3, <1>t DEF CutIsNeverExecuted
    <2> QED BY <2>4, <2>5, <2>6
  <1>15. ASSUME RegionAppend PROVE ServeInv'
    <2> DEFINE r == held
               e == Head(left)
    <2>1. /\ r \in Run /\ status[r] \in RunStatus /\ status[r] # "deleted" /\ left # <<>>
          /\ log' = [log EXCEPT ![r] = Append(@, e)]
          /\ UNCHANGED <<status, starting, cut, phase, restarts>>
          /\ held' \in {held, NoRun} /\ phase \in {"serving", "stopping"}
          /\ (lock' = lock /\ held' = held) \/ lock' = "free"
      BY <1>15, <1>t, <1>r DEF RegionAppend, Writable, Beginnings, AppendLeft, Release, RowState, Alive
    <2>2. e \in Event /\ e.type \notin {"stream", "message.assistant_final"}
      BY <2>1, ComingTells DEF Coming, Final
    <2>a. Coming(r) = left
      BY DEF Coming
    <2>3. /\ pc' \in [Run -> TaskPc]
          /\ \A q \in Run : q # r => pc'[q] = pc[q]
          /\ \/ pc'[r] = pc[r]
             \/ lock = "task" /\ pc'[r] \notin {"none", "ready"}
                  /\ (pc'[r] = "done" => pc[r] = "done")
                  /\ (pc[r] \in PastEnd => pc'[r] \in PastEnd)
      <3>1. \A p \in TaskPc : /\ After(p) \in TaskPc
                              /\ After(p) \notin {"none", "ready", "done"} \/ After(p) = p
                              /\ p \in PastEnd => After(p) \in PastEnd
        BY DEF After, TaskPc, PastEnd
      <3>2. pc' = pc \/ (lock = "task" /\ TaskAfterRegion(r))
        BY <1>15 DEF RegionAppend
      <3>3. CASE lock = "task" /\ TaskAfterRegion(r)
        <4> DEFINE p == IF r \in cancelled THEN "converge" ELSE After(pc[r])
        <4>1. pc' = [pc EXCEPT ![r] = p]
          BY <3>3, <1>t DEF TaskAfterRegion
        <4>2. pc[r] \in {"prepare", "plan", "finalize", "complete", "fail", "aim"}
          BY <3>3, <1>r DEF Regions
        <4>3. p \in TaskPc /\ p \notin {"none", "ready", "done"}
                  /\ (pc[r] \in PastEnd => p \in PastEnd)
          BY SMTT(30), <2>1, <3>1, <4>2, <1>t DEF TaskPc, PastEnd
        <4> HIDE DEF p
        <4> QED BY <2>1, <3>3, <4>1, <4>3, <1>t
      <3> QED BY <3>2, <3>3, <1>t
    <2> HIDE DEF r, e
    <2>4. /\ \A q \in Run : q # r => log'[q] = log[q] /\ held' # q
          /\ log'[r] = Append(log[r], e)
          /\ \A q \in Run : q # r => held # q
      BY <2>1, <1>t DEF r
    <2>5. /\ log'[r] # <<>> /\ (log[r] # <<>> => log'[r][1] = log[r][1])
          /\ (log[r] = <<>> => log'[r][1] = e)
          /\ At(log'[r], "stream") = At(log[r], "stream")
          /\ At(log'[r], "message.assistant_final") = At(log[r], "message.assistant_final")
      BY <2>1, <2>2, <2>4, <1>t, FirstKept, AtAppend
    <2>6. Opened'
      <3>1. left = EarlyStop => e \in First
        BY DEF EarlyStop, First, e
      <3>2. held = r
        BY DEF r
      <3> SUFFICES ASSUME restarts = 0, NEW q \in Run
                   PROVE  /\ status[q] \in {"absent", "deleted"} => log'[q] = <<>>
                          /\ status[q] \in RunStatus => OpenedOrEarly(q)'
        BY <2>1 DEF Opened
      <3>3. CASE q = r
        BY <2>1, <2>5, <3>1, <3>2, <3>3, StatusFacts DEF Opened, OpenedOrEarly, RunStatus
      <3>4. CASE q # r
        BY <2>1, <2>3, <2>4, <3>4 DEF Opened, OpenedOrEarly
      <3> QED BY <3>3, <3>4
    <2>7. CutApart' /\ HeldLives'
      BY <2>1 DEF CutApart, HeldLives
    <2>8. Phases' /\ EndedTasks' /\ AcceptedRunHasTask'
      BY <2>1, <2>3 DEF Phases, EndedTasks, AcceptedRunHasTask
    <2>9. Silent'
      BY <2>1, <2>3, <2>4, <2>5 DEF Silent
    <2>10. CutIsNeverExecuted'
      <3>1. r \in cut => pc'[r] = pc[r]
        BY <2>3, <1>r DEF Regions, CutIsNeverExecuted, r
      <3> QED BY <2>1, <2>3, <2>4, <2>5, <3>1, <1>t DEF CutIsNeverExecuted
    <2> QED BY <2>6, <2>7, <2>8, <2>9, <2>10
  <1>16. ASSUME RegionError PROVE ServeInv'
    <2> DEFINE r == held
    <2>1. /\ r \in Run /\ status[r] = "deleted" /\ held' = NoRun /\ lock' = "free"
          /\ phase \in {"serving", "stopping"}
          /\ UNCHANGED <<status, starting, cut, phase, restarts, log>>
      BY <1>16, <1>t DEF RegionError, Writable, Release, Alive
    <2>2. lock = "task"
      BY <1>16, <2>1, StatusFacts, <1>r DEF HeldLives, Regions, IInv, TypeOK, RegionError
    <2>3. r \notin cut /\ r \notin starting
      BY <2>1, <2>2, <1>r, StatusFacts DEF Regions, CutIsNeverExecuted, Beginnings
    <2>4. /\ pc' \in [Run -> TaskPc]
          /\ \A q \in Run : q # r => pc'[q] = pc[q]
          /\ pc'[r] \in {"converge", "done", "fail"}
      BY <1>16, <2>1, <1>t DEF RegionError, TaskAfterError, TaskPc
    <2>5. \A q \in Run : q # r => held # q
      BY DEF r
    <2> HIDE DEF r
    <2>6. CutApart' /\ HeldLives'
      BY <2>1 DEF CutApart, HeldLives
    <2>7. Phases' /\ EndedTasks' /\ AcceptedRunHasTask'
      BY <2>1, <2>4, StatusFacts DEF Phases, EndedTasks, AcceptedRunHasTask, PastEnd
    <2>8. Opened'
      BY <2>1, <2>4, <2>5, <1>t, StatusFacts DEF Opened, OpenedOrEarly, RunStatus
    <2>9. Silent' /\ CutIsNeverExecuted'
      BY <2>1, <2>3, <2>4, <1>t DEF Silent, CutIsNeverExecuted
    <2> QED BY <2>6, <2>7, <2>8, <2>9
  <1>17. ASSUME ShutdownBegin PROVE ServeInv'
    <2>1. /\ phase = "serving" /\ phase' = "stopping"
          /\ UNCHANGED <<log, pc, status, lock, held, left, starting, cut, restarts>>
      BY <1>17 DEF ShutdownBegin, Serving
    <2>2. CutApart' /\ Phases' /\ EndedTasks' /\ HeldLives'
      BY <2>1 DEF CutApart, Phases, EndedTasks, HeldLives
    <2>3. Opened' /\ Silent' /\ AcceptedRunHasTask' /\ CutIsNeverExecuted'
      BY <2>1 DEF Opened, OpenedOrEarly, Silent, AcceptedRunHasTask, CutIsNeverExecuted
    <2> QED BY <2>2, <2>3
  <1>18. ASSUME SweepStart \/ SweepRead PROVE ServeInv'
    BY <1>18, SameServes DEF SweepStart, SweepRead, OnlySweep
  <1>19. ASSUME SweepAim PROVE ServeInv'
    <2>0. /\ phase = "stopping" /\ sweepRun \in Run /\ sweepAim \in Stops
          /\ UNCHANGED <<log, pc, starting, cut, phase, restarts>>
      BY <1>19, <1>r DEF SweepAim, OnlySweep, IInv, Sweeping
    <2> DEFINE events == <<Changed(status[sweepRun], sweepAim)>>
    <2>1. CASE /\ Legal(status[sweepRun], sweepAim)
               /\ Enter("sweep", sweepRun, sweepAim, events)
      <3>1. status[sweepRun] \in Active /\ sweepAim \in RunStatus /\ sweepAim # "Completed"
        BY <2>0, <2>1, LegalFromActive DEF Stops
      <3>2. status[sweepRun] = "Created" => sweepAim = "StopRequested"
        BY <2>0, <2>1 DEF Legal, Stops
      <3>3. status[sweepRun] = "Created" => events = EarlyStop
        BY <3>2 DEF EarlyStop
      <3> HIDE DEF events
      <3> QED BY <2>0, <2>1, <3>1, <3>3, EnterServes
    <2>2. CASE UNCHANGED <<status, slot, region, trail>>
      BY <2>0, <2>2, SameServes
    <2> QED BY <1>19, <2>1, <2>2 DEF SweepAim
  <1>20. ASSUME ShutdownEnd \/ Crash PROVE ServeInv'
    <2>1. /\ phase' = "down" /\ restarts' # 0 /\ held' = NoRun /\ starting' = {}
          /\ lock' = "free" /\ pc' = [r \in Run |-> "none"]
          /\ UNCHANGED <<status, log, cut>>
      BY <1>20, <1>t DEF ShutdownEnd, Crash, ProcessEnds
    <2>2. CutApart' /\ Phases' /\ EndedTasks' /\ HeldLives'
      BY <2>1 DEF CutApart, Phases, EndedTasks, HeldLives, PastEnd
    <2>3. Opened' /\ Silent' /\ AcceptedRunHasTask' /\ CutIsNeverExecuted'
      BY <2>1, <1>t DEF Opened, Silent, AcceptedRunHasTask, CutIsNeverExecuted
    <2> QED BY <2>2, <2>3
  <1>21. ASSUME Reconcile PROVE ServeInv'
    <2>1. /\ phase = "down" /\ phase' = "reconciling" /\ restarts # 0 /\ lock = "free"
          /\ \A r \in Run : status'[r] = IF status[r] \in Active THEN "Failed" ELSE status[r]
          /\ UNCHANGED <<log, pc, lock, held, left, starting, cut, restarts>>
      BY <1>21, <1>r DEF Reconcile, Phases, Regions
    <2>2. CutApart' /\ Phases' /\ HeldLives'
      BY <2>1, <1>t, StatusFacts DEF CutApart, Phases, HeldLives
    <2>3. EndedTasks'
      BY <2>1, StatusFacts DEF EndedTasks, Phases, PastEnd
    <2>4. Opened' /\ Silent' /\ AcceptedRunHasTask'
      BY <2>1 DEF Opened, Silent, AcceptedRunHasTask
    <2>5. CutIsNeverExecuted'
      BY <2>1, <1>t DEF CutIsNeverExecuted
    <2> QED BY <2>2, <2>3, <2>4, <2>5
  <1>22. ASSUME Open PROVE ServeInv'
    <2>1. /\ phase = "reconciling" /\ phase' = "serving" /\ restarts # 0
          /\ UNCHANGED <<status, log, pc, lock, held, left, starting, cut, restarts>>
      BY <1>22 DEF Open, Phases
    <2>2. CutApart' /\ Phases' /\ HeldLives' /\ EndedTasks'
      BY <2>1 DEF CutApart, Phases, HeldLives, EndedTasks, PastEnd
    <2>3. Opened' /\ Silent' /\ AcceptedRunHasTask' /\ CutIsNeverExecuted'
      BY <2>1 DEF Opened, Silent, AcceptedRunHasTask, CutIsNeverExecuted, Phases
    <2> QED BY <2>2, <2>3
  <1>23. CASE UNCHANGED vars
    BY <1>23, SameServes DEF vars
  <1> QED
    BY <1>1, <1>2, <1>3, <1>4, <1>5, <1>6, <1>7, <1>8, <1>9, <1>10, <1>11, <1>12,
       <1>13, <1>14, <1>15, <1>16, <1>17, <1>18, <1>19, <1>20, <1>21, <1>22, <1>23
       DEF Next, TaskStep, ShutdownStep

(* In every behaviour of the service the log of an accepted run is opened  *)
(* by run.created or by the stop that overtook it; while the service       *)
(* serves, a run that has not ended has its task unless its start was cut  *)
(* (a caller cancelled in the COMMIT, two stops before the first step),    *)
(* and a run whose start was cut is never executed, not even in part.      *)
THEOREM Served == Spec => []AcceptedIsServed
  <1>1. ASSUME IInv, ServeInv PROVE AcceptedIsServed
    <2>1. CreatedComesFirst
      BY <1>1 DEF IInv, TypeOK, ServeInv, CreatedComesFirst, Opened, OpenedOrEarly, RowState, First
    <2> QED BY <1>1, <2>1 DEF ServeInv, AcceptedIsServed
  <1>2. ASSUME IInv, RecordInv, ServeInv, [Next]_vars PROVE RecordInv' /\ ServeInv'
    BY <1>2, ServeStep, RecordInvStep
  <1>3. IInv /\ RecordInv /\ ServeInv /\ [Next]_vars => RecordInv' /\ ServeInv'
    BY <1>2
  <1>4. IInv /\ ServeInv => AcceptedIsServed
    BY <1>1
  <1> QED BY <1>3, <1>4, ServeInit, RecordInit, InitIInv, NextIInv, PTL DEF Spec
=============================================================================
