-------------------------- MODULE ChangeSetsProofs --------------------------
(***************************************************************************)
(* Theorems about ChangeSets for any set of changes, any queue and cache   *)
(* sizes, any number of incidents, with and without permanent call errors. *)
(***************************************************************************)
EXTENDS ChangeSets, SequencesExt, SequenceTheorems, TLAPS

\* RemoveAt takes out one element and keeps the order of the others
LEMMA RemoveAtProperties ==
    ASSUME NEW S, NEW s \in Seq(S), NEW k \in 1..Len(s)
    PROVE  /\ RemoveAt(s, k) \in Seq(S)
           /\ Len(RemoveAt(s, k)) = Len(s) - 1
           /\ \A i \in 1..Len(s) - 1 : RemoveAt(s, k)[i] = s[IF i < k THEN i ELSE i + 1]
  <1>1. PICK l, r : l = SubSeq(s, 1, k - 1) /\ r = SubSeq(s, k + 1, Len(s)) OBVIOUS
  <1>2. l \in Seq(S) /\ Len(l) = k - 1 /\ \A i \in 1..k - 1 : l[i] = s[i] BY <1>1
  <1>3. r \in Seq(S) /\ Len(r) = Len(s) - k /\ \A i \in 1..Len(s) - k : r[i] = s[k + i] BY <1>1
  <1>4. PICK q : /\ q = RemoveAt(s, k) /\ q \in Seq(S) /\ Len(q) = Len(l) + Len(r)
                 /\ \A i \in 1..Len(l) + Len(r) : q[i] = IF i <= Len(l) THEN l[i] ELSE r[i - Len(l)]
    <2>1. /\ l \o r \in Seq(S) /\ Len(l \o r) = Len(l) + Len(r)
          /\ \A i \in 1..Len(l) + Len(r) : (l \o r)[i] = IF i <= Len(l) THEN l[i] ELSE r[i - Len(l)]
      BY <1>2, <1>3, ConcatProperties
    <2>2. RemoveAt(s, k) = l \o r BY <1>1 DEF RemoveAt
    <2> QED BY <2>1, <2>2, Zenon
  <1>5. Len(s) \in Nat /\ Len(q) = Len(s) - 1 BY <1>2, <1>3, <1>4
  <1>6. ASSUME NEW i \in 1..Len(s) - 1 PROVE q[i] = s[IF i < k THEN i ELSE i + 1]
    <2>1. q[i] = IF i <= k - 1 THEN l[i] ELSE r[i - (k - 1)] BY <1>2, <1>3, <1>4
    <2>2. CASE i < k BY <1>2, <2>1, <2>2
    <2>3. CASE ~(i < k)
      <3>1. i - (k - 1) \in 1..Len(s) - k /\ k + (i - (k - 1)) = i + 1 /\ ~(i <= k - 1) BY <1>5, <2>3
      <3> QED BY <1>3, <2>1, <2>3, <3>1
    <2> QED BY <2>2, <2>3
  <1> QED BY <1>4, <1>5, <1>6

Entry == [change : Change, op : Calls, awaited : BOOLEAN]

\* The rows of a change: a consumed approval was given in the bound scene, and
\* nothing crosses begin_apply without one.
Consent ==
    \A c \in Change :
        /\ state[c] = "None" => decision[c] = "None"
        /\ decision[c] = "Consumed" => approvedIn[c] = bound[c]
        /\ state[c] \in {"Applying"} \cup Settled => decision[c] = "Consumed"

\* The task of a change is where its state says, and has an answer only of a
\* call it has made; the start-up visits changes that nobody else works on.
TaskInStep ==
    /\ \A c \in Change :
        /\ pc[c] \in {"apply", "receipt", "preflight"} => state[c] = "Applying"
        /\ pc[c] = "critical" => state[c] = "CriticalRecovery"
        /\ pc[c] \notin Calls => wire[c] = "unsent"
        /\ c \in todo => state[c] = "Applying" /\ pc[c] = "idle"
    /\ todo # {} => phase = "starting"

\* The entry a caller waits for is its current call, and it is the last one of
\* its change: when it has run, nothing of the change is left in the queue.
AwaitedIsLast ==
    \A i \in 1..Len(queue) : queue[i].awaited =>
        /\ pc[queue[i].change] = queue[i].op
        /\ wire[queue[i].change] = "sent"
        /\ \A j \in i + 1..Len(queue) : queue[j].change # queue[i].change

\* What the scene and the executor's cache say of the writes
EffectTellsWrites ==
    \A c \in Change :
        /\ writes[c] \in {0, 1}
        /\ effect[c] = "before" => writes[c] = 0
        /\ effect[c] \in {"half", "after"} => writes[c] = 1
CacheTellsWrites ==
    \A i \in 1..Len(cache) :
        /\ cache[i].status \in {"Applied", "RolledBack", "CriticalRecovery"}
        /\ cache[i].status = "Applied" => writes[cache[i].change] = 1
        /\ cache[i].status = "RolledBack" => writes[cache[i].change] = 0

\* An apply that has not been answered finds the change unwritten, and an answer
\* the Runtime has not read yet is true and final.
AnswerIsFinal ==
    \A c \in Change :
        /\ pc[c] = "apply" /\ wire[c] \in {"unsent", "sent"} =>
              /\ writes[c] = 0
              /\ \A i \in 1..Len(queue) :
                    queue[i].change = c /\ queue[i].op = "apply" => queue[i].awaited
        /\ wire[c] \in {"Applied", "AlreadyApplied", "post"} => writes[c] = 1 /\ ~Pending(c)
        /\ wire[c] \in {"RolledBack", "pre"} => writes[c] = 0 /\ ~Pending(c)

SceneInBounds == scene.instance <= incidents + 1 /\ scene.epoch <= incidents + 1

IInv ==
    /\ TypeOK /\ SceneInBounds /\ Consent /\ TaskInStep /\ AwaitedIsLast
    /\ EffectTellsWrites /\ CacheTellsWrites /\ AnswerIsFinal
    /\ OutcomeIsTruth /\ RecordsAgree

-----------------------------------------------------------------------------
(* Lemmas about the queue *)

USE ChangeAssumption, BoundAssumption, FlagAssumption

\* What the queue holds
LEMMA EntryTypes ==
    ASSUME TypeOK
    PROVE  /\ queue \in Seq(Entry) /\ Len(queue) \in Nat
           /\ \A i \in 1..Len(queue) :
                queue[i].change \in Change /\ queue[i].op \in Calls /\ queue[i].awaited \in BOOLEAN
  <1>1. queue \in Seq(Entry) /\ Len(queue) \in Nat BY DEF TypeOK, Entry
  <1>2. \A i \in 1..Len(queue) : queue[i] \in Entry BY <1>1
  <1> QED BY <1>1, <1>2 DEF Entry

\* q is the queue without some of its entries, the callers of gone having left
Thins(q, gone) ==
    /\ q \in Seq(Entry) /\ Len(q) <= Len(queue)
    /\ \E f \in [1..Len(q) -> 1..Len(queue)] :
        /\ \A i, j \in 1..Len(q) : i < j => f[i] < f[j]
        /\ \A i \in 1..Len(q) :
              /\ q[i].change = queue[f[i]].change /\ q[i].op = queue[f[i]].op
              /\ q[i].awaited => queue[f[i]].awaited
              /\ queue[f[i]].awaited => q[i].awaited \/ queue[f[i]].change \in gone

\* A queue is thinned by taking its head,
LEMMA TailThins ==
    ASSUME TypeOK, queue # <<>>, NEW gone
    PROVE  Thins(Tail(queue), gone)
  <1> DEFINE q == Tail(queue)
             f == [i \in 1..Len(q) |-> i + 1]
  <1>1. queue \in Seq(Entry) BY DEF TypeOK, Entry
  <1>2. q \in Seq(Entry) /\ Len(q) = Len(queue) - 1 /\ \A i \in 1..Len(q) : q[i] = queue[i + 1]
    BY <1>1
  <1>3. f \in [1..Len(q) -> 1..Len(queue)] BY <1>1, <1>2
  <1>4. \A i, j \in 1..Len(q) : i < j => f[i] < f[j] BY <1>2
  <1>5. \A i \in 1..Len(q) : q[i] = queue[f[i]] BY <1>2
  <1>6. Len(q) <= Len(queue) BY <1>1, <1>2
  <1> HIDE DEF f, q
  <1> QED BY <1>2, <1>3, <1>4, <1>5, <1>6 DEF Thins, q

\* by removing an entry,
LEMMA RemoveThins ==
    ASSUME TypeOK, NEW k \in 1..Len(queue), NEW gone
    PROVE  Thins(RemoveAt(queue, k), gone)
  <1> DEFINE q == RemoveAt(queue, k)
             f == [i \in 1..Len(q) |-> IF i < k THEN i ELSE i + 1]
  <1>1. queue \in Seq(Entry) /\ Len(queue) \in Nat BY DEF TypeOK, Entry
  <1>2. /\ q \in Seq(Entry) /\ Len(q) = Len(queue) - 1
        /\ \A i \in 1..Len(q) : q[i] = queue[IF i < k THEN i ELSE i + 1]
    BY <1>1, RemoveAtProperties
  <1>3. f \in [1..Len(q) -> 1..Len(queue)] BY <1>1, <1>2
  <1>4. \A i, j \in 1..Len(q) : i < j => f[i] < f[j] BY <1>2
  <1>5. \A i \in 1..Len(q) : q[i] = queue[f[i]] BY <1>2
  <1>6. Len(q) <= Len(queue) BY <1>1, <1>2
  <1> HIDE DEF f, q
  <1> QED BY <1>2, <1>3, <1>4, <1>5, <1>6 DEF Thins, q

\* and by marking an entry as abandoned
LEMMA MarkThins ==
    ASSUME TypeOK, NEW gone, NEW q \in Seq(Entry), Len(q) = Len(queue),
           \A i \in 1..Len(queue) :
              q[i] = queue[i] \/ (q[i] = Orphan(queue[i]) /\ queue[i].change \in gone)
    PROVE  Thins(q, gone)
  <1> DEFINE f == [i \in 1..Len(q) |-> i]
  <1>1. queue \in Seq(Entry) /\ Len(queue) \in Nat BY DEF TypeOK, Entry
  <1>2. \A i \in 1..Len(queue) : queue[i] \in Entry BY <1>1
  <1>3. \A i \in 1..Len(q) :
          /\ q[i].change = queue[i].change /\ q[i].op = queue[i].op
          /\ q[i].awaited => queue[i].awaited
          /\ queue[i].awaited => q[i].awaited \/ queue[i].change \in gone
    <2> TAKE i \in 1..Len(q)
    <2>1. i \in 1..Len(queue) /\ queue[i] \in Entry BY <1>2
    <2>2. CASE q[i] = queue[i] BY <2>2
    <2>3. CASE q[i] = Orphan(queue[i]) /\ queue[i].change \in gone BY <2>3 DEF Orphan
    <2> QED BY <2>1, <2>2, <2>3
  <1>4. f \in [1..Len(q) -> 1..Len(queue)] BY <1>1
  <1>5. \A i \in 1..Len(q) : f[i] = i OBVIOUS
  <1> HIDE DEF f
  <1> QED BY SMTT(30), <1>1, <1>3, <1>4, <1>5 DEF Thins

\* A thinner queue has no new request, and keeps the awaited entries in place
LEMMA ThinsKeeps ==
    ASSUME TypeOK, NEW gone, Thins(queue', gone)
    PROVE  /\ \A c \in Change : Pending(c)' => Pending(c)
           /\ \A i \in 1..Len(queue') : queue'[i].change \in Change /\ queue'[i].op \in Calls
           /\ \A c \in Change \ gone :
                (\A i \in 1..Len(queue) : queue[i].change = c /\ queue[i].op = "apply" => queue[i].awaited)
                => \A i \in 1..Len(queue') :
                      queue'[i].change = c /\ queue'[i].op = "apply" => queue'[i].awaited
           /\ AwaitedIsLast =>
                \A i \in 1..Len(queue') : queue'[i].awaited =>
                    /\ pc[queue'[i].change] = queue'[i].op /\ wire[queue'[i].change] = "sent"
                    /\ \A j \in i + 1..Len(queue') : queue'[j].change # queue'[i].change
           /\ queue' \in Seq([change : Change, op : Calls, awaited : BOOLEAN])
           /\ Len(queue') <= Capacity
  <1> PICK f \in [1..Len(queue') -> 1..Len(queue)] :
        /\ \A i, j \in 1..Len(queue') : i < j => f[i] < f[j]
        /\ \A i \in 1..Len(queue') :
              /\ queue'[i].change = queue[f[i]].change /\ queue'[i].op = queue[f[i]].op
              /\ queue'[i].awaited => queue[f[i]].awaited
              /\ queue[f[i]].awaited => queue'[i].awaited \/ queue[f[i]].change \in gone
    BY DEF Thins
  <1>1. queue' \in Seq(Entry) /\ Len(queue') <= Len(queue) /\ Len(queue') \in Nat
    BY DEF Thins
  <1>2. \A i \in 1..Len(queue') : queue'[i] \in Entry BY <1>1
  <1>3. \A c \in Change : Pending(c)' => Pending(c) BY DEF Pending
  <1>4. \A i \in 1..Len(queue') : queue'[i].change \in Change /\ queue'[i].op \in Calls
    BY <1>2 DEF Entry
  <1>5. ASSUME NEW c \in Change \ gone,
               \A i \in 1..Len(queue) : queue[i].change = c /\ queue[i].op = "apply" => queue[i].awaited,
               NEW i \in 1..Len(queue'), queue'[i].change = c /\ queue'[i].op = "apply"
        PROVE  queue'[i].awaited
    BY <1>5
  <1>6. ASSUME AwaitedIsLast, NEW i \in 1..Len(queue'), queue'[i].awaited
        PROVE  /\ pc[queue'[i].change] = queue'[i].op /\ wire[queue'[i].change] = "sent"
               /\ \A j \in i + 1..Len(queue') : queue'[j].change # queue'[i].change
    <2>1. f[i] \in 1..Len(queue) /\ queue[f[i]].awaited BY <1>6
    <2>2. /\ pc[queue[f[i]].change] = queue[f[i]].op /\ wire[queue[f[i]].change] = "sent"
          /\ \A j \in f[i] + 1..Len(queue) : queue[j].change # queue[f[i]].change
      BY <1>6, <2>1 DEF AwaitedIsLast
    <2>3. ASSUME NEW j \in i + 1..Len(queue') PROVE queue'[j].change # queue'[i].change
      <3>1. j \in 1..Len(queue') /\ i < j BY <1>1
      <3>2. f[j] \in 1..Len(queue) /\ f[i] < f[j] BY <3>1
      <3>3. f[j] \in f[i] + 1..Len(queue) BY <2>1, <3>2
      <3> QED BY <2>2, <3>1, <3>3
    <2> QED BY <2>2, <2>3
  <1>7. Len(queue') <= Capacity
    <2>1. Len(queue) <= Capacity /\ Len(queue) \in Nat BY DEF TypeOK
    <2> QED BY <1>1, <2>1
  <1> QED BY <1>1, <1>3, <1>4, <1>5, <1>6, <1>7 DEF Entry

-----------------------------------------------------------------------------
(* The invariant holds at the start *)

\* The invariant holds at the start
LEMMA InitIInv == Init => IInv
  <1> SUFFICES ASSUME Init PROVE IInv OBVIOUS
  <1> USE DEF Init
  <1>1. TypeOK
    <2>1. queue \in Seq([change : Change, op : Calls, awaited : BOOLEAN]) /\ Len(queue) <= Capacity
             /\ cache \in Seq([change : Change, status : Statuses]) /\ Len(cache) <= CacheMax
      OBVIOUS
    <2>2. scene \in Binding BY DEF Binding
    <2>3. bound \in [Change -> Binding \cup {NoBinding}]
             /\ approvedIn \in [Change -> Binding \cup {NoBinding}]
      OBVIOUS
    <2>4. incidents \in 0..MaxIncidents OBVIOUS
    <2>5. asked \subseteq Change \X Binding OBVIOUS
    <2> QED BY <2>1, <2>2, <2>3, <2>4, <2>5 DEF TypeOK, States, Decisions, Effects
  <1>2. SceneInBounds
    BY DEF SceneInBounds
  <1>3. Len(queue) = 0 /\ Len(cache) = 0 OBVIOUS
  <1>4. Consent /\ TaskInStep /\ EffectTellsWrites /\ OutcomeIsTruth /\ RecordsAgree
    BY <1>3 DEF Consent, TaskInStep, EffectTellsWrites, OutcomeIsTruth, RecordsAgree, Settled,
           NotWritten, Calls, Pending
  <1>5. AwaitedIsLast /\ CacheTellsWrites /\ AnswerIsFinal
    BY <1>3 DEF AwaitedIsLast, CacheTellsWrites, AnswerIsFinal
  <1> QED BY <1>1, <1>2, <1>4, <1>5 DEF IInv

-----------------------------------------------------------------------------
(* Every step keeps it.  One lemma per group of actions. *)

\* A task goes on without touching the queue; it begins an apply only on a
\* change that nothing was or can be written of.
LEMMA TaskMoves ==
    ASSUME IInv, UNCHANGED <<queue, writes>>, NEW c \in Change, wire[c] # "sent",
           \A d \in Change : d # c => pc'[d] = pc[d] /\ wire'[d] = wire[d],
           \/ pc'[c] = pc[c] /\ wire'[c] = wire[c]
           \/ /\ wire'[c] = "unsent"
              /\ pc'[c] = "apply" => writes[c] = 0 /\ ~Pending(c)
    PROVE  AwaitedIsLast' /\ AnswerIsFinal'
  <1>1. \A i \in 1..Len(queue) : queue[i].change \in Change BY EntryTypes DEF IInv
  <1>2. AwaitedIsLast' BY <1>1 DEF IInv, AwaitedIsLast
  <1>3. \A d \in Change : Pending(d)' = Pending(d) BY DEF Pending
  <1>4. ASSUME NEW d \in Change, pc'[d] = "apply" /\ wire'[d] \in {"unsent", "sent"}
        PROVE  /\ writes'[d] = 0
               /\ \A i \in 1..Len(queue') :
                    queue'[i].change = d /\ queue'[i].op = "apply" => queue'[i].awaited
    <2>1. CASE pc'[d] = pc[d] /\ wire'[d] = wire[d]
      BY <1>4, <2>1 DEF IInv, AnswerIsFinal
    <2>2. CASE d = c /\ writes[c] = 0 /\ ~Pending(c)
      BY <2>2 DEF Pending
    <2> QED BY <1>4, <2>1, <2>2
  <1>5. \A d \in Change :
          /\ wire'[d] \in {"Applied", "AlreadyApplied", "post"} => writes'[d] = 1 /\ ~Pending(d)'
          /\ wire'[d] \in {"RolledBack", "pre"} => writes'[d] = 0 /\ ~Pending(d)'
    BY <1>3 DEF IInv, AnswerIsFinal
  <1> QED BY <1>2, <1>4, <1>5 DEF AnswerIsFinal

\* Only the rows of a change that is not under way are written
LEMMA DecisionsKeep ==
    ASSUME IInv, NEW c \in Change,
           Propose(c) \/ Approve(c) \/ Reject(c)
    PROVE  IInv'
  <1> USE DEF durable, tasks, houdini
  <1>1. CASE Propose(c)
    <2> USE <1>1 DEF Propose
    <2>1. TypeOK' BY DEF IInv, TypeOK, States, Decisions
    <2>2. Consent' /\ RecordsAgree'
      BY ZenonT(30) DEF IInv, TypeOK, Consent, RecordsAgree, Settled
    <2>3. TaskInStep' BY DEF IInv, TypeOK, TaskInStep
    <2>4. OutcomeIsTruth' BY DEF IInv, TypeOK, OutcomeIsTruth, NotWritten, Pending
    <2>5. SceneInBounds' /\ AwaitedIsLast' /\ EffectTellsWrites' /\ CacheTellsWrites' /\ AnswerIsFinal'
      BY DEF IInv, SceneInBounds, AwaitedIsLast, EffectTellsWrites, CacheTellsWrites, AnswerIsFinal, Pending
    <2> QED BY <2>1, <2>2, <2>3, <2>4, <2>5 DEF IInv
  <1>2. CASE Reject(c)
    <2> USE <1>2 DEF Reject, Decide, RecordDecision
    <2>1. TypeOK' BY DEF IInv, TypeOK, States, Decisions
    <2>2. Consent' /\ RecordsAgree'
      BY SMTT(30) DEF IInv, TypeOK, Consent, RecordsAgree, Settled
    <2>3. TaskInStep' BY DEF IInv, TypeOK, TaskInStep, RecordsAgree
    <2>4. OutcomeIsTruth' BY DEF IInv, TypeOK, OutcomeIsTruth, RecordsAgree, NotWritten, Pending
    <2>5. SceneInBounds' /\ AwaitedIsLast' /\ EffectTellsWrites' /\ CacheTellsWrites' /\ AnswerIsFinal'
      BY DEF IInv, SceneInBounds, AwaitedIsLast, EffectTellsWrites, CacheTellsWrites, AnswerIsFinal, Pending
    <2> QED BY <2>1, <2>2, <2>3, <2>4, <2>5 DEF IInv
  <1>3. CASE Approve(c)
    <2>1. PICK ask \in asked : ask[1] = c /\ Decide(c, "Approved", ask[2])
      BY <1>3 DEF Approve
    <2>2. ask[2] \in Binding BY <2>1 DEF IInv, TypeOK
    <2> DEFINE outcome == IF late[c] THEN "Expired" ELSE "Approved"
    <2>3. /\ decision[c] = "Pending" /\ state[c] = "AwaitingApproval"
          /\ decision' = [decision EXCEPT ![c] = outcome]
          /\ state' = [state EXCEPT ![c] = outcome]
          /\ approvedIn' = [approvedIn EXCEPT ![c] = IF outcome = "Approved" THEN ask[2] ELSE @]
          /\ asked' \subseteq asked
          /\ UNCHANGED <<bound, receipt, late, phase, todo, incidents, houdini>>
      BY <1>3, <2>1 DEF Approve, Decide, RecordDecision, IInv, RecordsAgree
    <2>4. outcome \in {"Expired", "Approved"} OBVIOUS
    <2>5. /\ pc' \in [Change -> {"idle", "check", "begin"} \cup Calls]
          /\ retry' \in [Change -> BOOLEAN] /\ wire' \in [Change -> Answers \cup {"unsent", "sent"}]
          /\ \A d \in Change : d # c => pc'[d] = pc[d] /\ wire'[d] = wire[d]
          /\ (pc'[c] = pc[c] /\ wire'[c] = wire[c])
                \/ (pc[c] = "idle" /\ pc'[c] \in {"idle", "check"} /\ wire'[c] = "unsent")
      <3>1. CASE decision'[c] = "Approved" /\ pc[c] = "idle"
        <4>1. outcome = "Approved" /\ state'[c] = "Approved" BY <2>3, <3>1 DEF IInv, TypeOK
        <4>2. StartApply(c) BY <1>3, <3>1 DEF Approve
        <4>3. /\ pc' = [pc EXCEPT ![c] = "check"]
              /\ retry' = [retry EXCEPT ![c] = pc'[c] = "receipt"]
              /\ wire' = [wire EXCEPT ![c] = "unsent"]
          BY <4>1, <4>2 DEF StartApply
        <4> QED BY <4>3, <3>1 DEF IInv, TypeOK
      <3>2. CASE ~(decision'[c] = "Approved" /\ pc[c] = "idle")
        BY <1>3, <3>2 DEF Approve, IInv, TypeOK
      <3> QED BY <3>1, <3>2
    <2> HIDE DEF outcome
    <2>6. TypeOK' BY <2>2, <2>3, <2>4, <2>5 DEF IInv, TypeOK, States, Decisions
    <2>7. Consent' /\ RecordsAgree'
      BY <2>3, <2>4 DEF IInv, TypeOK, Consent, RecordsAgree, Settled
    <2>8. TaskInStep' BY <2>3, <2>4, <2>5 DEF IInv, TypeOK, TaskInStep, Calls
    <2>9. OutcomeIsTruth' BY ZenonT(30), <2>3, <2>4 DEF IInv, TypeOK, OutcomeIsTruth, NotWritten, Pending
    <2>10. SceneInBounds' /\ EffectTellsWrites' /\ CacheTellsWrites'
      BY <2>3 DEF IInv, SceneInBounds, EffectTellsWrites, CacheTellsWrites
    <2>11. AwaitedIsLast' /\ AnswerIsFinal'
      <3>1. CASE wire[c] = "sent"
        <4>1. \A d \in Change : pc'[d] = pc[d] /\ wire'[d] = wire[d]
          BY <2>5, <3>1 DEF IInv, TaskInStep, Calls
        <4>2. pc' = pc /\ wire' = wire BY <2>5, <4>1 DEF IInv, TypeOK
        <4> QED BY <2>3, <4>2 DEF IInv, AwaitedIsLast, AnswerIsFinal, Pending
      <3>2. CASE wire[c] # "sent"
        BY <2>3, <2>5, <3>2, TaskMoves
      <3> QED BY <3>1, <3>2
    <2> QED BY <2>6, <2>7, <2>8, <2>9, <2>10, <2>11 DEF IInv
  <1> QED BY <1>1, <1>2, <1>3

\* The tasks that only move on: they leave rows, queue and scene alone
LEMMA MovesKeep ==
    ASSUME IInv, NEW c \in Change,
           TrustedApply(c) \/ EnsureWriteAvailable(c) \/ RecoverCritical(c) \/ StartupRecover(c)
    PROVE  IInv'
  <1> USE DEF durable, tasks, houdini
  <1>1. /\ pc' \in [Change -> {"idle", "check", "begin"} \cup Calls]
        /\ retry' \in [Change -> BOOLEAN] /\ wire' \in [Change -> Answers \cup {"unsent", "sent"}]
        /\ \A d \in Change : d # c => pc'[d] = pc[d] /\ wire'[d] = wire[d]
        /\ wire[c] = "unsent" /\ wire'[c] = "unsent"
        /\ \/ pc'[c] \in {"idle", "check", "begin"}
           \/ pc'[c] = "receipt" /\ state[c] = "Applying"
           \/ pc'[c] = "critical" /\ state[c] = "CriticalRecovery"
        /\ todo' \subseteq todo
        /\ c \in todo => c \notin todo'
        /\ UNCHANGED <<durable, late, phase, asked, incidents, houdini>>
    <2>1. CASE TrustedApply(c)
      <3>1. c \notin todo BY <2>1 DEF TrustedApply, IInv, TaskInStep
      <3>2. \/ pc' = [pc EXCEPT ![c] = "idle"]
            \/ pc' = [pc EXCEPT ![c] = "receipt"] /\ state[c] = "Applying"
            \/ pc' = [pc EXCEPT ![c] = "check"]
        <4>1. CASE state'[c] \in {"Applied", "RolledBack", "CriticalRecovery"}
          BY <2>1, <4>1 DEF TrustedApply, StartApply
        <4>2. CASE state'[c] = "Applying"
          BY <2>1, <4>2 DEF TrustedApply, StartApply
        <4>3. CASE state'[c] \notin {"Applied", "RolledBack", "CriticalRecovery", "Applying"}
          BY <2>1, <4>3 DEF TrustedApply, StartApply
        <4> QED BY <4>1, <4>2, <4>3
      <3>3. /\ retry' = [retry EXCEPT ![c] = pc'[c] = "receipt"]
            /\ wire' = [wire EXCEPT ![c] = "unsent"]
        BY <2>1 DEF TrustedApply, StartApply
      <3> QED BY ZenonT(30), <2>1, <3>1, <3>2, <3>3 DEF TrustedApply, IInv, TypeOK, TaskInStep, Calls
    <2>2. CASE EnsureWriteAvailable(c)
      BY <2>2 DEF EnsureWriteAvailable, IInv, TypeOK, TaskInStep, Calls
    <2>3. CASE RecoverCritical(c)
      BY <2>3 DEF RecoverCritical, Goto, IInv, TypeOK, TaskInStep, Calls
    <2>4. CASE StartupRecover(c)
      BY <2>4 DEF StartupRecover, Idle, Goto, IInv, TypeOK, TaskInStep, Calls
    <2> QED BY <2>1, <2>2, <2>3, <2>4
  <1>2. TypeOK' BY <1>1 DEF IInv, TypeOK
  <1>3. Consent' /\ RecordsAgree' /\ OutcomeIsTruth' /\ SceneInBounds' /\ EffectTellsWrites'
           /\ CacheTellsWrites'
    BY <1>1 DEF IInv, Consent, RecordsAgree, OutcomeIsTruth, SceneInBounds, EffectTellsWrites,
             CacheTellsWrites, Pending
  <1>4. TaskInStep' BY <1>1 DEF IInv, TaskInStep, Calls
  <1>5. AwaitedIsLast' /\ AnswerIsFinal' BY <1>1, TaskMoves
  <1> QED BY <1>2, <1>3, <1>4, <1>5 DEF IInv

\* begin_apply: Approved becomes Applying and the approval is consumed
LEMMA BeginKeeps ==
    ASSUME IInv, NEW c \in Change, BeginApply(c)
    PROVE  IInv'
  <1> USE DEF BeginApply, durable, tasks, houdini
  <1>1. CASE MayBegin(c)
    <2>1. writes[c] = 0 /\ ~Pending(c) /\ c \notin todo /\ wire[c] = "unsent"
      BY <1>1 DEF MayBegin, IInv, OutcomeIsTruth, NotWritten, TaskInStep, Calls
    <2>2. TypeOK' BY ZenonT(30), <1>1 DEF IInv, TypeOK, States, Decisions, Calls
    <2>3. Consent' /\ RecordsAgree'
      <3>1. Consent' BY <1>1 DEF MayBegin, IInv, TypeOK, Consent, Settled
      <3>2. RecordsAgree' BY <1>1 DEF MayBegin, IInv, TypeOK, RecordsAgree, Settled
      <3> QED BY <3>1, <3>2
    <2>4. TaskInStep' BY <1>1, <2>1 DEF IInv, TypeOK, TaskInStep, Calls
    <2>5. OutcomeIsTruth' BY <1>1 DEF IInv, TypeOK, OutcomeIsTruth, NotWritten, Pending
    <2>6. SceneInBounds' /\ EffectTellsWrites' /\ CacheTellsWrites'
      BY <1>1 DEF IInv, SceneInBounds, EffectTellsWrites, CacheTellsWrites
    <2>7. AwaitedIsLast' /\ AnswerIsFinal' BY <1>1, <2>1, TaskMoves DEF IInv, TypeOK
    <2> QED BY <2>2, <2>3, <2>4, <2>5, <2>6, <2>7 DEF IInv
  <1>2. CASE ~MayBegin(c)
    <2>1. wire[c] = "unsent" BY DEF IInv, TaskInStep, Calls
    <2>2. TypeOK' BY <1>2 DEF IInv, TypeOK
    <2>3. Consent' /\ RecordsAgree' /\ OutcomeIsTruth' /\ SceneInBounds' /\ EffectTellsWrites'
             /\ CacheTellsWrites'
      BY <1>2 DEF IInv, Consent, RecordsAgree, OutcomeIsTruth, SceneInBounds, EffectTellsWrites,
               CacheTellsWrites, Pending
    <2>4. TaskInStep' BY <1>2 DEF IInv, TypeOK, TaskInStep, Calls
    <2>5. AwaitedIsLast' /\ AnswerIsFinal' BY <1>2, <2>1, TaskMoves DEF IInv, TypeOK
    <2> QED BY <2>2, <2>3, <2>4, <2>5 DEF IInv
  <1> QED BY <1>1, <1>2

\* The task has read its answer: rows and task change together
LEMMA ReturnsKeep ==
    ASSUME IInv, NEW c \in Change,
           ApplyReturns(c) \/ ReceiptReturns(c) \/ PreflightReturns(c) \/ CriticalReturns(c)
    PROVE  IInv'
  <1> USE DEF durable, tasks, houdini
  <1> DEFINE Completes(status) ==
                 /\ status \in Statuses /\ pc'[c] = "idle"
                 /\ status \in {"Applied", "AlreadyApplied"} => writes[c] = 1 /\ ~Pending(c)
                 /\ status = "RolledBack" => writes[c] = 0 /\ ~Pending(c)
                 /\ Complete(c, status)
  <1>1. /\ pc[c] \in Calls /\ wire[c] \in Answers /\ wire[c] # "sent"
        /\ pc' = [pc EXCEPT ![c] = pc'[c]] /\ wire' = [wire EXCEPT ![c] = "unsent"]
        /\ retry' \in [Change -> BOOLEAN] /\ pc'[c] \in {"idle", "check", "receipt", "preflight"}
        /\ UNCHANGED <<decision, bound, approvedIn, late, phase, todo, asked, incidents, houdini>>
    <2>1. PICK to \in {"idle", "check", "receipt", "preflight"} : Goto(c, to)
      BY DEF ApplyReturns, ReceiptReturns, PreflightReturns, CriticalReturns
    <2>2. /\ pc[c] \in Calls /\ wire[c] \in Answers
          /\ UNCHANGED <<decision, bound, approvedIn, late, phase, todo, asked, incidents, houdini>>
      BY DEF ApplyReturns, ReceiptReturns, PreflightReturns, CriticalReturns, Calls
    <2>3. wire[c] # "sent" BY <2>2 DEF Answers, Statuses, Facts, Permanent
    <2> QED BY <2>1, <2>2, <2>3 DEF Goto, IInv, TypeOK
  <1>2. \/ /\ UNCHANGED <<state, receipt>>
           /\ pc'[c] \in {"idle", "receipt", "preflight"}
           /\ pc'[c] \in {"receipt", "preflight"} => state[c] = "Applying"
        \/ \E status \in Statuses : Completes(status)
        \/ /\ RecoverToApproved(c) /\ UNCHANGED receipt /\ pc'[c] \in {"idle", "check"}
           /\ writes[c] = 0 /\ ~Pending(c)
        \/ ToRecovered(c) /\ UNCHANGED receipt /\ pc'[c] = "idle"
    <2>0. pc \in [Change -> {"idle", "check", "begin"} \cup Calls] BY DEF IInv, TypeOK
    <2>1. CASE ApplyReturns(c)
      BY <2>0, <2>1 DEF ApplyReturns, Goto, IInv, TaskInStep, AnswerIsFinal, Statuses
    <2>2. CASE ReceiptReturns(c)
      BY <2>0, <2>2 DEF ReceiptReturns, Goto, IInv, TaskInStep, AnswerIsFinal, Statuses
    <2>3. CASE PreflightReturns(c)
      BY <2>0, <2>3 DEF PreflightReturns, Goto, IInv, TaskInStep, AnswerIsFinal, Statuses
    <2>4. CASE CriticalReturns(c)
      BY <2>0, <2>4 DEF CriticalReturns, Goto, IInv, TaskInStep
    <2> QED BY <2>1, <2>2, <2>3, <2>4
  <1>3. SceneInBounds' /\ EffectTellsWrites' /\ CacheTellsWrites'
    BY <1>1 DEF IInv, SceneInBounds, EffectTellsWrites, CacheTellsWrites
  <1>4. AwaitedIsLast' /\ AnswerIsFinal'
    <2>1. \A d \in Change : d # c => pc'[d] = pc[d] /\ wire'[d] = wire[d]
      BY <1>1 DEF IInv, TypeOK
    <2>2. wire'[c] = "unsent" /\ pc'[c] # "apply" BY <1>1 DEF IInv, TypeOK
    <2> QED BY <1>1, <2>1, <2>2, TaskMoves
  <1>5. \A d \in Change : Pending(d)' = Pending(d) /\ writes'[d] = writes[d]
    BY <1>1 DEF Pending
  <1>6. pc' \in [Change -> {"idle", "check", "begin"} \cup Calls]
           /\ wire' \in [Change -> Answers \cup {"unsent", "sent"}]
    BY ZenonT(30), <1>1 DEF IInv, TypeOK, Calls
  <1>7. CASE UNCHANGED <<state, receipt>> /\ (pc'[c] \in {"receipt", "preflight"} => state[c] = "Applying")
               /\ pc'[c] \in {"idle", "receipt", "preflight"}
    <2>1. TypeOK' BY <1>1, <1>6, <1>7 DEF IInv, TypeOK
    <2>2. Consent' /\ RecordsAgree' BY <1>1, <1>7 DEF IInv, Consent, RecordsAgree
    <2>3. OutcomeIsTruth' BY <1>5, <1>7 DEF IInv, OutcomeIsTruth
    <2>4. TaskInStep' BY <1>1, <1>6, <1>7 DEF IInv, TypeOK, TaskInStep, Calls
    <2> QED BY <1>3, <1>4, <2>1, <2>2, <2>3, <2>4 DEF IInv
  <1>8. ASSUME NEW status \in Statuses, Completes(status) PROVE IInv'
    <2>1. /\ state[c] = "Applying" /\ state' = [state EXCEPT ![c] = StateForReceipt(status)]
          /\ receipt' = [receipt EXCEPT ![c] = status] /\ pc'[c] = "idle"
      BY <1>8 DEF Complete
    <2>2. /\ StateForReceipt(status) \in {"Applied", "RolledBack", "CriticalRecovery"}
          /\ StateForReceipt(status) = "Applied" => status \in {"Applied", "AlreadyApplied"}
          /\ StateForReceipt(status) = "RolledBack" => status = "RolledBack"
          /\ status # "None"
      BY DEF StateForReceipt, Statuses
    <2>3. TypeOK' BY <1>1, <1>6, <2>1, <2>2 DEF IInv, TypeOK, States
    <2>4. Consent' BY <1>1, <2>1, <2>2 DEF IInv, TypeOK, Consent, Settled
    <2>5. RecordsAgree' BY <1>1, <2>1, <2>2 DEF IInv, TypeOK, RecordsAgree, Consent, Settled
    <2>6. OutcomeIsTruth' BY <1>5, <1>8, <2>1, <2>2 DEF IInv, TypeOK, OutcomeIsTruth, NotWritten
    <2>7. TaskInStep' BY <1>1, <1>6, <2>1 DEF IInv, TypeOK, TaskInStep, Calls
    <2> QED BY <1>3, <1>4, <2>3, <2>4, <2>5, <2>6, <2>7 DEF IInv
  <1>9. CASE RecoverToApproved(c) /\ UNCHANGED receipt /\ pc'[c] \in {"idle", "check"}
               /\ writes[c] = 0 /\ ~Pending(c)
    <2>1. state[c] = "Applying" /\ decision[c] = "Consumed" /\ state' = [state EXCEPT ![c] = "Approved"]
      BY <1>9 DEF RecoverToApproved
    <2>2. TypeOK' BY <1>1, <1>6, <1>9, <2>1 DEF IInv, TypeOK, States
    <2>3. Consent' BY <1>1, <2>1 DEF IInv, TypeOK, Consent, Settled
    <2>4. RecordsAgree' BY <1>1, <1>9, <2>1 DEF IInv, TypeOK, RecordsAgree, Settled
    <2>5. OutcomeIsTruth' BY <1>5, <1>9, <2>1 DEF IInv, TypeOK, OutcomeIsTruth, NotWritten
    <2>6. TaskInStep' BY <1>1, <1>6, <1>9, <2>1 DEF IInv, TypeOK, TaskInStep, Calls
    <2> QED BY <1>3, <1>4, <2>2, <2>3, <2>4, <2>5, <2>6 DEF IInv
  <1>10. CASE ToRecovered(c) /\ UNCHANGED receipt /\ pc'[c] = "idle"
    <2>1. state[c] = "CriticalRecovery" /\ decision[c] = "Consumed" /\ state' = [state EXCEPT ![c] = "Recovered"]
      BY <1>10 DEF ToRecovered
    <2>2. TypeOK' BY <1>1, <1>6, <1>10, <2>1 DEF IInv, TypeOK, States
    <2>3. Consent' BY <1>1, <2>1 DEF IInv, TypeOK, Consent, Settled
    <2>4. RecordsAgree' BY <1>1, <1>10, <2>1 DEF IInv, TypeOK, RecordsAgree, Settled
    <2>5. OutcomeIsTruth' BY <1>5, <2>1 DEF IInv, TypeOK, OutcomeIsTruth, NotWritten
    <2>6. TaskInStep' BY <1>1, <1>6, <1>10, <2>1 DEF IInv, TypeOK, TaskInStep, Calls
    <2> QED BY <1>3, <1>4, <2>2, <2>3, <2>4, <2>5, <2>6 DEF IInv
  <1> QED BY <1>2, <1>7, <1>8, <1>9, <1>10

\* A request enters the queue behind everything of its change
LEMMA SendKeeps ==
    ASSUME IInv, NEW c \in Change, Send(c)
    PROVE  IInv'
  <1> USE DEF Send, durable, tasks, houdini
  <1> DEFINE e == [change |-> c, op |-> pc[c], awaited |-> TRUE]
  <1>1. queue \in Seq(Entry) /\ Len(queue) \in Nat /\ e \in Entry
    BY EntryTypes DEF IInv, Entry
  <1>2. queue' = Append(queue, e) OBVIOUS
  <1>3. /\ queue' \in Seq(Entry) /\ Len(queue') = Len(queue) + 1
        /\ \A i \in 1..Len(queue) : queue'[i] = queue[i]
        /\ queue'[Len(queue) + 1] = e
    BY <1>1, <1>2
  <1>4. e.change = c /\ e.op = pc[c] /\ e.awaited OBVIOUS
  <1> HIDE DEF e
  <1>5. \A i \in 1..Len(queue') : (i \in 1..Len(queue) /\ queue'[i] = queue[i])
                                   \/ (i = Len(queue) + 1 /\ queue'[i] = e)
    BY <1>1, <1>3
  <1>6. \A d \in Change : Pending(d)' => Pending(d) \/ (d = c /\ pc[c] = "apply")
    BY <1>4, <1>5 DEF Pending
  <1>7. wire' = [wire EXCEPT ![c] = "sent"] /\ wire[c] = "unsent" /\ UNCHANGED <<pc, state, writes>>
    OBVIOUS
  <1>8. TypeOK'
    <2>1. Len(queue') <= Capacity BY <1>1, <1>3
    <2> QED BY <1>3, <2>1 DEF IInv, TypeOK, Entry
  <1>9. Consent' /\ RecordsAgree' /\ SceneInBounds' /\ EffectTellsWrites' /\ CacheTellsWrites'
    BY DEF IInv, Consent, RecordsAgree, SceneInBounds, EffectTellsWrites, CacheTellsWrites
  <1>10. TaskInStep' BY DEF IInv, TypeOK, TaskInStep
  <1>11. OutcomeIsTruth'
    BY <1>6 DEF IInv, TaskInStep, OutcomeIsTruth, NotWritten
  <1>12. AwaitedIsLast'
    <2> SUFFICES ASSUME NEW i \in 1..Len(queue'), queue'[i].awaited
                 PROVE  /\ pc[queue'[i].change] = queue'[i].op
                        /\ wire'[queue'[i].change] = "sent"
                        /\ \A j \in i + 1..Len(queue') : queue'[j].change # queue'[i].change
      BY <1>7 DEF AwaitedIsLast
    <2>1. CASE i = Len(queue) + 1
      BY <1>1, <1>3, <1>4, <1>7, <2>1 DEF IInv, TypeOK
    <2>2. CASE i \in 1..Len(queue)
      <3>1. queue'[i] = queue[i] /\ queue[i].change \in Change
        BY <1>3, <2>2, EntryTypes DEF IInv
      <3>2. /\ pc[queue[i].change] = queue[i].op /\ wire[queue[i].change] = "sent"
            /\ \A j \in i + 1..Len(queue) : queue[j].change # queue[i].change
        BY <3>1, <2>2 DEF IInv, AwaitedIsLast
      <3>3. queue[i].change # c BY <1>7, <3>2
      <3>4. wire'[queue[i].change] = "sent" BY <1>7, <3>1, <3>2, <3>3 DEF IInv, TypeOK
      <3>5. \A j \in i + 1..Len(queue') : queue'[j].change # queue[i].change
        <4> TAKE j \in i + 1..Len(queue')
        <4>1. j \in i + 1..Len(queue) \/ j = Len(queue) + 1 BY <1>1, <1>3
        <4>2. j \in 1..Len(queue) \/ j = Len(queue) + 1 BY <1>1, <4>1
        <4> QED BY <1>3, <1>4, <3>2, <3>3, <4>1, <4>2
      <3> QED BY <3>1, <3>2, <3>4, <3>5
    <2> QED BY <1>5, <2>1, <2>2
  <1>13. AnswerIsFinal'
    <2> SUFFICES ASSUME NEW d \in Change
                 PROVE  /\ pc[d] = "apply" /\ wire'[d] \in {"unsent", "sent"} =>
                             /\ writes[d] = 0
                             /\ \A i \in 1..Len(queue') :
                                  queue'[i].change = d /\ queue'[i].op = "apply" => queue'[i].awaited
                        /\ wire'[d] \in {"Applied", "AlreadyApplied", "post"} => writes[d] = 1 /\ ~Pending(d)'
                        /\ wire'[d] \in {"RolledBack", "pre"} => writes[d] = 0 /\ ~Pending(d)'
      BY <1>7 DEF AnswerIsFinal
    <2>1. CASE d = c
      BY <1>3, <1>4, <1>5, <1>7, <2>1 DEF IInv, TypeOK, AnswerIsFinal
    <2>2. CASE d # c
      BY <1>3, <1>4, <1>5, <1>6, <1>7, <2>2 DEF IInv, TypeOK, AnswerIsFinal
    <2> QED BY <2>1, <2>2
  <1> QED BY <1>8, <1>9, <1>10, <1>11, <1>12, <1>13 DEF IInv

\* The queue gets thinner, and the callers of gone have left it or are
\* no longer in a call; the rest of the state stays as it is
LEMMA ThinnerKeeps ==
    ASSUME IInv, NEW gone \in SUBSET Change, Thins(queue', gone),
           UNCHANGED <<durable, late, scene, cache, frozen, effect, writes>>,
           \A d \in Change \ gone : pc'[d] = pc[d] /\ wire'[d] = wire[d],
           \A d \in gone : /\ wire'[d] \in {"unsent", "transient", "failed"}
                           /\ pc'[d] = "apply" => wire'[d] # "unsent",
           \A i \in 1..Len(queue') : queue'[i].awaited => queue'[i].change \notin gone
    PROVE  Consent' /\ RecordsAgree' /\ EffectTellsWrites' /\ CacheTellsWrites'
           /\ AwaitedIsLast' /\ AnswerIsFinal' /\ OutcomeIsTruth'
  <1> USE DEF durable
  <1>1. TypeOK /\ AwaitedIsLast BY DEF IInv
  <1>2. /\ \A c \in Change : Pending(c)' => Pending(c)
        /\ \A i \in 1..Len(queue') : queue'[i].change \in Change /\ queue'[i].op \in Calls
    BY <1>1, ThinsKeeps
  <1>3. \A c \in Change \ gone :
          (\A i \in 1..Len(queue) : queue[i].change = c /\ queue[i].op = "apply" => queue[i].awaited)
          => \A i \in 1..Len(queue') :
                queue'[i].change = c /\ queue'[i].op = "apply" => queue'[i].awaited
    BY <1>1, ThinsKeeps
  <1>4. \A i \in 1..Len(queue') : queue'[i].awaited =>
          /\ pc[queue'[i].change] = queue'[i].op /\ wire[queue'[i].change] = "sent"
          /\ \A j \in i + 1..Len(queue') : queue'[j].change # queue'[i].change
    BY <1>1, ThinsKeeps
  <1>5. Consent' /\ RecordsAgree' /\ EffectTellsWrites' /\ CacheTellsWrites'
    BY DEF IInv, Consent, RecordsAgree, EffectTellsWrites, CacheTellsWrites
  <1>6. AwaitedIsLast' BY <1>2, <1>4 DEF AwaitedIsLast
  <1>7. OutcomeIsTruth' BY <1>2 DEF IInv, OutcomeIsTruth
  <1>8. AnswerIsFinal'
    <2> SUFFICES ASSUME NEW d \in Change
                 PROVE  /\ pc'[d] = "apply" /\ wire'[d] \in {"unsent", "sent"} =>
                             /\ writes'[d] = 0
                             /\ \A i \in 1..Len(queue') :
                                  queue'[i].change = d /\ queue'[i].op = "apply" => queue'[i].awaited
                        /\ wire'[d] \in {"Applied", "AlreadyApplied", "post"} => writes'[d] = 1 /\ ~Pending(d)'
                        /\ wire'[d] \in {"RolledBack", "pre"} => writes'[d] = 0 /\ ~Pending(d)'
      BY DEF AnswerIsFinal
    <2>1. CASE d \in gone
      BY <2>1
    <2>2. CASE d \notin gone
      <3>1. pc'[d] = pc[d] /\ wire'[d] = wire[d] /\ writes'[d] = writes[d] BY <2>2
      <3>2. pc'[d] = "apply" /\ wire'[d] \in {"unsent", "sent"} =>
                /\ writes'[d] = 0
                /\ \A i \in 1..Len(queue') :
                     queue'[i].change = d /\ queue'[i].op = "apply" => queue'[i].awaited
        BY <1>3, <2>2, <3>1 DEF IInv, AnswerIsFinal
      <3>3. /\ wire'[d] \in {"Applied", "AlreadyApplied", "post"} => writes'[d] = 1 /\ ~Pending(d)'
            /\ wire'[d] \in {"RolledBack", "pre"} => writes'[d] = 0 /\ ~Pending(d)'
        BY <1>2, <3>1 DEF IInv, AnswerIsFinal
      <3> QED BY <3>2, <3>3
    <2> QED BY <2>1, <2>2
  <1> QED BY <1>5, <1>6, <1>7, <1>8

\* A call ends without its answer; its request may stay behind in the queue
LEMMA CallFailsKeeps ==
    ASSUME IInv, NEW c \in Change, CallFails(c)
    PROVE  IInv'
  <1> USE DEF durable, tasks, houdini
  <1>1. PICK error \in {"transient", "failed"} : wire' = [wire EXCEPT ![c] = error]
    BY DEF CallFails
  <1>2. /\ pc[c] \in Calls /\ Abandon(c)
        /\ UNCHANGED <<durable, late, phase, todo, asked, pc, retry, incidents, scene, cache, frozen,
                       effect, writes>>
    BY DEF CallFails
  <1>3. TypeOK /\ AwaitedIsLast BY DEF IInv
  <1>4. queue \in Seq(Entry) /\ Len(queue) \in Nat BY <1>3, EntryTypes
  <1>5. Thins(queue', {c}) /\ \A i \in 1..Len(queue') : queue'[i].awaited => queue'[i].change # c
    <2>1. CASE UNCHANGED queue /\ \A i \in 1..Len(queue) : ~(queue[i].change = c /\ queue[i].awaited)
      BY <1>3, <1>4, <2>1, MarkThins
    <2>2. ASSUME NEW k \in 1..Len(queue), queue[k].change = c, queue[k].awaited,
                 queue' = IF queue[k].op = "apply" THEN [queue EXCEPT ![k] = Orphan(queue[k])]
                                                   ELSE RemoveAt(queue, k)
          PROVE  Thins(queue', {c}) /\ \A i \in 1..Len(queue') : queue'[i].awaited => queue'[i].change # c
      <3>1. \A i \in 1..Len(queue) : queue[i].awaited /\ queue[i].change = c => i = k
        <4> SUFFICES ASSUME NEW i \in 1..Len(queue), queue[i].awaited, queue[i].change = c, i # k
                     PROVE  FALSE
          OBVIOUS
        <4>1. i \in k + 1..Len(queue) \/ k \in i + 1..Len(queue) BY <1>4
        <4> QED BY <1>3, <2>2, <4>1 DEF AwaitedIsLast
      <3>2. CASE queue[k].op = "apply"
        <4>1. Orphan(queue[k]) \in Entry BY <1>3, EntryTypes DEF Orphan, Entry
        <4>2. queue' = [queue EXCEPT ![k] = Orphan(queue[k])] BY <2>2, <3>2
        <4>3. /\ queue' \in Seq(Entry) /\ Len(queue') = Len(queue)
              /\ \A i \in 1..Len(queue) : queue'[i] = IF i = k THEN Orphan(queue[k]) ELSE queue[i]
          BY <1>4, <4>1, <4>2, ExceptSeq
        <4>4. Thins(queue', {c}) BY <1>3, <2>2, <4>3, MarkThins
        <4>5. ~Orphan(queue[k]).awaited BY DEF Orphan
        <4> QED BY <3>1, <4>3, <4>4, <4>5
      <3>3. CASE queue[k].op # "apply"
        <4>1. queue' = RemoveAt(queue, k) BY <2>2, <3>3
        <4>2. Thins(queue', {c}) BY <1>3, <4>1, RemoveThins
        <4>3. /\ Len(queue') = Len(queue) - 1
              /\ \A i \in 1..Len(queue) - 1 : queue'[i] = queue[IF i < k THEN i ELSE i + 1]
          BY <1>4, <4>1, RemoveAtProperties
        <4>4. \A i \in 1..Len(queue) - 1 :
                 (IF i < k THEN i ELSE i + 1) \in 1..Len(queue) /\ (IF i < k THEN i ELSE i + 1) # k
          BY <1>4
        <4> QED BY <3>1, <4>2, <4>3, <4>4
      <3> QED BY <3>2, <3>3
    <2> QED BY <1>2, <2>1, <2>2 DEF Abandon
  <1>6. /\ \A d \in Change \ {c} : pc'[d] = pc[d] /\ wire'[d] = wire[d]
        /\ wire'[c] \in {"transient", "failed"}
    BY <1>1, <1>2 DEF IInv, TypeOK
  <1>7. Consent' /\ RecordsAgree' /\ EffectTellsWrites' /\ CacheTellsWrites'
           /\ AwaitedIsLast' /\ AnswerIsFinal' /\ OutcomeIsTruth'
    BY <1>2, <1>5, <1>6, ThinnerKeeps
  <1>8. queue' \in Seq([change : Change, op : Calls, awaited : BOOLEAN]) /\ Len(queue') <= Capacity
    BY <1>3, <1>5, ThinsKeeps
  <1>9. TypeOK' BY <1>1, <1>2, <1>8 DEF IInv, TypeOK, Answers, Permanent
  <1>10. TaskInStep' /\ SceneInBounds' BY <1>1, <1>2 DEF IInv, TypeOK, TaskInStep, SceneInBounds
  <1> QED BY <1>7, <1>9, <1>10 DEF IInv

\* The Runtime crashes: tasks and connections are gone, rows and queue stay
LEMMA CrashKeeps ==
    ASSUME IInv, Crash
    PROVE  IInv'
  <1> USE DEF durable, tasks, houdini, Incident
  <1>1. TypeOK BY DEF IInv
  <1>2. queue \in Seq(Entry) /\ Len(queue) \in Nat BY <1>1, EntryTypes
  <1>3. queue' = [i \in 1..Len(queue) |-> Orphan(queue[i])] BY DEF Crash
  <1>4. \A i \in 1..Len(queue) : Orphan(queue[i]) \in Entry /\ ~Orphan(queue[i]).awaited
    BY <1>1, EntryTypes DEF Orphan, Entry
  <1>5. /\ queue' \in Seq(Entry) /\ Len(queue') = Len(queue)
        /\ \A i \in 1..Len(queue) : queue'[i] = Orphan(queue[i]) /\ queue[i].change \in Change
    BY <1>1, <1>2, <1>3, <1>4, EntryTypes
  <1>6. Thins(queue', Change) BY <1>1, <1>5, MarkThins
  <1>7. \A i \in 1..Len(queue') : ~queue'[i].awaited BY <1>4, <1>5
  <1>8. \A d \in Change : pc'[d] = "idle" /\ wire'[d] = "unsent" BY DEF Crash
  <1>9. UNCHANGED <<durable, late, scene, cache, frozen, effect, writes>> BY DEF Crash
  <1>10. Consent' /\ RecordsAgree' /\ EffectTellsWrites' /\ CacheTellsWrites'
           /\ AwaitedIsLast' /\ AnswerIsFinal' /\ OutcomeIsTruth'
    BY <1>6, <1>7, <1>8, <1>9, ThinnerKeeps
  <1>11. queue' \in Seq([change : Change, op : Calls, awaited : BOOLEAN]) /\ Len(queue') <= Capacity
    BY <1>1, <1>6, ThinsKeeps
  <1>12. TypeOK' BY <1>1, <1>11 DEF TypeOK, Crash
  <1>13. TaskInStep' BY <1>8, <1>9 DEF Crash, TaskInStep, Calls
  <1>14. SceneInBounds' BY <1>1 DEF Crash, IInv, TypeOK, SceneInBounds, Binding
  <1> QED BY <1>10, <1>12, <1>13, <1>14 DEF IInv

\* What happens around the tasks: the clock, the user's scene, the queue's own
\* clean-up, a new bridge
LEMMA EnvironmentKeeps ==
    ASSUME IInv,
           \/ \E c \in Change : Expire(c) \/ ApproveRead(c) \/ EditScene(c)
           \/ StartupDone \/ DropAbandoned \/ LoadScene \/ RestartHoudini
    PROVE  IInv'
  <1> USE DEF durable, tasks, houdini, Incident
  <1>1. ASSUME NEW c \in Change, Expire(c) \/ ApproveRead(c) PROVE IInv'
    <2>1. TypeOK'
      <3>1. CASE Expire(c) BY <3>1 DEF Expire, IInv, TypeOK
      <3>2. CASE ApproveRead(c)
        <4>1. <<c, scene>> \in Change \X Binding BY DEF IInv, TypeOK
        <4>2. asked' \subseteq Change \X Binding BY <3>2, <4>1 DEF ApproveRead, IInv, TypeOK
        <4> QED BY <3>2, <4>2 DEF ApproveRead, IInv, TypeOK
      <3> QED BY <1>1, <3>1, <3>2
    <2>2. Consent' /\ TaskInStep' /\ RecordsAgree' /\ SceneInBounds' /\ EffectTellsWrites' /\ CacheTellsWrites'
      BY <1>1 DEF Expire, ApproveRead, IInv, Consent, TaskInStep, RecordsAgree, SceneInBounds,
               EffectTellsWrites, CacheTellsWrites
    <2>3. AwaitedIsLast' /\ AnswerIsFinal' /\ OutcomeIsTruth'
      BY SMTT(30), <1>1 DEF Expire, ApproveRead, IInv, AwaitedIsLast, AnswerIsFinal, OutcomeIsTruth, Pending
    <2> QED BY <2>1, <2>2, <2>3 DEF IInv
  <1>2. ASSUME NEW c \in Change, EditScene(c) PROVE IInv'
    <2>1. TypeOK' BY <1>2 DEF EditScene, IInv, TypeOK, Effects
    <2>2. Consent' /\ TaskInStep' /\ RecordsAgree' /\ CacheTellsWrites'
      BY <1>2 DEF EditScene, IInv, Consent, TaskInStep, RecordsAgree, CacheTellsWrites
    <2>3. EffectTellsWrites' BY <1>2 DEF EditScene, IInv, TypeOK, EffectTellsWrites
    <2>4. AwaitedIsLast' /\ AnswerIsFinal' /\ OutcomeIsTruth'
      BY <1>2 DEF EditScene, IInv, AwaitedIsLast, AnswerIsFinal, OutcomeIsTruth, Pending
    <2>5. SceneInBounds' BY <1>2 DEF EditScene, IInv, TypeOK, SceneInBounds, Binding
    <2> QED BY <2>1, <2>2, <2>3, <2>4, <2>5 DEF IInv
  <1>3. CASE StartupDone
    <2>1. TypeOK' BY <1>3 DEF StartupDone, IInv, TypeOK
    <2>2. Consent' /\ TaskInStep' /\ RecordsAgree' /\ SceneInBounds' /\ EffectTellsWrites' /\ CacheTellsWrites'
      BY <1>3 DEF StartupDone, IInv, Consent, TaskInStep, RecordsAgree, SceneInBounds,
               EffectTellsWrites, CacheTellsWrites
    <2>3. AwaitedIsLast' /\ AnswerIsFinal' /\ OutcomeIsTruth'
      BY <1>3 DEF StartupDone, IInv, AwaitedIsLast, AnswerIsFinal, OutcomeIsTruth, Pending
    <2> QED BY <2>1, <2>2, <2>3 DEF IInv
  <1>4. CASE DropAbandoned
    <2>1. PICK k \in 1..Len(queue) : queue' = RemoveAt(queue, k) BY <1>4 DEF DropAbandoned
    <2>2. TypeOK BY DEF IInv
    <2>3. Thins(queue', {}) BY <2>1, <2>2, RemoveThins
    <2>4. UNCHANGED <<durable, late, tasks, incidents, scene, cache, frozen, effect, writes>>
      BY <1>4 DEF DropAbandoned
    <2>5. Consent' /\ RecordsAgree' /\ EffectTellsWrites' /\ CacheTellsWrites'
             /\ AwaitedIsLast' /\ AnswerIsFinal' /\ OutcomeIsTruth'
      BY <2>3, <2>4, ThinnerKeeps
    <2>6. queue' \in Seq([change : Change, op : Calls, awaited : BOOLEAN]) /\ Len(queue') <= Capacity
      BY <2>2, <2>3, ThinsKeeps
    <2>7. TypeOK' BY <2>4, <2>6 DEF IInv, TypeOK
    <2>8. TaskInStep' /\ SceneInBounds' BY <2>4 DEF IInv, TaskInStep, SceneInBounds
    <2> QED BY <2>5, <2>7, <2>8 DEF IInv
  <1>5. CASE LoadScene
    <2>1. scene' \in Binding /\ SceneInBounds' /\ incidents' \in 0..MaxIncidents
      <3>1. /\ scene.instance \in 1..MaxIncidents + 1 /\ scene.epoch \in 1..MaxIncidents + 1
            /\ incidents \in 0..MaxIncidents /\ MaxIncidents \in Nat /\ SceneInBounds
        BY DEF IInv, TypeOK, Binding
      <3>2. /\ incidents < MaxIncidents /\ incidents' = incidents + 1
            /\ scene' = [instance |-> scene.instance, epoch |-> scene.epoch + 1]
        BY <1>5 DEF LoadScene
      <3>3. scene'.instance = scene.instance /\ scene'.epoch = scene.epoch + 1 BY <3>2
      <3>4. scene.epoch + 1 \in 1..MaxIncidents + 1 BY <3>1, <3>2 DEF SceneInBounds
      <3>5. scene' \in Binding BY <3>1, <3>2, <3>4 DEF Binding
      <3> QED BY <3>1, <3>2, <3>3, <3>5 DEF SceneInBounds
    <2>2. TypeOK' BY <1>5, <2>1 DEF LoadScene, IInv, TypeOK
    <2>3. Consent' /\ TaskInStep' /\ RecordsAgree' /\ EffectTellsWrites' /\ CacheTellsWrites'
      BY <1>5 DEF LoadScene, IInv, Consent, TaskInStep, RecordsAgree, EffectTellsWrites, CacheTellsWrites
    <2>4. AwaitedIsLast' /\ AnswerIsFinal' /\ OutcomeIsTruth'
      BY <1>5 DEF LoadScene, IInv, AwaitedIsLast, AnswerIsFinal, OutcomeIsTruth, Pending
    <2> QED BY <2>1, <2>2, <2>3, <2>4 DEF IInv
  <1>6. CASE RestartHoudini
    <2>1. scene' \in Binding /\ SceneInBounds' /\ incidents' \in 0..MaxIncidents
      <3>1. /\ scene.instance \in 1..MaxIncidents + 1 /\ scene.epoch \in 1..MaxIncidents + 1
            /\ incidents \in 0..MaxIncidents /\ MaxIncidents \in Nat /\ SceneInBounds
            /\ scene \in Binding
        BY DEF IInv, TypeOK, Binding
      <3>2. incidents < MaxIncidents /\ incidents' = incidents + 1 BY <1>6 DEF RestartHoudini
      <3>3. CASE scene' = [instance |-> scene.instance + 1, epoch |-> 1]
        <4>1. scene'.instance = scene.instance + 1 /\ scene'.epoch = 1 BY <3>3
        <4>2. scene.instance + 1 \in 1..MaxIncidents + 1 BY <3>1, <3>2 DEF SceneInBounds
        <4>3. scene' \in Binding BY <3>1, <3>3, <4>2 DEF Binding
        <4> QED BY <3>1, <3>2, <4>1, <4>3 DEF SceneInBounds
      <3>4. CASE UNCHANGED scene
        BY <3>1, <3>2, <3>4 DEF SceneInBounds
      <3> QED BY <1>6, <3>3, <3>4 DEF RestartHoudini
    <2>2. queue' = <<>> /\ cache' = <<>> /\ Len(queue') = 0 /\ Len(cache') = 0
             /\ UNCHANGED <<durable, late, tasks, effect, writes>>
      BY <1>6 DEF RestartHoudini
    <2>3. TypeOK'
      <3>1. /\ queue' \in Seq([change : Change, op : Calls, awaited : BOOLEAN]) /\ Len(queue') <= Capacity
            /\ cache' \in Seq([change : Change, status : Statuses]) /\ Len(cache') <= CacheMax
        BY <2>2
      <3>2. frozen' = FALSE BY <1>6 DEF RestartHoudini
      <3> QED BY <2>1, <2>2, <3>1, <3>2 DEF IInv, TypeOK
    <2>4. Consent' /\ TaskInStep' /\ RecordsAgree' /\ EffectTellsWrites' /\ CacheTellsWrites' /\ AwaitedIsLast'
      BY <2>2 DEF IInv, Consent, TaskInStep, RecordsAgree, EffectTellsWrites, CacheTellsWrites, AwaitedIsLast
    <2>5. \A c \in Change : ~Pending(c)' BY <2>2 DEF Pending
    <2>6. AnswerIsFinal' /\ OutcomeIsTruth'
      BY <2>2, <2>5 DEF IInv, AnswerIsFinal, OutcomeIsTruth
    <2> QED BY <2>1, <2>3, <2>4, <2>6 DEF IInv
  <1> QED BY <1>1, <1>2, <1>3, <1>4, <1>5, <1>6

-----------------------------------------------------------------------------
(* Houdini runs the head of the queue *)

\* Whatever the operation did, the answer goes to a caller whose change has
\* nothing left in the queue; only an apply writes.
LEMMA AnswerKeeps ==
    ASSUME IInv, queue # <<>>, NEW a \in Answers, Answer(a),
           NEW c \in Change, c = Head(queue).change,
           UNCHANGED <<durable, late, phase, todo, asked, pc, retry, incidents, scene>>,
           frozen' \in BOOLEAN, effect' \in [Change -> Effects], writes' \in [Change -> Nat],
           cache' \in Seq([change : Change, status : Statuses]), Len(cache') <= CacheMax,
           EffectTellsWrites', CacheTellsWrites',
           \A d \in Change : d # c => writes'[d] = writes[d],
           Head(queue).op # "apply" => writes'[c] = writes[c],
           Head(queue).awaited /\ a \in {"Applied", "AlreadyApplied", "post"} => writes'[c] = 1,
           Head(queue).awaited /\ a \in {"RolledBack", "pre"} => writes'[c] = 0
    PROVE  IInv'
  <1> USE DEF durable
  <1> DEFINE h == Head(queue)
  <1>1. TypeOK /\ AwaitedIsLast BY DEF IInv
  <1>2. /\ queue \in Seq(Entry) /\ Len(queue) \in Nat /\ Len(queue) >= 1
        /\ h = queue[1] /\ h.op \in Calls /\ h.awaited \in BOOLEAN
        /\ queue' = Tail(queue) /\ Len(queue') = Len(queue) - 1
        /\ \A i \in 1..Len(queue') : i + 1 \in 1..Len(queue) /\ queue'[i] = queue[i + 1]
    <2>1. queue \in Seq(Entry) /\ Len(queue) \in Nat /\ queue' = Tail(queue)
      BY <1>1, EntryTypes DEF Answer
    <2>2. Len(queue) >= 1 /\ h = queue[1] /\ Len(queue') = Len(queue) - 1 BY <2>1
    <2>3. h.op \in Calls /\ h.awaited \in BOOLEAN BY <1>1, <2>1, <2>2, EntryTypes
    <2>4. \A i \in 1..Len(queue') : i + 1 \in 1..Len(queue) /\ queue'[i] = queue[i + 1] BY <2>1, <2>2
    <2> QED BY <2>1, <2>2, <2>3, <2>4
  <1> HIDE DEF h
  <1>3. wire' = IF h.awaited THEN [wire EXCEPT ![c] = a] ELSE wire BY DEF Answer, h
  <1>4. a \notin {"unsent", "sent"} BY DEF Answers, Statuses, Facts, Permanent
  <1>5. Thins(queue', {}) BY <1>1, <1>2, TailThins
  <1>6. \A d \in Change : Pending(d)' => Pending(d) BY <1>1, <1>5, ThinsKeeps
  <1>7. h.awaited => /\ pc[c] = h.op /\ wire[c] = "sent"
                     /\ \A i \in 1..Len(queue') : queue'[i].change # c
    <2> SUFFICES ASSUME h.awaited
                 PROVE  /\ pc[c] = h.op /\ wire[c] = "sent"
                        /\ \A i \in 1..Len(queue') : queue'[i].change # c
      OBVIOUS
    <2>1. 1 \in 1..Len(queue) /\ queue[1].awaited /\ queue[1].change = c BY <1>2 DEF h
    <2>2. /\ pc[c] = h.op /\ wire[c] = "sent"
          /\ \A j \in 2..Len(queue) : queue[j].change # c
      BY <1>1, <1>2, <2>1 DEF AwaitedIsLast
    <2>3. \A i \in 1..Len(queue') : i + 1 \in 2..Len(queue) BY <1>2
    <2> QED BY <1>2, <2>2, <2>3
  <1>8. h.awaited => ~Pending(c)' BY <1>7 DEF Pending
  <1>9. h.op = "apply" => Pending(c)
    <2>1. 1 \in 1..Len(queue) /\ queue[1].change = c /\ queue[1].op = h.op BY <1>2 DEF h
    <2> QED BY <2>1 DEF Pending
  <1>10. TypeOK'
    <2>1. queue' \in Seq([change : Change, op : Calls, awaited : BOOLEAN]) /\ Len(queue') <= Capacity
      BY <1>1, <1>5, ThinsKeeps
    <2>2. wire' \in [Change -> Answers \cup {"unsent", "sent"}] BY <1>1, <1>3 DEF TypeOK
    <2> QED BY <1>1, <2>1, <2>2 DEF TypeOK
  <1>11. Consent' /\ RecordsAgree' /\ SceneInBounds'
    BY DEF IInv, Consent, RecordsAgree, SceneInBounds
  <1>12. TaskInStep'
    BY <1>1, <1>2, <1>3, <1>7 DEF IInv, TypeOK, TaskInStep
  <1>13. AwaitedIsLast'
    <2>1. \A i \in 1..Len(queue') : queue'[i].change \in Change BY <1>1, <1>5, ThinsKeeps
    <2>2. \A i \in 1..Len(queue') : queue'[i].awaited =>
            /\ pc[queue'[i].change] = queue'[i].op /\ wire[queue'[i].change] = "sent"
            /\ \A j \in i + 1..Len(queue') : queue'[j].change # queue'[i].change
      BY <1>1, <1>5, ThinsKeeps
    <2>3. \A i \in 1..Len(queue') : wire'[queue'[i].change] = wire[queue'[i].change]
      BY <1>1, <1>3, <1>7, <2>1 DEF TypeOK
    <2> QED BY <2>2, <2>3 DEF AwaitedIsLast
  <1>14. OutcomeIsTruth'
    BY <1>2, <1>6, <1>9 DEF IInv, OutcomeIsTruth, h
  <1>15. AnswerIsFinal'
    <2> SUFFICES ASSUME NEW d \in Change
                 PROVE  /\ pc[d] = "apply" /\ wire'[d] \in {"unsent", "sent"} =>
                             /\ writes'[d] = 0
                             /\ \A i \in 1..Len(queue') :
                                  queue'[i].change = d /\ queue'[i].op = "apply" => queue'[i].awaited
                        /\ wire'[d] \in {"Applied", "AlreadyApplied", "post"} => writes'[d] = 1 /\ ~Pending(d)'
                        /\ wire'[d] \in {"RolledBack", "pre"} => writes'[d] = 0 /\ ~Pending(d)'
      BY DEF AnswerIsFinal
    <2>1. CASE d = c /\ h.awaited
      <3>1. wire'[d] = a BY <1>1, <1>3, <2>1 DEF TypeOK
      <3> QED BY <1>4, <1>8, <2>1, <3>1 DEF h
    <2>2. CASE d # c \/ ~h.awaited
      <3>1. wire'[d] = wire[d] BY <1>1, <1>3, <2>2 DEF TypeOK
      <3>2. ASSUME pc[d] = "apply" /\ wire[d] \in {"unsent", "sent"}
            PROVE  /\ writes'[d] = 0
                   /\ \A i \in 1..Len(queue') :
                        queue'[i].change = d /\ queue'[i].op = "apply" => queue'[i].awaited
        <4>1. /\ writes[d] = 0
              /\ \A i \in 1..Len(queue) :
                   queue[i].change = d /\ queue[i].op = "apply" => queue[i].awaited
          BY <3>2 DEF IInv, AnswerIsFinal
        <4>2. d = c => h.op # "apply" BY SMTT(30), <1>2, <2>2, <4>1 DEF h
        <4> QED BY <1>2, <4>1, <4>2 DEF h
      <3>3. wire[d] \in {"Applied", "AlreadyApplied", "post", "RolledBack", "pre"} =>
                ~Pending(d) /\ writes'[d] = writes[d]
        <4>1. wire[d] \in {"Applied", "AlreadyApplied", "post", "RolledBack", "pre"} => ~Pending(d)
          BY DEF IInv, AnswerIsFinal
        <4> QED BY <1>9, <4>1 DEF h
      <3>4. /\ wire[d] \in {"Applied", "AlreadyApplied", "post"} => writes[d] = 1
            /\ wire[d] \in {"RolledBack", "pre"} => writes[d] = 0
        BY DEF IInv, AnswerIsFinal
      <3> QED BY <1>6, <3>1, <3>2, <3>3, <3>4
    <2> QED BY <2>1, <2>2
  <1> QED BY <1>10, <1>11, <1>12, <1>13, <1>14, <1>15 DEF IInv

\* The answers of a preflight are true of the scene
LEMMA PreflightTells ==
    ASSUME IInv, NEW c \in Change, NEW a \in PreflightAnswers(c)
    PROVE  /\ a \in Answers
           /\ a = "pre" => scene = bound[c] /\ effect[c] = "before" /\ writes[c] = 0
           /\ a = "post" => writes[c] = 1
           /\ a \notin {"Applied", "AlreadyApplied", "RolledBack"}
  <1>1. effect[c] \in Effects BY DEF IInv, TypeOK
  <1>2. FactsOf(c) \in {"elsewhere", "pre", "post", "neither"}
           /\ (FactsOf(c) = "pre" => scene = bound[c] /\ effect[c] = "before")
           /\ (FactsOf(c) = "post" => effect[c] = "after")
    BY <1>1 DEF FactsOf, Effects
  <1>3. a \in {"stale", FactsOf(c)} BY DEF PreflightAnswers
  <1> QED BY <1>2, <1>3 DEF IInv, EffectTellsWrites, Answers, Facts, Permanent

\* What the executor's receipt cache can answer
LEMMA CacheTypes ==
    ASSUME IInv, NEW c \in Change
    PROVE  /\ cache \in Seq([change : Change, status : Statuses]) /\ Len(cache) \in Nat
           /\ Len(cache) <= CacheMax
           /\ \A i \in 1..Len(cache) : cache[i].change \in Change
           /\ \A status \in CachedStatus(c) :
                /\ status \in {"Applied", "RolledBack", "CriticalRecovery"}
                /\ status = "Applied" => writes[c] = 1
                /\ status = "RolledBack" => writes[c] = 0
           /\ CachedStatus(c) = {} => \A i \in 1..Len(cache) : cache[i].change # c
  <1> DEFINE R == [change : Change, status : Statuses]
  <1>1. cache \in Seq(R) /\ Len(cache) \in Nat /\ Len(cache) <= CacheMax BY DEF IInv, TypeOK
  <1> HIDE DEF R
  <1>2. \A i \in 1..Len(cache) : cache[i] \in R BY <1>1
  <1>3. \A i \in 1..Len(cache) : cache[i].change \in Change BY <1>2 DEF R
  <1> QED BY <1>1, <1>3 DEF R, CachedStatus, IInv, CacheTellsWrites

\* A transaction on a change that is not cached leaves the cache true of it
LEMMA CacheGrows ==
    ASSUME IInv, NEW c \in Change, CachedStatus(c) = {},
           NEW status \in {"Applied", "RolledBack", "CriticalRecovery"}, cache' = Cache(c, status),
           \A d \in Change : d # c => writes'[d] = writes[d],
           status = "Applied" => writes'[c] = 1, status = "RolledBack" => writes'[c] = 0
    PROVE  /\ cache' \in Seq([change : Change, status : Statuses]) /\ Len(cache') <= CacheMax
           /\ CacheTellsWrites'
  <1> DEFINE R == [change : Change, status : Statuses]
             r == [change |-> c, status |-> status]
             longer == Append(cache, r)
  <1>1. /\ cache \in Seq(R) /\ Len(cache) \in Nat /\ Len(cache) <= CacheMax /\ CacheMax \in Nat \ {0}
        /\ \A i \in 1..Len(cache) : cache[i].change \in Change /\ cache[i].change # c
    BY CacheTypes
  <1>2. r \in R /\ r.change = c /\ r.status = status BY DEF Statuses
  <1> HIDE DEF r, R
  <1>3. /\ longer \in Seq(R) /\ Len(longer) = Len(cache) + 1
        /\ \A i \in 1..Len(cache) : longer[i] = cache[i]
        /\ longer[Len(cache) + 1] = r
    BY <1>1, <1>2
  <1> DEFINE OK(e) == /\ e.status \in {"Applied", "RolledBack", "CriticalRecovery"}
                      /\ e.status = "Applied" => writes'[e.change] = 1
                      /\ e.status = "RolledBack" => writes'[e.change] = 0
  <1>4. \A i \in 1..Len(longer) : OK(longer[i])
    <2>1. \A i \in 1..Len(cache) : OK(cache[i]) BY <1>1 DEF IInv, CacheTellsWrites
    <2>2. OK(r) BY <1>2
    <2>3. \A i \in 1..Len(longer) : i \in 1..Len(cache) \/ i = Len(cache) + 1 BY <1>1, <1>3
    <2> HIDE DEF OK
    <2> QED BY <1>3, <2>1, <2>2, <2>3
  <1>5. cache' = IF Len(longer) > CacheMax THEN Tail(longer) ELSE longer BY DEF Cache, r
  <1> HIDE DEF OK, longer
  <1>6. cache' \in Seq(R) /\ Len(cache') <= CacheMax /\ \A i \in 1..Len(cache') : OK(cache'[i])
    <2>1. CASE Len(longer) > CacheMax
      <3>1. longer # <<>> BY <1>1, <1>3
      <3>2. /\ Tail(longer) \in Seq(R) /\ Len(Tail(longer)) = Len(longer) - 1
            /\ \A i \in 1..Len(Tail(longer)) : Tail(longer)[i] = longer[i + 1]
        BY <1>3, <3>1, HeadTailProperties
      <3>3. \A i \in 1..Len(Tail(longer)) : i + 1 \in 1..Len(longer) BY <1>1, <1>3, <3>2
      <3>4. cache' = Tail(longer) BY <1>5, <2>1
      <3> QED BY <1>1, <1>3, <1>4, <3>2, <3>3, <3>4
    <2>2. CASE ~(Len(longer) > CacheMax)
      BY <1>1, <1>3, <1>4, <1>5, <2>2
    <2> QED BY <2>1, <2>2
  <1> QED BY <1>6 DEF CacheTellsWrites, OK, R

\* Houdini serves the head of the queue: the only step that writes
LEMMA PumpKeeps ==
    ASSUME IInv, Pump
    PROVE  IInv'
  <1> DEFINE c == Head(queue).change
             op == Head(queue).op
  <1>1. /\ queue # <<>> /\ c \in Change
        /\ UNCHANGED <<durable, late, phase, todo, asked, pc, retry, incidents, scene>>
    <2>1. queue # <<>> /\ UNCHANGED <<durable, late, phase, todo, asked, pc, retry, incidents, scene>>
      BY DEF Pump
    <2>2. queue \in Seq(Entry) BY EntryTypes DEF IInv
    <2>3. Head(queue) \in Entry BY <2>1, <2>2
    <2> QED BY <2>1, <2>3 DEF Entry
  <1>2. TypeOK /\ EffectTellsWrites /\ CacheTellsWrites BY DEF IInv
  <1> HIDE DEF c
  <1>3. ASSUME UNCHANGED <<cache, frozen, effect, writes>>, NEW a \in Answers, Answer(a),
               a \in {"Applied", "AlreadyApplied", "post"} => writes[c] = 1,
               a \in {"RolledBack", "pre"} => writes[c] = 0
        PROVE  IInv'
    <2>1. EffectTellsWrites' /\ CacheTellsWrites'
      BY <1>2, <1>3 DEF EffectTellsWrites, CacheTellsWrites
    <2>2. /\ frozen' \in BOOLEAN /\ effect' \in [Change -> Effects] /\ writes' \in [Change -> Nat]
          /\ cache' \in Seq([change : Change, status : Statuses]) /\ Len(cache') <= CacheMax
      BY <1>2, <1>3 DEF TypeOK
    <2> QED BY <1>1, <1>3, <2>1, <2>2, AnswerKeeps DEF c
  <1>4. CASE op = "apply" /\ ApplyRefused(c)
    <2>1. UNCHANGED <<cache, frozen, effect, writes>> BY <1>4 DEF ApplyRefused
    <2>2. CASE Answer("refused")
      <3>1. "refused" \in Answers BY DEF Answers, Permanent
      <3> QED BY <1>3, <2>1, <2>2, <3>1
    <2>3. ASSUME NEW status \in CachedStatus(c),
                 Answer(IF status \in {"Applied", "AlreadyApplied"} THEN "AlreadyApplied" ELSE status)
          PROVE  IInv'
      <3> DEFINE a == IF status \in {"Applied", "AlreadyApplied"} THEN "AlreadyApplied" ELSE status
      <3>1. /\ status \in {"Applied", "RolledBack", "CriticalRecovery"}
            /\ status = "Applied" => writes[c] = 1
            /\ status = "RolledBack" => writes[c] = 0
        BY <1>1, CacheTypes
      <3>2. /\ a \in Answers
            /\ a \in {"Applied", "AlreadyApplied", "post"} => writes[c] = 1
            /\ a \in {"RolledBack", "pre"} => writes[c] = 0
        BY <3>1 DEF Answers, Statuses
      <3>3. Answer(a) BY <2>3
      <3> HIDE DEF a
      <3> QED BY <1>3, <2>1, <3>2, <3>3
    <2> QED BY <1>4, <2>2, <2>3 DEF ApplyRefused
  <1>5. CASE op = "apply" /\ ApplyTransaction(c)
    <2>1. PICK status \in Statuses \ {"AlreadyApplied"}, e \in Effects :
            /\ e \in EffectsOf(status)
            /\ effect' = [effect EXCEPT ![c] = e]
            /\ writes' = [writes EXCEPT ![c] = IF e = "before" THEN @ ELSE @ + 1]
            /\ frozen' = (status = "CriticalRecovery")
            /\ cache' = Cache(c, status)
            /\ Answer(status)
      BY <1>5 DEF ApplyTransaction
    <2>2. CachedStatus(c) = {} /\ PreflightAnswers(c) = {"pre"} BY <1>5 DEF ApplyTransaction
    <2>3. "pre" \in PreflightAnswers(c) BY <2>2
    <2>4. effect[c] = "before" /\ writes[c] = 0 BY <1>1, <2>3, PreflightTells
    <2>5. status \in {"Applied", "RolledBack", "CriticalRecovery"} /\ status \in Answers
      BY DEF Statuses, Answers
    <2>6. /\ status = "Applied" => e = "after"
          /\ status = "RolledBack" => e = "before"
          /\ e # "foreign"
      BY <2>1, <2>5 DEF EffectsOf
    <2>7. writes' = [writes EXCEPT ![c] = IF e = "before" THEN 0 ELSE 1]
      BY <1>1, <1>2, <2>1, <2>4 DEF TypeOK
    <2>8. /\ effect' \in [Change -> Effects] /\ writes' \in [Change -> Nat] /\ frozen' \in BOOLEAN
          /\ \A d \in Change : d # c => writes'[d] = writes[d]
          /\ writes'[c] = IF e = "before" THEN 0 ELSE 1
      BY <1>1, <1>2, <2>1, <2>7 DEF TypeOK
    <2>9. EffectTellsWrites'
      BY <1>1, <1>2, <2>1, <2>6, <2>8 DEF TypeOK, EffectTellsWrites, Effects
    <2>10. /\ status = "Applied" => writes'[c] = 1
           /\ status = "RolledBack" => writes'[c] = 0
      BY <2>6, <2>8
    <2>11. /\ cache' \in Seq([change : Change, status : Statuses]) /\ Len(cache') <= CacheMax
           /\ CacheTellsWrites'
      BY <1>1, <2>1, <2>2, <2>5, <2>8, <2>10, CacheGrows
    <2> QED BY ZenonT(30), <1>1, <1>5, <2>1, <2>5, <2>8, <2>9, <2>10, <2>11, AnswerKeeps DEF c
  <1>6. CASE op = "receipt" /\ ReceiptQuery(c)
    <2>1. UNCHANGED <<cache, frozen, effect, writes>> BY <1>6 DEF ReceiptQuery
    <2>2. PICK a \in {"stale", "unavailable"} \cup CachedStatus(c) : Answer(a)
      BY <1>6 DEF ReceiptQuery
    <2>3. /\ a \in Answers
          /\ a \in {"Applied", "AlreadyApplied", "post"} => writes[c] = 1
          /\ a \in {"RolledBack", "pre"} => writes[c] = 0
      BY <1>1, CacheTypes DEF Answers, Statuses, Permanent
    <2> QED BY <1>3, <2>1, <2>2, <2>3
  <1>7. CASE /\ op \in {"preflight", "critical"}
             /\ \E a \in PreflightAnswers(c) : Answer(a)
             /\ UNCHANGED <<cache, frozen, effect, writes>>
    <2>1. PICK a \in PreflightAnswers(c) : Answer(a) BY <1>7
    <2>2. /\ a \in Answers
          /\ a \in {"Applied", "AlreadyApplied", "post"} => writes[c] = 1
          /\ a \in {"RolledBack", "pre"} => writes[c] = 0
      BY <1>1, PreflightTells
    <2> QED BY <1>3, <1>7, <2>1, <2>2
  <1> QED BY <1>4, <1>5, <1>6, <1>7 DEF Pump, c

-----------------------------------------------------------------------------
(* The theorems *)

\* Every step keeps the invariant, one case per group of actions
LEMMA NextIInv == IInv /\ [Next]_vars => IInv'
  <1> SUFFICES ASSUME IInv, [Next]_vars PROVE IInv' OBVIOUS
  <1>1. ASSUME NEW c \in Change, Task(c) PROVE IInv'
    BY <1>1, MovesKeep, BeginKeeps, SendKeeps, CallFailsKeeps, ReturnsKeep DEF Task
  <1>2. ASSUME NEW c \in Change, User(c) PROVE IInv'
    BY <1>2, DecisionsKeep, MovesKeep, EnvironmentKeeps DEF User
  <1>3. ASSUME NEW c \in Change, Expire(c) \/ StartupRecover(c) \/ EditScene(c) PROVE IInv'
    BY <1>3, MovesKeep, EnvironmentKeeps
  <1>4. CASE StartupDone \/ Crash \/ Pump \/ DropAbandoned \/ LoadScene \/ RestartHoudini
    BY <1>4, EnvironmentKeeps, CrashKeeps, PumpKeeps
  <1>5. CASE UNCHANGED vars
    <2> USE <1>5 DEF vars, durable, tasks, houdini
    <2>1. TypeOK' BY DEF IInv, TypeOK
    <2>2. Consent' /\ TaskInStep' /\ RecordsAgree' /\ SceneInBounds' /\ EffectTellsWrites' /\ CacheTellsWrites'
      BY DEF IInv, Consent, TaskInStep, RecordsAgree, SceneInBounds, EffectTellsWrites, CacheTellsWrites
    <2>3. AwaitedIsLast' /\ AnswerIsFinal' /\ OutcomeIsTruth'
      BY DEF IInv, AwaitedIsLast, AnswerIsFinal, OutcomeIsTruth, Pending
    <2> QED BY <2>1, <2>2, <2>3 DEF IInv
  <1> QED BY <1>1, <1>2, <1>3, <1>4, <1>5 DEF Next

\* The inductive invariant of the approval lifecycle holds in every reachable state:
\* consent, task, queue, receipt cache and recorded outcome agree
THEOREM Invariance == Spec => []IInv
  BY InitIInv, NextIInv, PTL DEF Spec

\* complete_apply, recover_to_approved and recover_critical_to_recovered record
\* only what is true of the scene and of the other rows of the change, in every
\* interleaving of tasks, timeouts, evictions, restarts and edits.
THEOREM RecordsTrue == Spec => []RecordsAreTrue
  <1>1. IInv => RecordsAreTrue BY DEF IInv, RecordsAreTrue
  <1> QED BY <1>1, Invariance, PTL

\* However often recover_one asks and retries, a change is written once.
THEOREM WrittenOnce == Spec => []WrittenAtMostOnce
  <1>1. IInv => WrittenAtMostOnce BY DEF IInv, EffectTellsWrites, WrittenAtMostOnce
  <1> QED BY <1>1, Invariance, PTL

\* Nothing is written, queued for writing or recorded as written without a
\* consumed approval that was given in the scene the change is bound to.
THEOREM ConsentCovers == Spec => []ConsentCoversWrite
  <1>1. ASSUME IInv PROVE ConsentCoversWrite
    <2> SUFFICES ASSUME NEW c \in Change,
                        writes[c] > 0 \/ Pending(c) \/ state[c] \in {"Applying"} \cup Settled
                 PROVE  decision[c] = "Consumed" /\ approvedIn[c] = bound[c]
      BY DEF ConsentCoversWrite
    <2>1. state[c] \in States BY <1>1 DEF IInv, TypeOK
    <2>2. state[c] \in {"Applying"} \cup Settled
      BY <1>1, <2>1 DEF IInv, OutcomeIsTruth, NotWritten, Settled, States
    <2> QED BY <1>1, <2>2 DEF IInv, Consent
  <1> QED BY <1>1, Invariance, PTL
=============================================================================
