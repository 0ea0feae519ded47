----------------------- MODULE MainThreadQueueProofs ------------------------
(***************************************************************************)
(* The main-thread queue keeps its promises for any number of requests,    *)
(* any ids the clients choose and any capacity.                            *)
(*                                                                         *)
(* An entry is in one place at a time: queued, in the pump's hands, or in  *)
(* a scheduled callback (HeldOnce).  Everything else is said of the entry  *)
(* where it is: what the answer on its way may claim (AnswersTrue), that   *)
(* the queue is the tail of what was accepted (InOrder), and what a        *)
(* stopping host has already put out of the pump's reach (Stopping).       *)
(***************************************************************************)
EXTENDS MainThreadQueue, SequencesExt, SequenceTheorems, FiniteSetTheorems, TLAPS

\* RemoveAt takes out one element and keeps the order of the others
LEMMA RemoveAtProperties ==
    ASSUME NEW S, NEW s \in Seq(S), NEW k \in 1..Len(s)
    PROVE  /\ RemoveAt(s, k) \in Seq(S)
           /\ Len(RemoveAt(s, k)) = Len(s) - 1
           /\ \A i \in 1..Len(s) - 1 : RemoveAt(s, k)[i] = s[IF i < k THEN i ELSE i + 1]
  <1>1. PICK l, r : l = SubSeq(s, 1, k - 1) /\ r = SubSeq(s, k + 1, Len(s)) OBVIOUS
  <1>2. l \in Seq(S) /\ Len(l) = k - 1 /\ \A i \in 1..k - 1 : l[i] = s[i] BY <1>1
  <1>3. r \in Seq(S) /\ Len(r) = Len(s) - k /\ \A i \in 1..Len(s) - k : r[i] = s[k + i] BY <1>1
  <1>4. PICK q : /\ q = RemoveAt(s, k) /\ q \in Seq(S) /\ Len(q) = Len(l) + Len(r)
                 /\ \A i \in 1..Len(l) + Len(r) : q[i] = IF i <= Len(l) THEN l[i] ELSE r[i - Len(l)]
    <2>1. /\ l \o r \in Seq(S) /\ Len(l \o r) = Len(l) + Len(r)
          /\ \A i \in 1..Len(l) + Len(r) : (l \o r)[i] = IF i <= Len(l) THEN l[i] ELSE r[i - Len(l)]
      BY <1>2, <1>3, ConcatProperties
    <2>2. RemoveAt(s, k) = l \o r BY <1>1 DEF RemoveAt
    <2> QED BY <2>1, <2>2, Zenon
  <1>5. Len(s) \in Nat /\ Len(q) = Len(s) - 1 BY <1>2, <1>3, <1>4
  <1>6. ASSUME NEW i \in 1..Len(s) - 1 PROVE q[i] = s[IF i < k THEN i ELSE i + 1]
    <2>1. q[i] = IF i <= k - 1 THEN l[i] ELSE r[i - (k - 1)] BY <1>2, <1>3, <1>4
    <2>2. CASE i < k BY <1>2, <2>1, <2>2
    <2>3. CASE ~(i < k)
      <3>1. i - (k - 1) \in 1..Len(s) - k /\ k + (i - (k - 1)) = i + 1 /\ ~(i <= k - 1) BY <1>5, <2>3
      <3> QED BY <1>3, <2>1, <2>3, <3>1
    <2> QED BY <2>2, <2>3
  <1> QED BY <1>4, <1>5, <1>6

\* s \o t is s followed by t and nothing else
LEMMA ConcatParts ==
    ASSUME NEW S, NEW s \in Seq(S), NEW t \in Seq(S)
    PROVE  /\ s \o t \in Seq(S) /\ Len(s \o t) = Len(s) + Len(t)
           /\ \A i \in 1..Len(s) : i \in 1..Len(s \o t) /\ (s \o t)[i] = s[i]
           /\ \A j \in 1..Len(t) : Len(s) + j \in 1..Len(s \o t) /\ (s \o t)[Len(s) + j] = t[j]
           /\ \A i \in 1..Len(s \o t) : i \in 1..Len(s) \/ \E j \in 1..Len(t) : i = Len(s) + j
  <1> DEFINE c == s \o t
             n == Len(s)
             m == Len(t)
  <1>0. n \in Nat /\ m \in Nat OBVIOUS
  <1>1. /\ c \in Seq(S) /\ Len(c) = n + m
        /\ \A i \in 1..n + m : c[i] = IF i <= n THEN s[i] ELSE t[i - n]
    BY ConcatProperties
  <1> HIDE DEF c, n, m
  <1>2. \A i \in 1..n : i \in 1..Len(c) /\ c[i] = s[i] BY <1>0, <1>1
  <1>3. \A j \in 1..m : n + j \in 1..Len(c) /\ c[n + j] = t[j]
    <2> TAKE j \in 1..m
    <2>1. n + j \in 1..n + m /\ ~(n + j <= n) /\ (n + j) - n = j BY <1>0
    <2> QED BY <1>1, <2>1
  <1>4. \A i \in 1..Len(c) : i \in 1..n \/ \E j \in 1..m : i = n + j
    <2> TAKE i \in 1..Len(c)
    <2>1. CASE i <= n BY <1>0, <1>1, <2>1
    <2>2. CASE ~(i <= n)
      <3>1. i - n \in 1..m /\ i = n + (i - n) BY <1>0, <1>1, <2>2
      <3> QED BY <3>1
    <2> QED BY <2>1, <2>2
  <1> QED BY <1>1, <1>2, <1>3, <1>4 DEF c, n, m

(* Where the pump stands tells what it holds *)
Stages ==
    /\ main = "operation" <=> running # NoEntry
    /\ running # NoEntry => popped.entry = running
    /\ popped.entry # NoEntry <=> main \in {"operation", "resolve"}
    /\ popped.outcome # "none" <=> main = "resolve"

(* Whoever stops the bridge empties the queue for good before the adapter goes *)
Stopping ==
    /\ shut => pending = <<>>
    /\ loop # "serving" \/ main \in {"stopping", "stopped"} => shut
    /\ ~adapterOpen => shut /\ running = NoEntry
    /\ loop = "exited" => callbacks = <<>>

Queued(e) == \E i \in 1..Len(pending) : pending[i] = e
Called(e) == \E i \in 1..Len(callbacks) : callbacks[i][1] = e
Ran(e) == \E i \in 1..Len(started) : started[i] = e
Accepted(e) == \E i \in 1..Len(accepted) : accepted[i] = e

(* The queue, the pump and the callbacks never hold the same entry, no two *)
(* callbacks do, and only unsettled entries are held -- all of them, while *)
(* the loop lives.                                                         *)
HeldOnce ==
    /\ \A i, j \in 1..Len(pending) : pending[i] = pending[j] => i = j
    /\ \A i, j \in 1..Len(callbacks) : callbacks[i][1] = callbacks[j][1] => i = j
    /\ \A e \in Entry : Queued(e) => ~Called(e) /\ popped.entry # e
    /\ \A e \in Entry : Called(e) => popped.entry # e
    /\ \A e \in Entry :
          Queued(e) \/ Called(e) \/ popped.entry = e => future[e] = "pending"
    /\ \A e \in Entry :
          future[e] = "pending" /\ loop # "exited" =>
              Queued(e) \/ Called(e) \/ popped.entry = e

(* The answer o to e says what happened to e *)
AnswerTrue(e, o) ==
    /\ o \in {"expired", "rejected"} => ~Ran(e)
    /\ o \in {"completed", "failed"} => Ran(e)
    /\ o = "cancelled" => (Ran(e) <=> e \in discard)
    /\ o = "completed" => e \notin cancelled

(* Every answer is true: given, scheduled, or in the pump's hands.  What   *)
(* is still queued has not run and was not cancelled.                      *)
AnswersTrue ==
    /\ \A e \in Entry :
          Queued(e) \/ future[e] \in {"none", "refused"} =>
              ~Ran(e) /\ e \notin cancelled /\ e \notin discard
    /\ \A i \in 1..Len(callbacks) : AnswerTrue(callbacks[i][1], callbacks[i][2])
    /\ main = "operation" =>
          Ran(popped.entry) /\ (popped.entry \in cancelled => popped.entry \in discard)
    /\ main = "resolve" => AnswerTrue(popped.entry, popped.outcome)
    /\ \A e \in Entry : AnswerTrue(e, future[e])

Before(s, x, y) == \E m, n \in 1..Len(s) : m < n /\ s[m] = x /\ s[n] = y

(* The queue continues, in the order of acceptance, what has started *)
InOrder ==
    /\ \A e \in Entry : Queued(e) \/ Ran(e) => Accepted(e)
    /\ \A i, j \in 1..Len(pending) : i < j => Before(accepted, pending[i], pending[j])
    /\ \A i \in 1..Len(started) : \A j \in 1..Len(pending) :
          Before(accepted, started[i], pending[j])
    /\ \A i, j \in 1..Len(started) : i < j => Before(accepted, started[i], started[j])

IInv == TypeOK /\ Stages /\ Stopping /\ HeldOnce /\ AnswersTrue /\ InOrder
            /\ UniqueAndBounded

----------------------------------------------------------------------------
(* Facts of one state *)

\* The types, in the form the steps use them
LEMMA Typing ==
    ASSUME IInv
    PROVE  /\ pending \in Seq(Entry) /\ started \in Seq(Entry) /\ accepted \in Seq(Entry)
           /\ callbacks \in Seq(Entry \X Outcome)
           /\ Len(pending) \in Nat /\ Len(started) \in Nat /\ Len(accepted) \in Nat
           /\ Len(callbacks) \in Nat
           /\ \A i \in 1..Len(pending) : pending[i] \in Entry
           /\ \A i \in 1..Len(started) : started[i] \in Entry
           /\ \A i \in 1..Len(callbacks) :
                 callbacks[i] \in Entry \X Outcome /\ callbacks[i][1] \in Entry
                    /\ callbacks[i][2] \in Outcome
           /\ NoEntry \notin Entry
           /\ \A e \in Entry : IdOf[e] \in RequestId
  BY NoEntryAssumption, IdAssumption DEF IInv, TypeOK

\* With one place for each entry, the number of its holders is what the code promises
LEMMA HeldOnceCounts ==
    ASSUME IInv
    PROVE  SettledExactlyOnce
  <1> SUFFICES ASSUME NEW e \in Entry
               PROVE  Cardinality(Holders(e)) =
                        IF future[e] = "pending" /\ (loop # "exited" \/ Holders(e) # {})
                        THEN 1 ELSE 0
    BY DEF SettledExactlyOnce
  <1>1. \A h \in Holders(e) :
           \/ \E i \in 1..Len(pending) : pending[i] = e /\ h = <<"pending", i>>
           \/ \E i \in 1..Len(callbacks) : callbacks[i][1] = e /\ h = <<"callback", i>>
           \/ popped.entry = e /\ h = <<"pump", 0>>
    BY DEF Holders
  <1>2. \A g, h \in Holders(e) : g = h
    BY <1>1 DEF IInv, HeldOnce, Queued, Called
  <1>3. Holders(e) # {} <=> Queued(e) \/ Called(e) \/ popped.entry = e
    <2>1. Queued(e) => Holders(e) # {} BY DEF Holders, Queued
    <2>2. Called(e) => Holders(e) # {} BY DEF Holders, Called
    <2>3. popped.entry = e => <<"pump", 0>> \in Holders(e) BY DEF Holders
    <2> QED BY <1>1, <2>1, <2>2, <2>3 DEF Queued, Called
  <1>4. CASE Holders(e) = {}
    <2>1. Cardinality(Holders(e)) = 0 BY <1>4, FS_EmptySet
    <2> QED BY <1>3, <1>4, <2>1 DEF IInv, HeldOnce
  <1>5. CASE Holders(e) # {}
    <2>1. PICK h : Holders(e) = {h} BY <1>2, <1>5
    <2>2. Cardinality(Holders(e)) = 1 BY <2>1, FS_Singleton
    <2> QED BY <1>3, <1>5, <2>2 DEF IInv, HeldOnce
  <1> QED BY <1>4, <1>5

\* What has started, as a set
LEMMA RanIsRange ==
    ASSUME IInv, NEW e
    PROVE  e \in Range(started) <=> Ran(e)
  BY Typing DEF Range, Ran

\* The invariant holds what the runs check
LEMMA IInvSays ==
    ASSUME IInv
    PROVE  InTurnAndOnce /\ ReportAgreesWithScene /\ AdapterOutlivesOperation
  <1>1. NoResultAfterCancel
    <2>1. \A e \in cancelled : e \in Entry BY DEF IInv, TypeOK
    <2>2. \A e \in Entry : e \in cancelled => future[e] # "completed"
      BY DEF IInv, AnswersTrue, AnswerTrue
    <2>3. \A e \in Entry : \A i \in 1..Len(callbacks) :
             e \in cancelled => callbacks[i] # <<e, "completed">>
      <3> TAKE e \in Entry
      <3> TAKE i \in 1..Len(callbacks)
      <3> QED BY DEF IInv, AnswersTrue, AnswerTrue
    <2> QED BY <2>1, <2>2, <2>3 DEF NoResultAfterCancel
  <1>2. InTurnAndOnce BY <1>1, HeldOnceCounts
          DEF IInv, InOrder, StartsInOrder, Before, InTurnAndOnce
  <1>3. ReportAgreesWithScene
    BY RanIsRange DEF ReportAgreesWithScene, IInv, AnswersTrue, AnswerTrue
  <1>4. AdapterOutlivesOperation BY DEF AdapterOutlivesOperation, IInv, Stopping
  <1> QED BY <1>2, <1>3, <1>4

\* The invariant holds at the start
LEMMA InitIInv == Init => IInv
  <1> SUFFICES ASSUME Init PROVE IInv OBVIOUS
  <1>1. TypeOK
    <2>1. \A S : <<>> \in Seq(S) OBVIOUS
    <2>2. popped \in [entry : Entry \cup {NoEntry}, outcome : Outcome \cup {"none"}]
      BY DEF Init
    <2>3. future \in [Entry -> Outcome \cup {"none", "pending", "refused"}] BY DEF Init
    <2> QED BY <2>1, <2>2, <2>3 DEF Init, TypeOK
  <1>2. Len(pending) = 0 /\ Len(callbacks) = 0 /\ Len(started) = 0 BY DEF Init
  <1>3. Stages /\ Stopping BY NoEntryAssumption DEF Init, Stages, Stopping
  <1>4. HeldOnce BY <1>2, NoEntryAssumption DEF Init, HeldOnce, Queued, Called
  <1>5. AnswersTrue BY <1>2 DEF Init, AnswersTrue, AnswerTrue, Queued, Ran
  <1>6. InOrder BY <1>2 DEF InOrder, Queued, Ran
  <1>7. UniqueAndBounded BY <1>2, CapacityAssumption DEF Init, UniqueAndBounded
  <1> QED BY <1>1, <1>3, <1>4, <1>5, <1>6, <1>7 DEF IInv

----------------------------------------------------------------------------
(* Facts of one change of a sequence *)

\* call_soon_threadsafe puts the answers behind those already scheduled, or nowhere
LEMMA Schedules ==
    ASSUME IInv, NEW es \in Seq(Entry), NEW o \in Outcome, Resolve(es, o),
           \A i, j \in 1..Len(es) : es[i] = es[j] => i = j,
           \A i \in 1..Len(es) : ~Called(es[i])
    PROVE  /\ callbacks' \in Seq(Entry \X Outcome)
           /\ loop = "exited" => callbacks' = callbacks
           /\ \A i, j \in 1..Len(callbacks') : callbacks'[i][1] = callbacks'[j][1] => i = j
           /\ \A e \in Entry :
                 Called(e)' <=> \/ Called(e)
                                \/ loop # "exited" /\ \E i \in 1..Len(es) : es[i] = e
           /\ \A i \in 1..Len(callbacks') :
                 \/ \E j \in 1..Len(callbacks) : callbacks'[i] = callbacks[j]
                 \/ \E j \in 1..Len(es) : callbacks'[i][1] = es[j] /\ callbacks'[i][2] = o
  <1> DEFINE more == [i \in 1..Len(es) |-> <<es[i], o>>]
             C == Entry \X Outcome
             n == Len(callbacks)
             m == Len(es)
             at(j) == n + j
  <1>0. n \in Nat /\ m \in Nat /\ callbacks \in Seq(C) BY Typing
  <1>1. CASE loop = "exited"
    <2>1. callbacks' = callbacks BY <1>1 DEF Resolve
    <2> QED BY <1>0, <1>1, <2>1 DEF IInv, HeldOnce, Called
  <1>2. CASE loop # "exited"
    <2>1. callbacks' = callbacks \o more BY <1>2 DEF Resolve
    <2>2. /\ more \in Seq(C) /\ Len(more) = m
          /\ \A i \in 1..m : more[i] = <<es[i], o>> /\ more[i][1] = es[i] /\ more[i][2] = o
      <3>1. \A i \in 1..m : es[i] \in Entry BY ElementOfSeq
      <3>2. more \in [1..m -> C] BY <3>1
      <3>3. more \in Seq(C) /\ Len(more) = m BY <1>0, <3>2
      <3> QED BY <3>1, <3>3
    <2> HIDE DEF more, C
    <2>3. /\ callbacks' \in Seq(C)
          /\ \A i \in 1..n : i \in 1..Len(callbacks') /\ callbacks'[i] = callbacks[i]
          /\ \A j \in 1..m : at(j) \in 1..Len(callbacks') /\ callbacks'[at(j)] = more[j]
          /\ \A i \in 1..Len(callbacks') : i \in 1..n \/ \E j \in 1..m : i = at(j)
      BY <1>0, <2>1, <2>2, ConcatParts
    <2> HIDE DEF at
    <2>4. /\ \A i \in 1..n : callbacks'[i][1] = callbacks[i][1]
          /\ \A j \in 1..m : callbacks'[at(j)][1] = es[j] /\ callbacks'[at(j)][2] = o
      BY <2>2, <2>3
    <2>5. /\ \A i \in 1..n : \A j \in 1..m : callbacks[i][1] # es[j]
          /\ \A i, j \in 1..n : callbacks[i][1] = callbacks[j][1] => i = j
      BY DEF Called, IInv, HeldOnce
    <2>6. \A i, j \in 1..Len(callbacks') : callbacks'[i][1] = callbacks'[j][1] => i = j
      <3> SUFFICES ASSUME NEW i \in 1..Len(callbacks'), NEW j \in 1..Len(callbacks'),
                          callbacks'[i][1] = callbacks'[j][1]
                   PROVE  i = j
        OBVIOUS
      <3>1. CASE i \in 1..n /\ j \in 1..n BY <2>4, <2>5, <3>1
      <3>2. CASE i \in 1..n /\ j \notin 1..n BY <2>3, <2>4, <2>5, <3>2
      <3>3. CASE i \notin 1..n /\ j \in 1..n BY <2>3, <2>4, <2>5, <3>3
      <3>4. CASE i \notin 1..n /\ j \notin 1..n BY <2>3, <2>4, <3>4
      <3> QED BY <3>1, <3>2, <3>3, <3>4
    <2>7. \A e \in Entry : Called(e)' <=> Called(e) \/ \E i \in 1..m : es[i] = e
      <3> TAKE e \in Entry
      <3>1. ASSUME Called(e)' PROVE Called(e) \/ \E i \in 1..m : es[i] = e
        <4>1. PICK i \in 1..Len(callbacks') : callbacks'[i][1] = e BY <3>1 DEF Called
        <4>2. CASE i \in 1..n
          <5>1. callbacks[i][1] = e BY <2>4, <4>1, <4>2
          <5> QED BY <4>2, <5>1 DEF Called
        <4>3. CASE i \notin 1..n BY <2>3, <2>4, <4>1, <4>3
        <4> QED BY <4>2, <4>3
      <3>2. ASSUME Called(e) PROVE Called(e)' BY <2>3, <2>4, <3>2 DEF Called
      <3>3. ASSUME NEW i \in 1..m, es[i] = e PROVE Called(e)' BY <2>3, <2>4, <3>3 DEF Called
      <3> QED BY <3>1, <3>2, <3>3
    <2>8. \A i \in 1..Len(callbacks') :
             \/ \E j \in 1..n : callbacks'[i] = callbacks[j]
             \/ \E j \in 1..m : callbacks'[i][1] = es[j] /\ callbacks'[i][2] = o
      BY SMTT(30), <2>3, <2>4
    <2> QED BY <1>2, <2>3, <2>6, <2>7, <2>8 DEF C
  <1> QED BY <1>1, <1>2

\* One entry leaves the queue, the others keep their order
LEMMA QueueThins ==
    ASSUME IInv, NEW k \in 1..Len(pending), pending' \in Seq(Entry),
           Len(pending') = Len(pending) - 1,
           \A i \in 1..Len(pending) - 1 : pending'[i] = pending[IF i < k THEN i ELSE i + 1]
    PROVE  /\ \A e \in Entry : Queued(e)' <=> Queued(e) /\ e # pending[k]
           /\ \A i, j \in 1..Len(pending') : pending'[i] = pending'[j] => i = j
           /\ \A i, j \in 1..Len(pending') : i # j => IdOf[pending'[i]] # IdOf[pending'[j]]
           /\ Len(pending') <= Capacity
           /\ \A i, j \in 1..Len(pending') : i < j => Before(accepted, pending'[i], pending'[j])
           /\ \A i \in 1..Len(pending') : \E j \in 1..Len(pending) :
                 j # k /\ pending'[i] = pending[j] /\ (k = 1 => j = i + 1)
  <1> DEFINE at(i) == IF i < k THEN i ELSE i + 1
             n == Len(pending)
  <1>0. n \in Nat /\ k \in 1..n /\ Capacity \in Nat BY Typing, CapacityAssumption
  <1>1. \A i \in 1..n - 1 : at(i) \in 1..n /\ at(i) # k /\ (k = 1 => at(i) = i + 1) BY <1>0
  <1>2. \A i, j \in 1..n - 1 : i < j => at(i) < at(j) BY <1>0
  <1>3. \A i, j \in 1..n - 1 : i # j => at(i) # at(j) BY <1>0
  <1>4. \A j \in 1..n : j # k => \E i \in 1..n - 1 : at(i) = j
    <2> SUFFICES ASSUME NEW j \in 1..n, j # k PROVE \E i \in 1..n - 1 : at(i) = j OBVIOUS
    <2>1. CASE j < k BY <1>0, <2>1
    <2>2. CASE j > k
      <3>1. j - 1 \in 1..n - 1 /\ at(j - 1) = j BY <1>0, <2>2
      <3> QED BY <3>1
    <2> QED BY <1>0, <2>1, <2>2
  <1>5. \A i \in 1..n - 1 : pending'[i] = pending[at(i)] OBVIOUS
  <1> HIDE DEF at
  <1>6. \A e \in Entry : Queued(e)' <=> Queued(e) /\ e # pending[k]
    <2> TAKE e \in Entry
    <2>1. ASSUME Queued(e)' PROVE Queued(e) /\ e # pending[k]
      BY <1>0, <1>1, <1>5, <2>1 DEF IInv, HeldOnce, Queued
    <2>2. ASSUME Queued(e), e # pending[k] PROVE Queued(e)'
      BY <1>4, <1>5, <2>2 DEF Queued
    <2> QED BY <2>1, <2>2
  <1>7. \A i, j \in 1..Len(pending') : pending'[i] = pending'[j] => i = j
    BY <1>1, <1>3, <1>5 DEF IInv, HeldOnce
  <1>8. \A i, j \in 1..Len(pending') : i # j => IdOf[pending'[i]] # IdOf[pending'[j]]
    BY <1>1, <1>3, <1>5 DEF IInv, UniqueAndBounded
  <1>9. Len(pending') <= Capacity BY <1>0 DEF IInv, UniqueAndBounded
  <1>10. \A i, j \in 1..Len(pending') : i < j => Before(accepted, pending'[i], pending'[j])
    BY <1>1, <1>2, <1>5 DEF IInv, InOrder
  <1>11. \A i \in 1..Len(pending') : \E j \in 1..n :
           j # k /\ pending'[i] = pending[j] /\ (k = 1 => j = i + 1)
    BY <1>1, <1>5
  <1> QED BY <1>6, <1>7, <1>8, <1>9, <1>10, <1>11

----------------------------------------------------------------------------
(* Every step keeps the invariant *)

\* Steps that touch neither the queue, the answers nor the pump's entry
LEMMA QuietKeeps ==
    ASSUME IInv, TypeOK', Stopping',
           UNCHANGED <<queueVars, futureVars, popped, history>>,
           \/ main' = main
           \/ main \notin {"operation", "resolve"} /\ main' \notin {"operation", "resolve"},
           loop' = "exited" <=> loop = "exited"
    PROVE  IInv'
  <1> USE DEF IInv, queueVars, futureVars, history
  <1>1. Stages' BY DEF Stages
  <1>2. /\ \A e : Queued(e)' <=> Queued(e)
        /\ \A e : Called(e)' <=> Called(e)
        /\ \A e : Ran(e)' <=> Ran(e)
    BY DEF Queued, Called, Ran
  <1>3. HeldOnce' BY <1>2 DEF HeldOnce
  <1>4. \A e, o : AnswerTrue(e, o)' <=> AnswerTrue(e, o) BY <1>2 DEF AnswerTrue
  <1>5. AnswersTrue' BY <1>2, <1>4 DEF AnswersTrue
  <1>6. InOrder' BY <1>2 DEF InOrder, Accepted
  <1>7. UniqueAndBounded' BY DEF UniqueAndBounded
  <1> QED BY <1>1, <1>3, <1>5, <1>6, <1>7

\* Clients hang up and deadlines pass
LEMMA EnvironmentKeeps ==
    ASSUME IInv, NEW e \in Entry, ClientEof(e) \/ DeadlinePasses(e)
    PROVE  IInv'
  <1>1. TypeOK' BY DEF IInv, TypeOK, ClientEof, DeadlinePasses, queueVars, futureVars, mainVars,
          clientVars, hostVars, history
  <1>2. Stopping' BY DEF IInv, Stopping, ClientEof, DeadlinePasses, queueVars, futureVars,
          mainVars, hostVars
  <1> QED BY <1>1, <1>2, QuietKeeps DEF ClientEof, DeadlinePasses, mainVars, hostVars

\* The pump reads the clock, the adapter is closed, the close ends
LEMMA QuietSteps ==
    ASSUME IInv, PumpReadClock \/ HostStopAdapter \/ CloseEnd
    PROVE  IInv'
  <1> USE DEF queueVars, futureVars, mainVars, clientVars, hostVars, history
  <1>1. TypeOK' BY DEF IInv, TypeOK, PumpReadClock, HostStopAdapter, CloseEnd
  <1>2. CASE PumpReadClock
    <2>1. Stopping' BY <1>2 DEF IInv, Stopping, PumpReadClock
    <2> QED BY <1>1, <1>2, <2>1, QuietKeeps DEF PumpReadClock
  <1>3. CASE HostStopAdapter
    <2>1. running = NoEntry /\ shut BY <1>3 DEF HostStopAdapter, IInv, Stages, Stopping
    <2>2. Stopping' BY <1>3, <2>1 DEF IInv, Stopping, HostStopAdapter
    <2> QED BY <1>1, <1>3, <2>2, QuietKeeps DEF HostStopAdapter
  <1>4. CASE CloseEnd
    <2>1. running = NoEntry /\ shut
      <3>1. Len(pending) \in Nat BY Typing
      <3> QED BY <1>4, <3>1 DEF CloseEnd, PendingCount, IInv, Stopping
    <2>2. Stopping' BY <1>4, <2>1 DEF IInv, Stopping, CloseEnd
    <2> QED BY <1>1, <1>4, <2>2, QuietKeeps DEF CloseEnd
  <1> QED BY <1>2, <1>3, <1>4

\* submit
LEMMA SubmitKeeps ==
    ASSUME IInv, NEW e \in Entry, Submit(e)
    PROVE  IInv'
  <1> USE DEF queueVars, futureVars, mainVars, clientVars, hostVars, history
  <1>0. /\ future[e] = "none" /\ loop # "exited" BY DEF Submit, LoopRuns
  <1>1. ~Queued(e) /\ ~Called(e) /\ popped.entry # e BY <1>0 DEF IInv, HeldOnce
  <1>2. \A x : (Called(x)' <=> Called(x)) /\ (Ran(x)' <=> Ran(x))
    BY DEF Submit, Called, Ran
  <1>3. \A x \in Entry : future'[x] = IF x = e THEN future'[e] ELSE future[x]
    BY DEF Submit, IInv, TypeOK
  <1>4. Stages' BY DEF IInv, Stages, Submit
  <1>5. \A x, o : AnswerTrue(x, o)' <=> AnswerTrue(x, o) BY <1>2 DEF AnswerTrue, Submit
  <1>6. CASE Refuses(e)
    <2>1. /\ future' = [future EXCEPT ![e] = "refused"] /\ future'[e] = "refused"
          /\ UNCHANGED <<pending, accepted>>
      BY <1>6 DEF Submit, IInv, TypeOK
    <2>2. TypeOK' BY <2>1 DEF IInv, TypeOK, Submit
    <2>3. Stopping' BY <2>1 DEF IInv, Stopping, Submit
    <2>4. \A x : Queued(x)' <=> Queued(x) BY <2>1 DEF Queued
    <2>5. HeldOnce' BY <1>1, <1>2, <1>3, <2>1, <2>4 DEF IInv, HeldOnce, Submit
    <2>6. AnswersTrue' BY <1>0, <1>2, <1>3, <1>5, <2>1, <2>4 DEF IInv, AnswersTrue, AnswerTrue, Submit
    <2>7. InOrder' 
      <3>1. started' = started /\ \A x : Accepted(x)' <=> Accepted(x) BY <2>1 DEF Submit, Accepted
      <3> QED BY <1>2, <2>1, <2>4, <3>1 DEF IInv, InOrder
    <2>8. UniqueAndBounded' BY <2>1 DEF IInv, UniqueAndBounded, Submit
    <2> QED BY <1>4, <2>2, <2>3, <2>5, <2>6, <2>7, <2>8 DEF IInv
  <1>7. CASE ~Refuses(e)
    <2> DEFINE n == Len(pending)
               k == Len(accepted)
    <2>0. n \in Nat /\ k \in Nat /\ Capacity \in Nat BY Typing, CapacityAssumption
    <2>1. /\ future' = [future EXCEPT ![e] = "pending"] /\ future'[e] = "pending"
          /\ pending' = Append(pending, e) /\ accepted' = Append(accepted, e)
      BY <1>7 DEF Submit, IInv, TypeOK, Enqueue
    <2>2. /\ pending' \in Seq(Entry) /\ Len(pending') = n + 1 /\ pending'[n + 1] = e
          /\ \A i \in 1..n : pending'[i] = pending[i]
          /\ \A i \in 1..Len(pending') : i \in 1..n \/ i = n + 1
          /\ n + 1 \in 1..Len(pending') /\ 1..n \subseteq 1..Len(pending')
      BY <2>0, <2>1, Typing
    <2>3. /\ accepted' \in Seq(Entry) /\ Len(accepted') = k + 1 /\ accepted'[k + 1] = e
          /\ \A i \in 1..k : accepted'[i] = accepted[i]
          /\ k + 1 \in 1..Len(accepted') /\ 1..k \subseteq 1..Len(accepted')
          /\ \A i \in 1..k : i < k + 1
      BY <2>0, <2>1, Typing
    <2>4. /\ n < Capacity /\ ~shut
          /\ \A i \in 1..n : IdOf[pending[i]] # IdOf[e]
          /\ running # NoEntry => IdOf[running] # IdOf[e]
      BY <1>7, <2>0 DEF Refuses, IsPendingLocked
    <2>5. TypeOK'
      <3>1. future' \in [Entry -> Outcome \cup {"none", "pending", "refused"}]
        BY <2>1 DEF IInv, TypeOK
      <3> QED BY <2>2, <2>3, <3>1 DEF IInv, TypeOK, Submit
    <2>6. Stopping' BY <2>4 DEF IInv, Stopping, Submit
    <2> HIDE DEF n, k
    <2>7. \A x \in Entry : Queued(x)' <=> Queued(x) \/ x = e
      <3>1. \A x : Queued(x) <=> \E i \in 1..n : pending[i] = x BY DEF Queued, n
      <3> QED BY <2>2, <3>1 DEF Queued
    <2>8. HeldOnce'
      <3>1. \A i, j \in 1..Len(pending') : pending'[i] = pending'[j] => i = j
        <4>1. \A i \in 1..n : pending[i] # e BY <1>1 DEF Queued, n
        <4>2. \A i, j \in 1..n : pending[i] = pending[j] => i = j BY DEF IInv, HeldOnce, n
        <4> QED BY <2>2, <4>1, <4>2
      <3>2. UNCHANGED <<callbacks, popped, loop>> BY DEF Submit
      <3> QED BY <1>1, <1>2, <1>3, <2>1, <2>7, <3>1, <3>2 DEF IInv, HeldOnce
    <2>9. AnswersTrue'
      <3>1. ~Ran(e) /\ e \notin cancelled /\ e \notin discard BY <1>0 DEF IInv, AnswersTrue
      <3>2. AnswerTrue(e, "pending") BY DEF AnswerTrue
      <3>3. UNCHANGED <<callbacks, popped, main, cancelled, discard>> BY DEF Submit
      <3> QED BY <1>2, <1>3, <1>5, <2>1, <2>7, <3>1, <3>2, <3>3 DEF IInv, AnswersTrue
    <2>10. InOrder'
      <3>1. /\ \A x : Accepted(x) <=> \E i \in 1..k : accepted[i] = x
            /\ \A x, y : Before(accepted, x, y) <=>
                 \E a, b \in 1..k : a < b /\ accepted[a] = x /\ accepted[b] = y
        BY DEF Accepted, Before, k
      <3>2. ASSUME NEW x, Accepted(x) PROVE Accepted(x)'
        <4>1. PICK i \in 1..k : accepted[i] = x BY <3>1, <3>2
        <4>2. i \in 1..Len(accepted') /\ accepted'[i] = x BY <2>3, <4>1
        <4> QED BY <4>2 DEF Accepted
      <3>3. Accepted(e)' BY <2>3 DEF Accepted
      <3>4. ASSUME NEW x, NEW y, Before(accepted, x, y) PROVE Before(accepted', x, y)
        <4>1. PICK a \in 1..k, b \in 1..k : a < b /\ accepted[a] = x /\ accepted[b] = y BY <3>1, <3>4
        <4>2. /\ a \in 1..Len(accepted') /\ accepted'[a] = x
              /\ b \in 1..Len(accepted') /\ accepted'[b] = y
          BY <2>3, <4>1
        <4> QED BY <4>1, <4>2 DEF Before
      <3>5. \A x : Accepted(x) => Before(accepted', x, e) BY <2>3, <3>1 DEF Before
      <3>6. started' = started BY DEF Submit
      <3>7. \A x \in Entry : Queued(x)' \/ Ran(x)' => Accepted(x)'
        BY <1>2, <2>7, <3>2, <3>3 DEF IInv, InOrder
      <3>8. \A i \in 1..n : Accepted(pending[i])
        <4>1. \A i \in 1..n : pending[i] \in Entry /\ Queued(pending[i]) BY Typing DEF Queued, n
        <4> QED BY <4>1 DEF IInv, InOrder
      <3>10. ASSUME NEW i \in 1..Len(pending'), NEW j \in 1..Len(pending'), i < j
             PROVE  Before(accepted', pending'[i], pending'[j])
        <4>1. i \in 1..n BY <2>0, <2>2, <3>10 DEF n
        <4>2. CASE j \in 1..n
          <5>1. Before(accepted, pending[i], pending[j]) BY <3>10, <4>1, <4>2 DEF IInv, InOrder, n
          <5> QED BY <2>2, <3>4, <4>1, <4>2, <5>1
        <4>3. CASE j = n + 1 BY <2>2, <3>5, <3>8, <4>1, <4>3
        <4> QED BY <2>2, <4>2, <4>3
      <3>11. ASSUME NEW i \in 1..Len(started), NEW j \in 1..Len(pending')
             PROVE  Before(accepted', started[i], pending'[j])
        <4>1. Accepted(started[i])
          <5>1. started[i] \in Entry /\ Ran(started[i]) BY Typing DEF Ran
          <5> QED BY <5>1 DEF IInv, InOrder
        <4>2. CASE j \in 1..n
          <5>1. Before(accepted, started[i], pending[j]) BY <4>2 DEF IInv, InOrder, n
          <5> QED BY <2>2, <3>4, <4>2, <5>1
        <4>3. CASE j = n + 1 BY <2>2, <3>5, <4>1, <4>3
        <4> QED BY <2>2, <4>2, <4>3
      <3>12. \A i, j \in 1..Len(started) : i < j => Before(accepted', started[i], started[j])
        BY <3>4 DEF IInv, InOrder
      <3> QED BY <3>6, <3>7, <3>10, <3>11, <3>12 DEF InOrder
    <2>11. UniqueAndBounded'
      <3>1. running' = running BY DEF Submit
      <3>2. Len(pending') <= Capacity BY <2>0, <2>2, <2>4 DEF n
      <3>3. \A i, j \in 1..n : i # j => IdOf[pending[i]] # IdOf[pending[j]]
        BY DEF IInv, UniqueAndBounded, n
      <3>4. running # NoEntry => \A i \in 1..n : IdOf[pending[i]] # IdOf[running]
        BY DEF IInv, UniqueAndBounded, n
      <3> QED BY <2>2, <2>4, <3>1, <3>2, <3>3, <3>4 DEF UniqueAndBounded
    <2> QED BY <1>4, <2>5, <2>6, <2>8, <2>9, <2>10, <2>11 DEF IInv
  <1> QED BY <1>6, <1>7

\* cancel of the running entry: only its flag is set
LEMMA DiscardKeeps ==
    ASSUME IInv, running # NoEntry, discard' = discard \cup {running},
           cancelled' = cancelled \cup {running}, TypeOK',
           UNCHANGED <<pending, running, shut, futureVars, main, popped, loop, adapterOpen,
                       accepted, started>>
    PROVE  IInv'
  <1> USE DEF futureVars
  <1>1. /\ popped.entry = running /\ running \in Entry /\ main = "operation"
        /\ ~Queued(running) /\ ~Called(running) /\ future[running] = "pending"
    BY DEF IInv, TypeOK, Stages, HeldOnce
  <1>2. \A x : (Queued(x)' <=> Queued(x)) /\ (Called(x)' <=> Called(x)) /\ (Ran(x)' <=> Ran(x))
    BY DEF Queued, Called, Ran
  <1>3. \A x, o : x # running \/ o = "pending" => (AnswerTrue(x, o)' <=> AnswerTrue(x, o))
    BY <1>2 DEF AnswerTrue
  <1>4. Stages' /\ Stopping' /\ UniqueAndBounded'
    BY DEF IInv, Stages, Stopping, UniqueAndBounded
  <1>5. HeldOnce' BY <1>2 DEF IInv, HeldOnce
  <1>6. AnswersTrue'
    <2>1. \A i \in 1..Len(callbacks) : callbacks[i][1] # running BY <1>1 DEF Called
    <2> QED BY <1>1, <1>2, <1>3, <2>1 DEF IInv, AnswersTrue
  <1>7. InOrder' BY <1>2 DEF IInv, InOrder, Accepted
  <1> QED BY <1>4, <1>5, <1>6, <1>7 DEF IInv

\* cancel of a queued entry: it leaves the queue for a callback that says so
LEMMA DropKeeps ==
    ASSUME IInv, loop # "exited", NEW k \in 1..Len(pending), pending' = RemoveAt(pending, k),
           Resolve(<<pending[k]>>, "cancelled"), cancelled' = cancelled \cup {pending[k]},
           UNCHANGED <<running, discard, shut, future, mainVars, late, eof, hostVars,
                       accepted, started>>,
           signalled' \subseteq eof
    PROVE  IInv'
  <1> USE DEF mainVars, hostVars
  <1>0. PICK e \in Entry : e = pending[k] BY Typing
  <1>1. /\ e \in Entry /\ Queued(e) /\ ~Called(e) /\ future[e] = "pending" /\ popped.entry # e
    BY <1>0 DEF IInv, HeldOnce, Queued
  <1>2. /\ pending' \in Seq(Entry) /\ Len(pending') = Len(pending) - 1
        /\ \A i \in 1..Len(pending) - 1 : pending'[i] = pending[IF i < k THEN i ELSE i + 1]
    BY Typing, RemoveAtProperties
  <1>3. /\ \A x \in Entry : Queued(x)' <=> Queued(x) /\ x # e
        /\ \A i, j \in 1..Len(pending') : pending'[i] = pending'[j] => i = j
        /\ \A i, j \in 1..Len(pending') : i # j => IdOf[pending'[i]] # IdOf[pending'[j]]
        /\ Len(pending') <= Capacity
        /\ \A i, j \in 1..Len(pending') : i < j => Before(accepted, pending'[i], pending'[j])
        /\ \A i \in 1..Len(pending') : \E j \in 1..Len(pending) : pending'[i] = pending[j]
    BY <1>0, <1>2, QueueThins
  <1>4. /\ <<e>> \in Seq(Entry) /\ Len(<<e>>) = 1 /\ <<e>>[1] = e /\ 1..1 = {1}
        /\ "cancelled" \in Outcome
    BY <1>1 DEF Outcome
  <1>5. /\ callbacks' \in Seq(Entry \X Outcome)
        /\ \A i, j \in 1..Len(callbacks') : callbacks'[i][1] = callbacks'[j][1] => i = j
        /\ \A x \in Entry : Called(x)' <=> Called(x) \/ x = e
        /\ \A i \in 1..Len(callbacks') :
              \/ \E j \in 1..Len(callbacks) : callbacks'[i] = callbacks[j]
              \/ callbacks'[i][1] = e /\ callbacks'[i][2] = "cancelled"
    <2> DEFINE es == <<e>>
    <2>1. Resolve(es, "cancelled") BY <1>0
    <2>2. \A i \in 1..Len(es) : es[i] = e /\ i = 1 BY <1>4
    <2>3. es \in Seq(Entry) /\ (\E i \in 1..Len(es) : TRUE) BY <1>4
    <2> HIDE DEF es
    <2> QED BY <1>1, <1>4, <2>1, <2>2, <2>3, Schedules
  <1>6. TypeOK'
    BY <1>0, <1>2, <1>5 DEF IInv, TypeOK
  <1>7. Stages' BY DEF IInv, Stages
  <1>8. Stopping'
    <2>1. ~shut
      <3>1. Len(<<>>) = 0 /\ Len(pending) # 0 BY Typing
      <3> QED BY <3>1 DEF IInv, Stopping
    <2> QED BY <2>1 DEF IInv, Stopping
  <1>9. HeldOnce' BY <1>1, <1>3, <1>5 DEF IInv, HeldOnce
  <1>10. \A x : Ran(x)' <=> Ran(x) BY DEF Ran
  <1>11. \A x, o : x # e \/ o # "completed" => (AnswerTrue(x, o)' <=> AnswerTrue(x, o))
    BY <1>0, <1>10 DEF AnswerTrue
  <1>12. AnswersTrue'
    <2>1. AnswerTrue(e, "cancelled")' BY <1>1, <1>10 DEF IInv, AnswersTrue, AnswerTrue
    <2>2. \A i \in 1..Len(callbacks) : callbacks[i][1] # e BY <1>1 DEF Called
    <2>3. \A i \in 1..Len(callbacks') : \A x, o :
             x = callbacks'[i][1] /\ o = callbacks'[i][2] => AnswerTrue(x, o)'
      BY <1>5, <1>11, <2>1, <2>2 DEF IInv, AnswersTrue
    <2>4. \A x \in Entry : AnswerTrue(x, future[x])' BY <1>1, <1>11 DEF IInv, AnswersTrue
    <2>5. \A x \in Entry : Queued(x)' \/ future[x] \in {"none", "refused"} =>
             ~Ran(x)' /\ x \notin cancelled' /\ x \notin discard
      BY <1>0, <1>1, <1>3, <1>10 DEF IInv, AnswersTrue
    <2>6. main = "operation" =>
             Ran(popped.entry)' /\ (popped.entry \in cancelled' => popped.entry \in discard)
      BY <1>0, <1>1, <1>10 DEF IInv, AnswersTrue
    <2>7. main = "resolve" => AnswerTrue(popped.entry, popped.outcome)'
      BY <1>1, <1>11 DEF IInv, AnswersTrue
    <2> QED BY <2>3, <2>4, <2>5, <2>6, <2>7 DEF AnswersTrue
  <1>13. InOrder'
    <2>1. \A x : Accepted(x)' <=> Accepted(x) BY DEF Accepted
    <2>2. \A i \in 1..Len(started) : \A j \in 1..Len(pending') :
             Before(accepted, started[i], pending'[j])
      BY <1>3 DEF IInv, InOrder
    <2> QED BY <1>3, <1>10, <2>1, <2>2 DEF IInv, InOrder
  <1>14. UniqueAndBounded' BY <1>3 DEF IInv, UniqueAndBounded
  <1> QED BY <1>6, <1>7, <1>8, <1>9, <1>12, <1>13, <1>14 DEF IInv

\* The server notices that a client has gone and cancels its request
LEMMA PollEofKeeps ==
    ASSUME IInv, NEW e \in Entry, PollEof(e)
    PROVE  IInv'
  <1>0. /\ loop # "exited" /\ signalled' \subseteq eof
        /\ UNCHANGED <<running, shut, future, mainVars, late, eof, hostVars, accepted, started>>
        /\ Cancel(IdOf[e])
    BY DEF PollEof, LoopRuns, IInv, TypeOK
  <1>1. CASE running # NoEntry /\ IdOf[running] = IdOf[e]
    <2>1. /\ discard' = discard \cup {running} /\ cancelled' = cancelled \cup {running}
          /\ UNCHANGED <<pending, callbacks>>
      BY <1>0, <1>1 DEF Cancel
    <2>2. TypeOK' BY <1>0, <1>1, <2>1 DEF IInv, TypeOK, mainVars, hostVars
    <2> QED BY <1>0, <1>1, <2>1, <2>2, DiscardKeeps DEF mainVars, hostVars, futureVars
  <1>2. CASE ~(running # NoEntry /\ IdOf[running] = IdOf[e])
    <2> DEFINE found == {i \in 1..Len(pending) : IdOf[pending[i]] = IdOf[e]}
    <2>1. CASE found = {}
      <3>1. UNCHANGED <<pending, callbacks, discard, cancelled>> BY <1>0, <1>2, <2>1 DEF Cancel
      <3>2. TypeOK' BY <1>0, <3>1 DEF IInv, TypeOK, mainVars, hostVars
      <3>3. Stopping' BY <1>0, <3>1 DEF IInv, Stopping, mainVars, hostVars
      <3> QED BY <1>0, <3>1, <3>2, <3>3, QuietKeeps
            DEF queueVars, futureVars, mainVars, hostVars, history
    <2>2. CASE found # {}
      <3>1. PICK k \in found :
               /\ pending' = RemoveAt(pending, k) /\ Resolve(<<pending[k]>>, "cancelled")
               /\ cancelled' = cancelled \cup {pending[k]} /\ UNCHANGED discard
        BY <1>0, <1>2, <2>2 DEF Cancel
      <3> QED BY <1>0, <3>1, DropKeeps
    <2> QED BY <2>1, <2>2
  <1> QED BY <1>1, <1>2

\* _set_result_safely: the oldest answer settles its future
LEMMA RunCallbackKeeps ==
    ASSUME IInv, RunCallback
    PROVE  IInv'
  <1> USE DEF queueVars, mainVars, clientVars, hostVars, history
  <1> DEFINE C == Entry \X Outcome
             n == Len(callbacks)
  <1>0. callbacks \in Seq(C) /\ callbacks # <<>> /\ n \in Nat BY Typing DEF RunCallback
  <1>1. n # 0 /\ 1 \in 1..n BY <1>0
  <1>2. PICK e \in Entry, o \in Outcome : callbacks[1][1] = e /\ callbacks[1][2] = o
    BY <1>1, Typing
  <1>3. Called(e) /\ ~Queued(e) /\ popped.entry # e /\ future[e] = "pending"
    BY <1>1, <1>2 DEF Called, IInv, HeldOnce
  <1>4. future' = [future EXCEPT ![e] = o]
    <2>1. Head(callbacks) = callbacks[1] BY <1>0
    <2> QED BY <1>2, <1>3, <2>1 DEF RunCallback
  <1>5. \A x \in Entry : future'[x] = IF x = e THEN o ELSE future[x] BY <1>4 DEF IInv, TypeOK
  <1> HIDE DEF C
  <1>6. /\ callbacks' \in Seq(C) /\ Len(callbacks') = n - 1
        /\ \A i \in 1..n - 1 : callbacks'[i] = callbacks[i + 1]
    <2>1. callbacks' = Tail(callbacks) BY DEF RunCallback
    <2> QED BY <1>0, <2>1, HeadTailProperties
  <1>7. \A i \in 1..n - 1 : i + 1 \in 1..n /\ i + 1 # 1 BY <1>0
  <1>8. \A j \in 1..n : j # 1 => \E i \in 1..n - 1 : i + 1 = j
    <2> SUFFICES ASSUME NEW j \in 1..n, j # 1 PROVE \E i \in 1..n - 1 : i + 1 = j OBVIOUS
    <2>1. j - 1 \in 1..n - 1 /\ (j - 1) + 1 = j BY <1>0
    <2> QED BY <2>1
  <1>9. /\ \A i, j \in 1..n : callbacks[i][1] = callbacks[j][1] => i = j
        /\ \A x : Called(x) <=> \E i \in 1..n : callbacks[i][1] = x
    BY DEF IInv, HeldOnce, Called
  <1>10. \A x : Called(x)' <=> \E i \in 1..n - 1 : callbacks[i + 1][1] = x
    BY <1>6 DEF Called
  <1> HIDE DEF n
  <1>11. \A x \in Entry : Called(x)' <=> Called(x) /\ x # e
    <2> TAKE x \in Entry
    <2>1. ASSUME Called(x)' PROVE Called(x) /\ x # e BY <1>1, <1>2, <1>7, <1>9, <1>10, <2>1
    <2>2. ASSUME Called(x), x # e PROVE Called(x)' BY <1>2, <1>8, <1>9, <1>10, <2>2
    <2> QED BY <2>1, <2>2
  <1>12. \A x : (Queued(x)' <=> Queued(x)) /\ (Ran(x)' <=> Ran(x)) /\ (Accepted(x)' <=> Accepted(x))
    BY DEF RunCallback, Queued, Ran, Accepted
  <1>13. \A x, a : AnswerTrue(x, a)' <=> AnswerTrue(x, a) BY <1>12 DEF AnswerTrue, RunCallback
  <1>14. TypeOK'
    <2>1. future' \in [Entry -> Outcome \cup {"none", "pending", "refused"}]
      BY <1>4 DEF IInv, TypeOK
    <2> QED BY <1>6, <2>1 DEF C, IInv, TypeOK, RunCallback
  <1>15. Stages' BY DEF IInv, Stages, RunCallback
  <1>16. Stopping' BY DEF IInv, Stopping, RunCallback, LoopRuns
  <1>17. HeldOnce'
    <2>1. \A i, j \in 1..Len(callbacks') : callbacks'[i][1] = callbacks'[j][1] => i = j
      <3> SUFFICES ASSUME NEW i \in 1..n - 1, NEW j \in 1..n - 1,
                          callbacks[i + 1][1] = callbacks[j + 1][1]
                   PROVE  i = j
        BY <1>6
      <3>1. i + 1 = j + 1 BY <1>7, <1>9
      <3> QED BY <3>1
    <2>2. UNCHANGED <<pending, popped, loop>> BY DEF RunCallback
    <2>3. \A x \in Entry : future'[x] = "pending" => x # e /\ future[x] = "pending"
      BY <1>5 DEF Outcome
    <2> QED BY <1>3, <1>5, <1>11, <1>12, <2>1, <2>2, <2>3 DEF IInv, HeldOnce
  <1>18. AnswersTrue'
    <2>1. AnswerTrue(e, o) BY <1>1, <1>2 DEF IInv, AnswersTrue, n
    <2>2. \A x \in Entry : AnswerTrue(x, future'[x]) BY <1>5, <2>1 DEF IInv, AnswersTrue
    <2>3. \A i \in 1..Len(callbacks') : AnswerTrue(callbacks'[i][1], callbacks'[i][2])
      BY <1>6, <1>7 DEF IInv, AnswersTrue, n
    <2>4. \A x \in Entry : future'[x] \in {"none", "refused"} => future[x] = future'[x]
      BY <1>5 DEF Outcome
    <2>5. UNCHANGED <<main, popped, discard, cancelled>> BY DEF RunCallback
    <2> QED BY <1>12, <1>13, <2>2, <2>3, <2>4, <2>5 DEF IInv, AnswersTrue
  <1>19. InOrder' BY <1>12 DEF IInv, InOrder, RunCallback
  <1>20. UniqueAndBounded' BY DEF IInv, UniqueAndBounded, RunCallback
  <1> QED BY <1>14, <1>15, <1>16, <1>17, <1>18, <1>19, <1>20 DEF IInv

\* shutdown of a live queue: every queued entry gets its rejection
LEMMA ShutdownKeeps ==
    ASSUME IInv, ~shut, Shutdown, TypeOK', Stages',
           UNCHANGED <<running, discard, future, popped, history>>,
           loop \in {"serving", "closed"}, loop' # "exited", loop' = "closing" \/ loop' = loop,
           (main' \notin {"operation", "resolve"} /\ main \notin {"operation", "resolve"})
              \/ main' = main,
           adapterOpen' = adapterOpen
    PROVE  IInv'
  <1> USE DEF history
  <1>1. pending' = <<>> /\ Len(pending') = 0 /\ shut' /\ Resolve(pending, "rejected")
    BY DEF Shutdown
  <1>2. \A i \in 1..Len(pending) :
           ~Called(pending[i]) /\ Queued(pending[i]) /\ pending[i] \in Entry
    BY Typing DEF IInv, HeldOnce, Queued
  <1>3. \A x : (\E i \in 1..Len(pending) : pending[i] = x) <=> Queued(x) BY DEF Queued
  <1>4. /\ \A i, j \in 1..Len(callbacks') : callbacks'[i][1] = callbacks'[j][1] => i = j
        /\ \A x \in Entry : Called(x)' <=> Called(x) \/ Queued(x)
        /\ \A i \in 1..Len(callbacks') :
              \/ \E j \in 1..Len(callbacks) : callbacks'[i] = callbacks[j]
              \/ \E j \in 1..Len(pending) :
                    callbacks'[i][1] = pending[j] /\ callbacks'[i][2] = "rejected"
    <2>1. \A i, j \in 1..Len(pending) : pending[i] = pending[j] => i = j BY DEF IInv, HeldOnce
    <2>2. pending \in Seq(Entry) /\ "rejected" \in Outcome BY Typing DEF Outcome
    <2>3. loop # "exited" OBVIOUS
    <2>4. /\ \A i, j \in 1..Len(callbacks') : callbacks'[i][1] = callbacks'[j][1] => i = j
          /\ \A x \in Entry :
                Called(x)' <=> Called(x) \/ \E i \in 1..Len(pending) : pending[i] = x
      BY <1>1, <1>2, <2>1, <2>2, <2>3, Schedules
    <2>5. \A i \in 1..Len(callbacks') :
              \/ \E j \in 1..Len(callbacks) : callbacks'[i] = callbacks[j]
              \/ \E j \in 1..Len(pending) :
                    callbacks'[i][1] = pending[j] /\ callbacks'[i][2] = "rejected"
      BY <1>1, <1>2, <2>1, <2>2, <2>3, Schedules
    <2> QED BY <1>3, <2>4, <2>5
  <1>5. \A x : ~Queued(x)' BY <1>1 DEF Queued
  <1>6. \A x : (Ran(x)' <=> Ran(x)) /\ (Accepted(x)' <=> Accepted(x)) BY DEF Ran, Accepted
  <1>7. \A x, a : AnswerTrue(x, a)' <=> AnswerTrue(x, a) BY <1>6 DEF AnswerTrue
  <1>8. Stopping' BY <1>1 DEF IInv, Stopping
  <1>9. HeldOnce' BY <1>1, <1>4, <1>5 DEF IInv, HeldOnce
  <1>10. AnswersTrue'
    <2>1. \A i \in 1..Len(pending) : AnswerTrue(pending[i], "rejected")
      BY <1>2 DEF IInv, AnswersTrue, AnswerTrue
    <2>2. \A i \in 1..Len(callbacks') : AnswerTrue(callbacks'[i][1], callbacks'[i][2])
      BY <1>4, <2>1 DEF IInv, AnswersTrue
    <2> QED BY <1>5, <1>6, <1>7, <2>2 DEF IInv, AnswersTrue
  <1>11. InOrder' BY <1>1, <1>5, <1>6 DEF IInv, InOrder
  <1>12. UniqueAndBounded' BY <1>1, CapacityAssumption DEF IInv, UniqueAndBounded
  <1> QED BY <1>8, <1>9, <1>10, <1>11, <1>12 DEF IInv

\* Either thread stops the bridge
LEMMA StopsKeep ==
    ASSUME IInv, CloseBegin \/ HostStop
    PROVE  IInv'
  <1> USE DEF mainVars, clientVars, hostVars, history
  <1>1. TypeOK'
    <2>1. CASE shut
      BY <2>1 DEF CloseBegin, HostStop, Shutdown, IInv, TypeOK
    <2>2. CASE ~shut
      <3>1. callbacks' \in Seq(Entry \X Outcome)
        <4>1. \A i \in 1..Len(pending) : ~Called(pending[i])
          BY Typing DEF IInv, HeldOnce, Queued
        <4>2. \A i, j \in 1..Len(pending) : pending[i] = pending[j] => i = j
          BY DEF IInv, HeldOnce
        <4>3. Resolve(pending, "rejected") BY <2>2 DEF CloseBegin, HostStop, Shutdown
        <4> QED BY <4>1, <4>2, <4>3, Typing, Schedules DEF Outcome
      <3>2. <<>> \in Seq(Entry) OBVIOUS
      <3> QED BY <2>2, <3>1, <3>2 DEF CloseBegin, HostStop, Shutdown, IInv, TypeOK
    <2> QED BY <2>1, <2>2
  <1>2. Stages' BY DEF CloseBegin, HostStop, IInv, Stages
  <1>3. CASE shut
    <2>1. Stopping' BY <1>3 DEF CloseBegin, HostStop, Shutdown, IInv, Stopping
    <2> QED BY <1>1, <1>3, <2>1, QuietKeeps
          DEF CloseBegin, HostStop, Shutdown, queueVars, futureVars
  <1>4. CASE ~shut
    <2>1. loop = "serving" BY <1>4 DEF IInv, Stopping
    <2> QED BY <1>1, <1>2, <1>4, <2>1, ShutdownKeeps DEF CloseBegin, HostStop
  <1> QED BY <1>3, <1>4

\* The loop ends with the callbacks it has not run
LEMMA LoopExitKeeps ==
    ASSUME IInv, LoopExit
    PROVE  IInv'
  <1> USE DEF LoopExit, queueVars, mainVars, clientVars, hostVars, history
  <1>1. callbacks' = <<>> /\ Len(callbacks') = 0 /\ loop' = "exited" OBVIOUS
  <1>2. TypeOK'
    <2>1. callbacks' \in Seq(Entry \X Outcome) BY <1>1
    <2> QED BY <1>1, <2>1 DEF IInv, TypeOK
  <1>3. Stages' /\ Stopping' /\ UniqueAndBounded'
    BY <1>1 DEF IInv, Stages, Stopping, UniqueAndBounded
  <1>4. /\ \A x : ~Called(x)'
        /\ \A x : (Queued(x)' <=> Queued(x)) /\ (Ran(x)' <=> Ran(x)) /\ (Accepted(x)' <=> Accepted(x))
    BY <1>1 DEF Called, Queued, Ran, Accepted
  <1>5. HeldOnce' BY <1>1, <1>4 DEF IInv, HeldOnce
  <1>6. \A x, a : AnswerTrue(x, a)' <=> AnswerTrue(x, a) BY <1>4 DEF AnswerTrue
  <1>7. AnswersTrue' BY <1>1, <1>4, <1>6 DEF IInv, AnswersTrue
  <1>8. InOrder' BY <1>4 DEF IInv, InOrder
  <1> QED BY <1>2, <1>3, <1>5, <1>7, <1>8 DEF IInv

\* pump_one takes the oldest entry; it starts unless it is overdue
LEMMA PumpTakeKeeps ==
    ASSUME IInv, PumpTake
    PROVE  IInv'
  <1> USE DEF futureVars, clientVars, hostVars
  <1>0. /\ main = "clock" /\ now' = {} /\ running = NoEntry /\ popped.entry = NoEntry
        /\ UNCHANGED <<discard, shut, callbacks, future, late, loop, pumpOn, adapterOpen,
                       eof, signalled, accepted, cancelled>>
    BY DEF PumpTake, IInv, Stages
  <1>1. CASE pending = <<>>
    <2>1. main' = "idle" /\ UNCHANGED <<pending, running, popped, started>>
      BY <1>1 DEF PumpTake
    <2>2. TypeOK' BY <1>0, <2>1 DEF IInv, TypeOK
    <2>3. Stopping' BY <1>0, <2>1 DEF IInv, Stopping
    <2> QED BY <1>0, <2>1, <2>2, <2>3, QuietKeeps DEF queueVars, history
  <1>2. CASE pending # <<>>
    <2> DEFINE n == Len(pending)
    <2>0. pending \in Seq(Entry) /\ n \in Nat /\ n # 0 /\ 1 \in 1..n BY <1>2, Typing
    <2>1. PICK e \in Entry : e = pending[1] /\ e = Head(pending) BY <2>0, Typing
    <2>2. /\ Queued(e) /\ ~Called(e) /\ future[e] = "pending" /\ ~Ran(e) /\ Accepted(e)
          /\ e \notin cancelled /\ e \notin discard /\ e # NoEntry
      BY <2>0, <2>1, Typing DEF Queued, IInv, HeldOnce, AnswersTrue, InOrder
    <2>3. ~shut /\ adapterOpen BY <1>2 DEF IInv, Stopping
    <2>4. /\ pending' \in Seq(Entry) /\ Len(pending') = n - 1
          /\ \A i \in 1..n - 1 : pending'[i] = pending[i + 1]
      <3>1. pending' = Tail(pending) BY <1>2 DEF PumpTake
      <3> QED BY <2>0, <3>1, HeadTailProperties
    <2>5. \A i \in 1..n - 1 : pending'[i] = pending[IF i < 1 THEN i ELSE i + 1] BY <2>0, <2>4
    <2>6. /\ \A x \in Entry : Queued(x)' <=> Queued(x) /\ x # e
          /\ \A i, j \in 1..Len(pending') : pending'[i] = pending'[j] => i = j
          /\ \A i, j \in 1..Len(pending') : i # j => IdOf[pending'[i]] # IdOf[pending'[j]]
          /\ Len(pending') <= Capacity
          /\ \A i, j \in 1..Len(pending') : i < j => Before(accepted, pending'[i], pending'[j])
      <3>1. PICK k \in 1..n : k = 1 BY <2>0
      <3>2. \A i \in 1..n - 1 : pending'[i] = pending[IF i < k THEN i ELSE i + 1]
        BY <2>5, <3>1
      <3>3. e = pending[k] BY <2>1, <3>1
      <3> QED BY <2>4, <3>2, <3>3, QueueThins
    <2>7. \A i \in 1..Len(pending') : \E j \in 1..n : j # 1 /\ pending'[i] = pending[j] /\ 1 < j
      <3> TAKE i \in 1..Len(pending')
      <3>1. i + 1 \in 1..n /\ i + 1 # 1 /\ 1 < i + 1 BY <2>0, <2>4
      <3> QED BY <2>4, <3>1
    <2> HIDE DEF n
    <2>8. \A x : (Called(x)' <=> Called(x)) /\ (Accepted(x)' <=> Accepted(x))
      BY <1>0 DEF Called, Accepted
    <2>9. /\ popped'.entry = e
          /\ popped' \in [entry : Entry \cup {NoEntry}, outcome : Outcome \cup {"none"}]
      BY <1>2, <2>1 DEF PumpTake, Outcome
    <2>10. HeldOnce'
      BY <1>0, <2>2, <2>6, <2>8, <2>9, NoEntryAssumption DEF IInv, HeldOnce
    <2>11. Stopping'
      <3>1. main' \in {"operation", "resolve"} BY <1>2 DEF PumpTake
      <3> QED BY <1>0, <2>3, <3>1 DEF IInv, Stopping
    <2>12. CASE e \in now
      <3>1. /\ main' = "resolve" /\ UNCHANGED <<running, started>>
            /\ popped' = [entry |-> e, outcome |-> "expired"]
        BY <1>2, <2>1, <2>12 DEF PumpTake
      <3>2. TypeOK' BY <1>0, <2>4, <2>9, <3>1 DEF IInv, TypeOK
      <3>3. Stages' BY <1>0, <2>2, <3>1 DEF Stages
      <3>4. \A x : Ran(x)' <=> Ran(x) BY <3>1 DEF Ran
      <3>5. \A x, o : AnswerTrue(x, o)' <=> AnswerTrue(x, o) BY <1>0, <3>4 DEF AnswerTrue
      <3>6. AnswerTrue(e, "expired") BY <2>2 DEF AnswerTrue
      <3>7. AnswersTrue' BY <1>0, <2>6, <3>1, <3>4, <3>5, <3>6 DEF IInv, AnswersTrue
      <3>8. InOrder'
        <4>1. \A i \in 1..Len(started) : \A j \in 1..Len(pending') :
                 Before(accepted, started[i], pending'[j])
          BY <2>7 DEF IInv, InOrder, n
        <4> QED BY <1>0, <2>6, <2>8, <3>1, <3>4, <4>1 DEF IInv, InOrder
      <3>9. UniqueAndBounded' BY <1>0, <2>6, <3>1 DEF UniqueAndBounded
      <3> QED BY <2>10, <2>11, <3>2, <3>3, <3>7, <3>8, <3>9 DEF IInv
    <2>13. CASE e \notin now
      <3> DEFINE k == Len(started)
      <3>1. /\ main' = "operation" /\ running' = e /\ started' = Append(started, e)
            /\ popped' = [entry |-> e, outcome |-> "none"]
        BY <1>2, <2>1, <2>13 DEF PumpTake
      <3>2. /\ started' \in Seq(Entry) /\ Len(started') = k + 1 /\ started'[k + 1] = e
            /\ \A i \in 1..k : started'[i] = started[i]
            /\ \A i \in 1..Len(started') : i \in 1..k \/ i = k + 1
            /\ k + 1 \in 1..Len(started') /\ 1..k \subseteq 1..Len(started')
            /\ k \in Nat
        BY <3>1, Typing
      <3>3. TypeOK' BY <1>0, <2>4, <2>9, <3>1, <3>2 DEF IInv, TypeOK
      <3>4. Stages' BY <2>2, <3>1 DEF Stages
      <3>5. \A x : Ran(x)' <=> Ran(x) \/ x = e
        <4>1. \A x : Ran(x) <=> \E i \in 1..k : started[i] = x BY DEF Ran
        <4> HIDE DEF k
        <4> QED BY <3>2, <4>1 DEF Ran
      <3>6. \A x, o : x # e \/ o = "pending" => (AnswerTrue(x, o)' <=> AnswerTrue(x, o))
        BY <1>0, <3>5 DEF AnswerTrue
      <3>7. AnswersTrue'
        <4>1. \A i \in 1..Len(callbacks) : callbacks[i][1] # e BY <2>2 DEF Called
        <4>2. \A x \in Entry : AnswerTrue(x, future[x])' BY <1>0, <2>2, <3>6 DEF IInv, AnswersTrue
        <4>3. \A i \in 1..Len(callbacks) : AnswerTrue(callbacks[i][1], callbacks[i][2])'
          BY <1>0, <3>6, <4>1 DEF IInv, AnswersTrue
        <4>4. \A x \in Entry : Queued(x)' \/ future[x] \in {"none", "refused"} => ~Ran(x)'
          BY <2>2, <2>6, <3>5 DEF IInv, AnswersTrue
        <4>5. Ran(e)' BY <3>5
        <4> QED BY <1>0, <2>2, <2>6, <3>1, <4>2, <4>3, <4>4, <4>5 DEF IInv, AnswersTrue
      <3>8. InOrder'
        <4>1. \A i \in 1..k : \A j \in 1..n : Before(accepted, started[i], pending[j])
          BY DEF IInv, InOrder, n
        <4>2. \A j \in 1..n : 1 < j => Before(accepted, e, pending[j])
          BY <2>0, <2>1 DEF IInv, InOrder, n
        <4>3. \A i, j \in 1..k : i < j => Before(accepted, started[i], started[j])
          BY DEF IInv, InOrder
        <4>4. \A i, j \in 1..k + 1 : i < j => i \in 1..k BY <3>2
        <4> HIDE DEF k
        <4>5. \A i \in 1..Len(started') : \A j \in 1..Len(pending') :
                 Before(accepted, started'[i], pending'[j])
          BY <2>7, <3>2, <4>1, <4>2
        <4>6. \A i, j \in 1..Len(started') : i < j => Before(accepted, started'[i], started'[j])
          BY <2>0, <2>1, <3>2, <4>1, <4>3, <4>4
        <4>7. \A x \in Entry : Queued(x)' \/ Ran(x)' => Accepted(x)'
          BY <2>2, <2>6, <2>8, <3>5 DEF IInv, InOrder
        <4> QED BY <1>0, <2>6, <4>5, <4>6, <4>7 DEF InOrder
      <3>9. UniqueAndBounded'
        <4>1. \A j \in 1..n : j # 1 => IdOf[pending[j]] # IdOf[e]
          BY <2>0, <2>1 DEF IInv, UniqueAndBounded, n
        <4> QED BY <2>6, <2>7, <3>1, <4>1 DEF UniqueAndBounded
      <3> QED BY <2>10, <2>11, <3>3, <3>4, <3>7, <3>8, <3>9 DEF IInv
    <2> QED BY <2>12, <2>13
  <1> QED BY <1>1, <1>2

\* The operation has ended: its own error wins over a discard, a discard over the result
LEMMA PumpFinishKeeps ==
    ASSUME IInv, NEW raised \in BOOLEAN, PumpFinish(raised)
    PROVE  IInv'
  <1> USE DEF futureVars, clientVars, hostVars, history
  <1>1. PICK o \in Outcome : o = OutcomeOf(raised) BY DEF OutcomeOf, Outcome
  <1>2. PICK e \in Entry : e = popped.entry
    BY DEF PumpFinish, IInv, TypeOK, Stages
  <1>3. /\ popped' \in [entry : Entry \cup {NoEntry}, outcome : Outcome \cup {"none"}]
        /\ popped'.entry = e /\ popped'.outcome = o /\ o # "none"
    BY <1>1, <1>2 DEF PumpFinish, IInv, TypeOK, Outcome
  <1>4. /\ main = "operation" /\ main' = "resolve" /\ running' = NoEntry
        /\ UNCHANGED <<pending, discard, shut, callbacks, future, now, late, eof, signalled,
                       loop, pumpOn, adapterOpen, accepted, started, cancelled>>
    BY DEF PumpFinish
  <1>5. TypeOK' BY <1>3, <1>4 DEF IInv, TypeOK
  <1>6. Stages' BY <1>2, <1>3, <1>4, NoEntryAssumption DEF Stages
  <1>7. Stopping' BY <1>4 DEF IInv, Stopping
  <1>8. \A x : /\ (Queued(x)' <=> Queued(x)) /\ (Called(x)' <=> Called(x))
               /\ (Ran(x)' <=> Ran(x)) /\ (Accepted(x)' <=> Accepted(x))
    BY <1>4 DEF Queued, Called, Ran, Accepted
  <1>9. HeldOnce' BY <1>2, <1>3, <1>4, <1>8 DEF IInv, HeldOnce
  <1>10. \A x, a : AnswerTrue(x, a)' <=> AnswerTrue(x, a) BY <1>4, <1>8 DEF AnswerTrue
  <1>11. AnswerTrue(e, o)
    BY <1>1, <1>2, <1>4 DEF AnswerTrue, OutcomeOf, IInv, AnswersTrue
  <1>12. AnswersTrue' BY <1>3, <1>4, <1>8, <1>10, <1>11 DEF IInv, AnswersTrue
  <1>13. InOrder' BY <1>4, <1>8 DEF IInv, InOrder
  <1>14. UniqueAndBounded' BY <1>4 DEF IInv, UniqueAndBounded
  <1> QED BY <1>5, <1>6, <1>7, <1>9, <1>12, <1>13, <1>14 DEF IInv

\* The pump hands the outcome to the loop, which may have ended meanwhile
LEMMA PumpResolveKeeps ==
    ASSUME IInv, PumpResolve
    PROVE  IInv'
  <1> USE DEF queueVars, clientVars, hostVars, history
  <1>1. PICK e \in Entry, o \in Outcome : e = popped.entry /\ o = popped.outcome
    BY DEF PumpResolve, IInv, TypeOK, Stages
  <1>2. /\ main = "resolve" /\ main' = "idle"
        /\ popped' = [entry |-> NoEntry, outcome |-> "none"]
        /\ popped'.entry = NoEntry /\ popped'.outcome = "none"
        /\ UNCHANGED <<pending, running, discard, shut, future, now, late, eof, signalled,
                       loop, pumpOn, adapterOpen, accepted, started, cancelled>>
    BY DEF PumpResolve
  <1>3. ~Queued(e) /\ ~Called(e) /\ future[e] = "pending" /\ AnswerTrue(e, o)
    BY <1>1, <1>2 DEF IInv, HeldOnce, AnswersTrue
  <1>4. /\ callbacks' \in Seq(Entry \X Outcome)
        /\ loop = "exited" => callbacks' = callbacks
        /\ \A i, j \in 1..Len(callbacks') : callbacks'[i][1] = callbacks'[j][1] => i = j
        /\ \A x \in Entry : Called(x)' <=> Called(x) \/ (loop # "exited" /\ x = e)
        /\ \A i \in 1..Len(callbacks') :
              \/ \E j \in 1..Len(callbacks) : callbacks'[i] = callbacks[j]
              \/ callbacks'[i][1] = e /\ callbacks'[i][2] = o
    <2> DEFINE es == <<e>>
    <2>1. Resolve(es, o) BY <1>1 DEF PumpResolve
    <2>2. \A i \in 1..Len(es) : es[i] = e /\ i = 1 OBVIOUS
    <2>3. es \in Seq(Entry) /\ (\E i \in 1..Len(es) : TRUE) OBVIOUS
    <2> HIDE DEF es
    <2> QED BY <1>3, <2>1, <2>2, <2>3, Schedules
  <1>5. TypeOK' BY <1>2, <1>4 DEF IInv, TypeOK
  <1>6. running = NoEntry BY <1>2 DEF IInv, Stages
  <1>7. Stages' BY <1>2, <1>6 DEF Stages
  <1>8. Stopping' BY <1>2, <1>4 DEF IInv, Stopping
  <1>9. \A x : (Queued(x)' <=> Queued(x)) /\ (Ran(x)' <=> Ran(x)) /\ (Accepted(x)' <=> Accepted(x))
    BY <1>2 DEF Queued, Ran, Accepted
  <1>10. HeldOnce' BY <1>1, <1>2, <1>3, <1>4, <1>9, NoEntryAssumption DEF IInv, HeldOnce
  <1>11. \A x, a : AnswerTrue(x, a)' <=> AnswerTrue(x, a) BY <1>2, <1>9 DEF AnswerTrue
  <1>12. \A i \in 1..Len(callbacks') : AnswerTrue(callbacks'[i][1], callbacks'[i][2])
    BY <1>3, <1>4 DEF IInv, AnswersTrue
  <1>13. AnswersTrue' BY <1>2, <1>9, <1>11, <1>12 DEF IInv, AnswersTrue
  <1>14. InOrder' BY <1>2, <1>9 DEF IInv, InOrder
  <1>15. UniqueAndBounded' BY <1>2 DEF IInv, UniqueAndBounded
  <1> QED BY <1>5, <1>7, <1>8, <1>10, <1>13, <1>14, <1>15 DEF IInv

\* Every step keeps the invariant, one case per action
LEMMA NextIInv == IInv /\ [Next]_vars => IInv'
  <1> SUFFICES ASSUME IInv, [Next]_vars PROVE IInv' OBVIOUS
  <1>1. ASSUME NEW e \in Entry, Submit(e) PROVE IInv' BY <1>1, SubmitKeeps
  <1>2. ASSUME NEW e \in Entry, PollEof(e) PROVE IInv' BY <1>2, PollEofKeeps
  <1>3. ASSUME NEW e \in Entry, ClientEof(e) \/ DeadlinePasses(e) PROVE IInv'
    BY <1>3, EnvironmentKeeps
  <1>4. CASE RunCallback BY <1>4, RunCallbackKeeps
  <1>5. CASE CloseBegin \/ HostStop BY <1>5, StopsKeep
  <1>6. CASE PumpReadClock \/ HostStopAdapter \/ CloseEnd BY <1>6, QuietSteps
  <1>7. CASE LoopExit BY <1>7, LoopExitKeeps
  <1>8. CASE PumpTake BY <1>8, PumpTakeKeeps
  <1>9. CASE PumpFinish(TRUE) \/ PumpFinish(FALSE) BY <1>9, PumpFinishKeeps
  <1>10. CASE PumpResolve BY <1>10, PumpResolveKeeps
  <1>11. CASE UNCHANGED vars
    <2> USE <1>11 DEF vars, queueVars, futureVars, mainVars, clientVars, hostVars, history
    <2>1. TypeOK' BY DEF IInv, TypeOK
    <2>2. Stopping' BY DEF IInv, Stopping
    <2> QED BY <2>1, <2>2, QuietKeeps
  <1> QED BY <1>1, <1>2, <1>3, <1>4, <1>5, <1>6, <1>7, <1>8, <1>9, <1>10, <1>11 DEF Next, Pump

----------------------------------------------------------------------------
\* Whatever the two threads do, the queue is in a state of the invariant: an entry has one
\* owner, answers are true, the order is that of submit, a stopping host works on an empty queue.
THEOREM Invariance == Spec => []IInv
  BY InitIInv, NextIInv, PTL DEF Spec

\* Requests are served in the order of submit and answered exactly once, a cancelled caller
\* sees no result, and no two unfinished requests share an id (submit, pump_one, cancel,
\* shutdown), for any capacity and any number of requests.
THEOREM ServedInTurnAndOnce == Spec => []InTurnAndOnce
  BY Invariance, IInvSays, PTL

\* What a caller is told agrees with whether its operation ran in Houdini
THEOREM ReportsAgree == Spec => []ReportAgreesWithScene
  BY Invariance, IInvSays, PTL

\* No thread releases the adapter under a running operation (BridgeServer.close against
\* SecureBridgeHost.stop against pump_one).
THEOREM AdapterOutlives == Spec => []AdapterOutlivesOperation
  BY Invariance, IInvSays, PTL
=============================================================================
