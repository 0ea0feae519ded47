------------------------ MODULE EventDeliveryProofs -------------------------
(***************************************************************************)
(* The order and the completeness of what a client receives, proved for    *)
(* any number of events and any queue size.                                *)
(*                                                                         *)
(* What is on its way to the client is the item in the sender's hand, the  *)
(* queue, and what _do_subscribe has still to enqueue.  The invariant says *)
(* of these three, one after the other, that their events increase and     *)
(* that a snapshot is not behind what precedes it (Ordered, Precedes), and *)
(* where last_delivered stands among them (Position).                      *)
(***************************************************************************)
EXTENDS EventDelivery, SequencesExt, SequenceTheorems, FiniteSetTheorems, WellFoundedInduction, TLAPS

Events(s) == {i \in 1..Len(s) : s[i].kind = "event"}
Snapshots(s) == {i \in 1..Len(s) : s[i].kind = "snapshot"}
News(s) == Events(s) \cup Snapshots(s)

(* Events increase, and a snapshot is not older than what precedes it *)
Ordered(s) ==
    /\ \A i, j \in Events(s) : i < j => s[i].seq < s[j].seq
    /\ \A i \in News(s) : \A j \in Snapshots(s) : i < j => s[i].seq <= s[j].seq

Precedes(s, t) ==
    /\ \A i \in Events(s) : \A j \in Events(t) : s[i].seq < t[j].seq
    /\ \A i \in News(s) : \A j \in Snapshots(t) : s[i].seq <= t[j].seq

(* All of it is news to a client with this cursor and these events *)
NewTo(s, got, position) ==
    /\ \A i \in Events(s) : \A n \in got : n < s[i].seq
    /\ \A i \in Snapshots(s) : position <= s[i].seq

(* Numbers of events that were committed *)
Committed(s, n) ==
    /\ \A i \in News(s) : s[i].seq <= n
    /\ \A i \in Events(s) : s[i].seq > 0
EventsUpTo(s, n) == \A i \in Events(s) : s[i].seq <= n

(* hand, outq and todo, in this order *)
Stream ==
    /\ Ordered(hand) /\ Ordered(outq) /\ Ordered(todo)
    /\ Precedes(hand, outq) /\ Precedes(hand, todo) /\ Precedes(outq, todo)
    /\ NewTo(hand, received, cursor) /\ NewTo(outq, received, cursor)
    /\ NewTo(todo, received, cursor)
    /\ Committed(hand, last) /\ Committed(outq, last) /\ Committed(todo, last)

(* Where the subscription stands in the stream *)
Position ==
    /\ stage \in {"replay", "snapshot"} => outq = <<>> /\ hand = <<>>
    /\ stage \notin {"put", "flush"} => todo = <<>>
    /\ stage = "off" => snap = 0
    /\ stage = "replay" => cursor <= after /\ after = (IF snap > 0 THEN snap ELSE cursor)
    /\ stage = "snapshot" => last > 0
    /\ stage \in {"put", "flush", "live"} =>
          /\ EventsUpTo(hand, delivered) /\ EventsUpTo(outq, delivered)
          /\ \A n \in received : n <= delivered
    /\ stage = "put" => EventsUpTo(todo, delivered)
    /\ stage = "flush" => \A i \in 1..Len(todo) : todo[i].kind = "event" /\ todo[i].seq > delivered

Remembered ==
    /\ \A n \in received : n <= cursor
    /\ \A i \in 1..Len(owed) : owed[i] <= last

IInv == Bounds /\ TypeOK /\ Stream /\ Position /\ Remembered

----------------------------------------------------------------------------
(* Completeness, until the server does one of the things that lose events *)

CoveredBy(s, n) == \E i \in 1..Len(s) : Covers(s[i], n)

(* Before each event of s comes everything older, or the client has it *)
Chain(base, s) ==
    \A i \in Events(s) : \A n \in 1..s[i].seq - 1 :
        n \in base \/ \E j \in 1..i - 1 : Covers(s[j], n)

(* The first item of s starts no gap *)
Starts(base, s) == s # <<>> /\ s[1].kind = "event" => 1..s[1].seq - 1 \subseteq base

(* All that the subscription has for the client *)
AllItems == InFlight \o todo

(* Events that were committed behind last_delivered and will follow: held  *)
(* back with their bundle, or buffered until the replay is enqueued        *)
Awaited(n) ==
    n > delivered /\ (n \in ToSet(owed) \/ (stage = "put" /\ n \in buffer))

(* A slow consumer gets one item more, the one in front of what was        *)
(* dropped; the others get everything.                                     *)
Complete ==
    /\ CursorIsWhole
    /\ \A n \in 1..last : n \in present \/ n <= floor
    /\ \A n \in buffer : \A m \in ToSet(owed) : n < m
    /\ ~slow => Chain(known, AllItems)
    /\ Starts(known, InFlight)
    /\ slow => InFlight # <<>> /\ stage \in {"off", "live"}
    /\ stage \in {"put", "flush", "live"} /\ ~slow =>
          \A n \in 1..last : n \in known \/ CoveredBy(AllItems, n) \/ Awaited(n)

----------------------------------------------------------------------------
(* Numbers and sorted sequences *)

\* A bounded set of numbers has a largest element
LEMMA LargestExists ==
    ASSUME NEW N \in Nat, NEW S, S \subseteq 0..N, S # {}
    PROVE  \E x \in S : \A y \in S : y <= x
  <1> DEFINE T == {t \in Nat : \E x \in S : x = N - t}
  <1>1. T # {}
    <2>1. PICK x \in S : TRUE OBVIOUS
    <2>2. N - x \in Nat /\ x = N - (N - x) BY <2>1
    <2>3. N - x \in T BY <2>1, <2>2
    <2> QED BY <2>3
  <1>2. PICK t \in T : \A u \in T : ~(<<u, t>> \in OpToRel(<, Nat))
    <2>1. T \subseteq Nat OBVIOUS
    <2> HIDE DEF T
    <2> QED BY <1>1, <2>1, NatLessThanWellFounded, WFMin
  <1>3. \A u \in T : ~(u < t) BY <1>2 DEF OpToRel
  <1>4. PICK x \in S : x = N - t BY <1>2
  <1>5. ASSUME NEW y \in S PROVE y <= x
    <2>1. N - y \in Nat /\ y = N - (N - y) OBVIOUS
    <2>2. N - y \in T BY <2>1
    <2>3. ~(N - y < t) BY <1>3, <2>2
    <2> QED BY <1>4, <2>3
  <1> QED BY <1>5

\* and Max is that element
LEMMA MaxIsLargest ==
    ASSUME NEW N \in Nat, NEW S, S \subseteq 0..N, S # {}
    PROVE  Max(S) \in S /\ \A y \in S : y <= Max(S)
  BY LargestExists DEF Max

\* The larger of two numbers
LEMMA MaxOfTwo ==
    ASSUME NEW a \in Nat, NEW b \in Nat
    PROVE  Max({a, b}) = IF a >= b THEN a ELSE b
  BY DEF Max

\* The smaller of two numbers
LEMMA MinOfTwo ==
    ASSUME NEW a \in Int, NEW b \in Int
    PROVE  Min({a, b}) = IF a <= b THEN a ELSE b
  BY DEF Min

Lists(S, s) ==
    /\ s \in [1..Cardinality(S) -> S] /\ ToSet(s) = S
    /\ \A i, j \in 1..Cardinality(S) : i < j => s[i] < s[j]

(* Every set of event numbers can be listed in increasing order *)
LEMMA SortedExists ==
    ASSUME NEW N \in Nat, NEW S, S \subseteq 0..N
    PROVE  IsFiniteSet(S) /\ Cardinality(S) \in Nat /\ \E s : Lists(S, s)
  <1>0. IsFiniteSet(0..N) BY FS_Interval
  <1>1. \A A \in SUBSET (0..N) : IsFiniteSet(A) /\ Cardinality(A) \in Nat
    BY <1>0, FS_Subset, FS_CardinalityType
  <1> DEFINE Bad == {A \in SUBSET (0..N) : ~\E s : Lists(A, s)}
             Sizes == {Cardinality(A) : A \in Bad}
  <1>2. ASSUME Bad # {} PROVE FALSE
    <2>1. Sizes \subseteq Nat /\ Sizes # {} BY <1>1, <1>2
    <2>2. PICK m \in Sizes : \A u \in Sizes : ~(<<u, m>> \in OpToRel(<, Nat))
      BY <2>1, NatLessThanWellFounded, WFMin
    <2>3. \A u \in Sizes : ~(u < m) BY <2>1, <2>2 DEF OpToRel
    <2>4. PICK A \in Bad : m = Cardinality(A) BY <2>2
    <2>5. A # {}
      <3>1. ASSUME A = {} PROVE FALSE
        <4>1. Cardinality(A) = 0 BY <3>1, FS_EmptySet
        <4>2. Lists(A, [i \in 1..0 |-> 0]) BY <3>1, <4>1 DEF Lists, ToSet
        <4> QED BY <2>4, <4>2
      <3> QED BY <3>1
    <2>6. PICK x \in A : \A y \in A : y <= x BY <2>4, <2>5, LargestExists
    <2> DEFINE B == A \ {x}
    <2>7. B \in SUBSET (0..N) /\ IsFiniteSet(B) /\ x \notin B /\ A = B \cup {x}
      BY <1>1, <2>4
    <2>8. Cardinality(A) = Cardinality(B) + 1 /\ Cardinality(B) \in Nat
      BY <1>1, <2>7, FS_AddElement
    <2>9. PICK s : Lists(B, s)
      <3>1. Cardinality(B) < m BY <2>4, <2>8
      <3>2. B \notin Bad BY <2>3, <3>1
      <3> QED BY <2>7, <3>2
    <2> DEFINE k == Cardinality(B)
               t == [i \in 1..k + 1 |-> IF i = k + 1 THEN x ELSE s[i]]
    <2>10. /\ s \in [1..k -> B] /\ \A i, j \in 1..k : i < j => s[i] < s[j]
           /\ \A y \in B : \E i \in 1..k : s[i] = y
      BY <2>9 DEF Lists, ToSet
    <2>11. k \in Nat /\ Cardinality(A) = k + 1 BY <2>8
    <2>12. \A y \in B : y < x /\ y \in Nat /\ x \in Nat BY <2>4, <2>6, <2>7
    <2> HIDE DEF k, B
    <2>13. t \in [1..k + 1 -> A] BY <2>7, <2>10, <2>11
    <2>14. \A i, j \in 1..k + 1 : i < j => t[i] < t[j]
      BY <2>10, <2>11, <2>12
    <2>15. ToSet(t) = A
      <3>1. \A y \in A : \E i \in 1..k + 1 : t[i] = y
        <4>1. t[k + 1] = x BY <2>11
        <4>2. \A i \in 1..k : t[i] = s[i] BY <2>11
        <4>3. k + 1 \in 1..k + 1 /\ \A i \in 1..k : i \in 1..k + 1 BY <2>11
        <4> QED BY <2>7, <2>10, <4>1, <4>2, <4>3
      <3> QED BY <2>13, <3>1 DEF ToSet
    <2>16. Lists(A, t) BY <2>11, <2>13, <2>14, <2>15 DEF Lists
    <2> QED BY <2>4, <2>16
  <1> QED BY <1>1, <1>2

\* Sorted lists the numbers of S, each once, in increasing order
LEMMA SortedProperties ==
    ASSUME NEW N \in Nat, NEW S, S \subseteq 0..N
    PROVE  /\ Sorted(S) \in Seq(S)
           /\ Len(Sorted(S)) = Cardinality(S)
           /\ \A n \in S : \E i \in 1..Len(Sorted(S)) : Sorted(S)[i] = n
           /\ \A i, j \in 1..Len(Sorted(S)) : i < j => Sorted(S)[i] < Sorted(S)[j]
  <1> DEFINE s == Sorted(S)
  <1>1. \E t \in [1..Cardinality(S) -> S] :
           ToSet(t) = S /\ \A i, j \in 1..Cardinality(S) : i < j => t[i] < t[j]
    BY SortedExists DEF Lists
  <1>2. /\ s \in [1..Cardinality(S) -> S] /\ ToSet(s) = S
        /\ \A i, j \in 1..Cardinality(S) : i < j => s[i] < s[j]
    BY <1>1 DEF Sorted
  <1>3. Cardinality(S) \in Nat BY SortedExists
  <1> HIDE DEF s
  <1>4. s \in Seq(S) /\ Len(s) = Cardinality(S) BY <1>2, <1>3
  <1>5. \A n \in S : \E i \in 1..Len(s) : s[i] = n BY <1>2, <1>4 DEF ToSet
  <1> QED BY <1>2, <1>4, <1>5 DEF s

----------------------------------------------------------------------------
(* Parts of a stream *)

Items == Seq(Item)

(* t lies in s, behind its first k items *)
Segment(t, s, k) ==
    /\ k \in Nat /\ Len(t) + k <= Len(s)
    /\ \A i \in 1..Len(t) : t[i] = s[i + k]

\* An item of a segment is an item of the whole
LEMMA SegmentIndex ==
    ASSUME NEW s \in Items, NEW t \in Items, NEW k, Segment(t, s, k), NEW i \in 1..Len(t)
    PROVE  /\ i + k \in 1..Len(s) /\ s[i + k] = t[i] /\ i \in Nat /\ k \in Nat
           /\ i \in Events(t) <=> i + k \in Events(s)
           /\ i \in Snapshots(t) <=> i + k \in Snapshots(s)
           /\ i \in News(t) <=> i + k \in News(s)
  <1>1. Len(s) \in Nat /\ Len(t) \in Nat BY DEF Items
  <1>2. i + k \in 1..Len(s) /\ s[i + k] = t[i] /\ i \in Nat /\ k \in Nat
    BY <1>1 DEF Segment
  <1> QED BY <1>2 DEF Events, Snapshots, News

\* What holds of a stream holds of its segments
LEMMA SegmentKeeps ==
    ASSUME NEW s \in Items, NEW t \in Items, NEW k, Segment(t, s, k)
    PROVE  /\ Ordered(s) => Ordered(t)
           /\ \A r : Precedes(s, r) => Precedes(t, r)
           /\ \A r : Precedes(r, s) => Precedes(r, t)
           /\ \A got, n : NewTo(s, got, n) => NewTo(t, got, n)
           /\ \A n : Committed(s, n) => Committed(t, n)
           /\ \A n : EventsUpTo(s, n) => EventsUpTo(t, n)
  <1>0. /\ \A i \in Events(t) : i \in 1..Len(t) /\ i + k \in Events(s) /\ s[i + k] = t[i] /\ i \in Nat
        /\ \A i \in Snapshots(t) : i \in 1..Len(t) /\ i + k \in Snapshots(s) /\ s[i + k] = t[i] /\ i \in Nat
        /\ \A i \in News(t) : i \in 1..Len(t) /\ i + k \in News(s) /\ s[i + k] = t[i] /\ i \in Nat
    <2>1. \A i \in Events(t) : i \in 1..Len(t) BY DEF Events
    <2>2. \A i \in Snapshots(t) : i \in 1..Len(t) BY DEF Snapshots
    <2>3. \A i \in News(t) : i \in 1..Len(t) BY <2>1, <2>2 DEF News
    <2> QED BY <2>1, <2>2, <2>3, SegmentIndex
  <1>k. k \in Nat BY DEF Segment
  <1>1. Ordered(s) => Ordered(t)
    <2>1. \A i, j : i \in Nat /\ j \in Nat /\ i < j => i + k < j + k BY <1>k
    <2> SUFFICES ASSUME Ordered(s) PROVE Ordered(t) OBVIOUS
    <2>2. \A i, j \in Events(t) : i < j => t[i].seq < t[j].seq
      BY <1>0, <2>1 DEF Ordered
    <2>3. \A i \in News(t) : \A j \in Snapshots(t) : i < j => t[i].seq <= t[j].seq
      BY <1>0, <2>1 DEF Ordered
    <2> QED BY <2>2, <2>3 DEF Ordered
  <1>2. \A r : Precedes(s, r) => Precedes(t, r) BY <1>0 DEF Precedes
  <1>3. \A r : Precedes(r, s) => Precedes(r, t) BY <1>0 DEF Precedes
  <1>4. \A got, n : NewTo(s, got, n) => NewTo(t, got, n) BY <1>0 DEF NewTo
  <1>5. \A n : Committed(s, n) => Committed(t, n) BY <1>0 DEF Committed
  <1>6. \A n : EventsUpTo(s, n) => EventsUpTo(t, n) BY <1>0 DEF EventsUpTo
  <1> QED BY <1>1, <1>2, <1>3, <1>4, <1>5, <1>6

\* Of two segments of an ordered stream the first precedes the second
LEMMA SplitPrecedes ==
    ASSUME NEW s \in Items, NEW t \in Items, NEW u \in Items, NEW k, NEW m,
           Segment(t, s, k), Segment(u, s, m), k + Len(t) <= m, Ordered(s)
    PROVE  Precedes(t, u)
  <1>0. k \in Nat /\ m \in Nat /\ Len(t) \in Nat BY DEF Segment, Items
  <1>1. \A i \in 1..Len(t), j \in 1..Len(u) : i + k < j + m
    <2>1. Len(u) \in Nat BY DEF Items
    <2> QED BY <1>0, <2>1
  <1>2. \A i \in Events(t) : i \in 1..Len(t) /\ i + k \in Events(s) /\ s[i + k] = t[i]
    BY SegmentIndex DEF Events
  <1>3. \A i \in News(t) : i \in 1..Len(t) /\ i + k \in News(s) /\ s[i + k] = t[i]
    BY SegmentIndex DEF Events, Snapshots, News
  <1>4. \A j \in Events(u) : j \in 1..Len(u) /\ j + m \in Events(s) /\ s[j + m] = u[j]
    BY SegmentIndex DEF Events
  <1>5. \A j \in Snapshots(u) : j \in 1..Len(u) /\ j + m \in Snapshots(s) /\ s[j + m] = u[j]
    BY SegmentIndex DEF Snapshots
  <1>6. \A i \in Events(t) : \A j \in Events(u) : t[i].seq < u[j].seq
    BY <1>1, <1>2, <1>4 DEF Ordered
  <1>7. \A i \in News(t) : \A j \in Snapshots(u) : t[i].seq <= u[j].seq
    BY <1>1, <1>3, <1>5 DEF Ordered
  <1> QED BY <1>6, <1>7 DEF Precedes

(* s \o t has s in front and t behind, and nothing else *)
LEMMA ConcatSegments ==
    ASSUME NEW s \in Items, NEW t \in Items
    PROVE  /\ s \o t \in Items /\ Len(s \o t) = Len(s) + Len(t)
           /\ Segment(s, s \o t, 0) /\ Segment(t, s \o t, Len(s))
           /\ \A i \in 1..Len(s \o t) : i \in 1..Len(s) \/ i - Len(s) \in 1..Len(t)
  <1>1. Len(s) \in Nat /\ Len(t) \in Nat /\ s \o t \in Items /\ Len(s \o t) = Len(s) + Len(t)
    BY DEF Items
  <1>2. \A i \in 1..Len(s) : (s \o t)[i] = s[i] BY DEF Items
  <1>3. \A i \in 1..Len(t) : (s \o t)[i + Len(s)] = t[i] BY DEF Items
  <1> QED BY <1>1, <1>2, <1>3 DEF Segment

\* What holds of two streams, one after the other, holds of both together
LEMMA ConcatKeeps ==
    ASSUME NEW s \in Items, NEW t \in Items
    PROVE  /\ Ordered(s) /\ Ordered(t) /\ Precedes(s, t) => Ordered(s \o t)
           /\ \A r : Precedes(s, r) /\ Precedes(t, r) => Precedes(s \o t, r)
           /\ \A r : Precedes(r, s) /\ Precedes(r, t) => Precedes(r, s \o t)
           /\ \A got, n : NewTo(s, got, n) /\ NewTo(t, got, n) => NewTo(s \o t, got, n)
           /\ \A n : Committed(s, n) /\ Committed(t, n) => Committed(s \o t, n)
           /\ \A n : EventsUpTo(s, n) /\ EventsUpTo(t, n) => EventsUpTo(s \o t, n)
  <1> DEFINE u == s \o t
             k == Len(s)
  <1>0. /\ u \in Items /\ Len(u) = k + Len(t) /\ Segment(s, u, 0) /\ Segment(t, u, k)
        /\ \A i \in 1..Len(u) : i \in 1..k \/ i - k \in 1..Len(t)
        /\ k \in Nat /\ Len(t) \in Nat
    BY ConcatSegments DEF Items
  <1> HIDE DEF u, k
  <1>a. \A i \in 1..k : /\ u[i] = s[i] /\ (i \in Events(u) => i \in Events(s))
                        /\ (i \in Snapshots(u) => i \in Snapshots(s))
    BY <1>0 DEF Segment, Events, Snapshots, k
  <1>b. \A i \in 1..Len(u) : i - k \in 1..Len(t) =>
           /\ u[i] = t[i - k] /\ (i \in Events(u) => i - k \in Events(t))
           /\ (i \in Snapshots(u) => i - k \in Snapshots(t))
    BY <1>0 DEF Segment, Events, Snapshots
  <1>c. \A i \in Events(u) : i \in 1..Len(u)
           /\ \/ i \in Events(s) /\ u[i] = s[i] /\ i \in 1..k
              \/ i - k \in Events(t) /\ u[i] = t[i - k] /\ i > k
    BY <1>0, <1>a, <1>b DEF Events
  <1>d. \A i \in Snapshots(u) : i \in 1..Len(u)
           /\ \/ i \in Snapshots(s) /\ u[i] = s[i] /\ i \in 1..k
              \/ i - k \in Snapshots(t) /\ u[i] = t[i - k] /\ i > k
    BY <1>0, <1>a, <1>b DEF Snapshots
  <1>e. \A i \in News(u) : i \in 1..Len(u)
           /\ \/ i \in News(s) /\ u[i] = s[i] /\ i \in 1..k
              \/ i - k \in News(t) /\ u[i] = t[i - k] /\ i > k
    BY <1>c, <1>d DEF News
  <1>1. ASSUME Ordered(s), Ordered(t), Precedes(s, t) PROVE Ordered(u)
    <2>1. ASSUME NEW i \in Events(u), NEW j \in Events(u), i < j PROVE u[i].seq < u[j].seq
      BY <1>0, <1>1, <1>c, <2>1 DEF Ordered, Precedes
    <2>2. ASSUME NEW i \in News(u), NEW j \in Snapshots(u), i < j PROVE u[i].seq <= u[j].seq
      BY <1>0, <1>1, <1>d, <1>e, <2>2 DEF Ordered, Precedes
    <2> QED BY <2>1, <2>2 DEF Ordered
  <1>2. \A r : Precedes(s, r) /\ Precedes(t, r) => Precedes(u, r)
    BY <1>c, <1>e DEF Precedes
  <1>3. \A r : Precedes(r, s) /\ Precedes(r, t) => Precedes(r, u)
    BY <1>c, <1>d DEF Precedes
  <1>4. \A got, n : NewTo(s, got, n) /\ NewTo(t, got, n) => NewTo(u, got, n)
    BY <1>c, <1>d DEF NewTo
  <1>5. \A n : Committed(s, n) /\ Committed(t, n) => Committed(u, n)
    BY <1>c, <1>e DEF Committed
  <1>6. \A n : EventsUpTo(s, n) /\ EventsUpTo(t, n) => EventsUpTo(u, n)
    BY <1>c DEF EventsUpTo
  <1> QED BY <1>1, <1>2, <1>3, <1>4, <1>5, <1>6 DEF u

\* The items of a stream are numbered
LEMMA ItemSeq ==
    ASSUME MaxSeq \in Nat, NEW s \in Items, NEW i \in 1..Len(s)
    PROVE  s[i] \in Item /\ s[i].seq \in Nat /\ s[i].seq \in 0..MaxSeq
  <1>1. s[i] \in Item BY DEF Items
  <1>2. \A x \in Item : x.seq \in 0..MaxSeq BY DEF Item
  <1> QED BY <1>1, <1>2

(* What holds of a stream with nothing in it, or nothing but a response *)
LEMMA NoNews ==
    ASSUME NEW s \in Items, News(s) = {}
    PROVE  /\ Ordered(s) /\ \A r : Precedes(s, r) /\ Precedes(r, s)
           /\ \A got, n : NewTo(s, got, n)
           /\ \A n : Committed(s, n) /\ EventsUpTo(s, n)
  <1>1. Events(s) = {} /\ Snapshots(s) = {} BY DEF News
  <1> QED BY <1>1 DEF Ordered, Precedes, NewTo, Committed, EventsUpTo

\* Nothing on its way is in order
LEMMA EmptyStream ==
    /\ <<>> \in Items /\ News(<<>>) = {} /\ Len(<<>>) = 0
    /\ Ordered(<<>>) /\ \A r : Precedes(<<>>, r) /\ Precedes(r, <<>>)
    /\ \A got, n : NewTo(<<>>, got, n)
    /\ \A n : Committed(<<>>, n) /\ EventsUpTo(<<>>, n)
  <1>1. <<>> \in Items /\ Len(<<>>) = 0 BY DEF Items
  <1>2. News(<<>>) = {} BY <1>1 DEF News, Events, Snapshots
  <1> QED BY <1>1, <1>2, NoNews

\* A stream of one item
LEMMA Singleton ==
    ASSUME NEW x \in Item
    PROVE  /\ <<x>> \in Items /\ Len(<<x>>) = 1 /\ <<x>>[1] = x
           /\ Events(<<x>>) = IF x.kind = "event" THEN {1} ELSE {}
           /\ Snapshots(<<x>>) = IF x.kind = "snapshot" THEN {1} ELSE {}
           /\ News(<<x>>) = IF x.kind = "response" THEN {} ELSE {1}
  <1>1. <<x>> \in Items /\ Len(<<x>>) = 1 /\ <<x>>[1] = x BY DEF Items
  <1>2. x.kind \in {"event", "snapshot", "response"} BY DEF Item
  <1>3. Events(<<x>>) = IF x.kind = "event" THEN {1} ELSE {} BY <1>1 DEF Events
  <1>4. Snapshots(<<x>>) = IF x.kind = "snapshot" THEN {1} ELSE {} BY <1>1 DEF Snapshots
  <1> QED BY <1>1, <1>2, <1>3, <1>4 DEF News

(* The first item, and the rest *)
LEMMA HeadTail ==
    ASSUME NEW s \in Items, s # <<>>
    PROVE  /\ Head(s) \in Item /\ <<Head(s)>> \in Items /\ Tail(s) \in Items
           /\ Len(s) > 0 /\ Len(Tail(s)) = Len(s) - 1 /\ Head(s) = s[1]
           /\ Segment(<<Head(s)>>, s, 0) /\ Segment(Tail(s), s, 1)
           /\ Ordered(s) => Precedes(<<Head(s)>>, Tail(s))
  <1>1. /\ Head(s) \in Item /\ Tail(s) \in Items /\ Len(s) \in Nat /\ Len(s) > 0
        /\ Len(Tail(s)) = Len(s) - 1 /\ Head(s) = s[1]
        /\ \A i \in 1..Len(s) - 1 : Tail(s)[i] = s[i + 1]
    BY DEF Items
  <1>2. <<Head(s)>> \in Items /\ Len(<<Head(s)>>) = 1 /\ <<Head(s)>>[1] = Head(s)
    BY <1>1, Singleton
  <1>3. Segment(<<Head(s)>>, s, 0) /\ Segment(Tail(s), s, 1) BY <1>1, <1>2 DEF Segment
  <1>4. Ordered(s) => Precedes(<<Head(s)>>, Tail(s))
    <2>1. PICK t \in Items, u \in Items : t = <<Head(s)>> /\ u = Tail(s) BY <1>1, <1>2
    <2>2. Segment(t, s, 0) /\ Segment(u, s, 1) /\ 0 + Len(t) <= 1 BY <1>2, <1>3, <2>1
    <2>3. Ordered(s) => Precedes(t, u) BY <2>2, SplitPrecedes
    <2> QED BY <2>1, <2>3
  <1> QED BY <1>1, <1>2, <1>3, <1>4

\* A prefix is a segment
LEMMA Prefix ==
    ASSUME NEW s \in Items, NEW k \in 0..Len(s)
    PROVE  /\ SubSeq(s, 1, k) \in Items /\ Len(SubSeq(s, 1, k)) = k
           /\ Segment(SubSeq(s, 1, k), s, 0)
  <1>1. SubSeq(s, 1, k) \in Items /\ Len(SubSeq(s, 1, k)) = k
        /\ \A i \in 1..k : SubSeq(s, 1, k)[i] = s[i]
    BY DEF Items
  <1> QED BY <1>1 DEF Segment, Items

(* The events of a set, in order *)
IsEventList(S, s) ==
    /\ s \in Items /\ Ordered(s)
    /\ \A i \in 1..Len(s) : s[i].kind = "event" /\ s[i].seq \in S /\ s[i] = EventItem(s[i].seq)
    /\ \A n \in S : \E i \in 1..Len(s) : s[i] = EventItem(n)
    /\ \A i, j \in 1..Len(s) : i < j => s[i].seq < s[j].seq
    /\ S = {} <=> s = <<>>
    /\ Len(s) = Len(Sorted(S))

\* EventItems of a sorted set lists its events in order
LEMMA EventList ==
    ASSUME MaxSeq \in Nat, NEW S, S \subseteq 1..MaxSeq, NEW s, s = EventItems(Sorted(S))
    PROVE  IsEventList(S, s)
  <1>0. S \subseteq 0..MaxSeq OBVIOUS
  <1>1. PICK t : t = Sorted(S) OBVIOUS
  <1>2. /\ t \in Seq(S) /\ \A n \in S : \E i \in 1..Len(t) : t[i] = n
        /\ \A i, j \in 1..Len(t) : i < j => t[i] < t[j]
    BY <1>0, <1>1, SortedProperties
  <1>3. Len(t) \in Nat /\ \A i \in 1..Len(t) : t[i] \in S /\ t[i] \in 0..MaxSeq
    <2>1. Len(t) \in Nat /\ \A i \in 1..Len(t) : t[i] \in S BY <1>2
    <2> QED BY <1>0, <2>1
  <1>4. s = [i \in 1..Len(t) |-> EventItem(t[i])] BY <1>1 DEF EventItems
  <1>5. \A n \in 0..MaxSeq : EventItem(n) \in Item /\ EventItem(n).kind = "event" /\ EventItem(n).seq = n
    BY DEF EventItem, Item
  <1>6. s \in Items /\ Len(s) = Len(t) BY <1>3, <1>4, <1>5 DEF Items
  <1>7. \A i \in 1..Len(s) : s[i] = EventItem(t[i]) /\ s[i].kind = "event" /\ s[i].seq = t[i]
    BY <1>3, <1>4, <1>5, <1>6
  <1>8. Events(s) = 1..Len(s) /\ Snapshots(s) = {} /\ News(s) = 1..Len(s)
    BY <1>7 DEF Events, Snapshots, News
  <1>9. \A i, j \in 1..Len(s) : i < j => s[i].seq < s[j].seq BY <1>2, <1>6, <1>7
  <1>10. Ordered(s) BY <1>8, <1>9 DEF Ordered
  <1>11. S = {} <=> s = <<>>
    <2>1. S = {} => Len(t) = 0 BY <1>3
    <2>2. Len(s) = 0 <=> s = <<>> BY <1>6 DEF Items
    <2>3. ASSUME NEW n \in S PROVE Len(t) # 0
      <3>1. PICK i \in 1..Len(t) : t[i] = n BY <1>2
      <3> QED BY <1>3, <3>1
    <2> QED BY <1>6, <2>1, <2>2, <2>3
  <1>12. \A n \in S : \E i \in 1..Len(s) : s[i] = EventItem(n) BY <1>2, <1>6, <1>7
  <1>13. \A i \in 1..Len(s) : s[i].kind = "event" /\ s[i].seq \in S /\ s[i] = EventItem(s[i].seq)
    BY <1>3, <1>6, <1>7
  <1> QED BY <1>1, <1>6, <1>9, <1>10, <1>11, <1>12, <1>13 DEF IsEventList

(* Newer events may follow what has older ones *)
LEMMA EventListFits ==
    ASSUME MaxSeq \in Nat, NEW s \in Items, \A i \in 1..Len(s) : s[i].kind = "event",
           NEW low, NEW high, \A i \in 1..Len(s) : s[i].seq > low /\ s[i].seq > 0 /\ s[i].seq <= high,
           low \in Nat
    PROVE  /\ Committed(s, high) /\ EventsUpTo(s, high)
           /\ \A r \in Items : EventsUpTo(r, low) => Precedes(r, s)
           /\ \A got, n : got \subseteq 0..low => NewTo(s, got, n)
  <1>1. Events(s) = 1..Len(s) /\ Snapshots(s) = {} /\ News(s) = 1..Len(s)
    BY DEF Events, Snapshots, News
  <1>2. \A i \in 1..Len(s) : s[i].seq \in Nat BY ItemSeq
  <1>3. \A r \in Items : \A i \in Events(r) : r[i].seq \in Nat
    BY ItemSeq DEF Events
  <1>4. \A r \in Items : EventsUpTo(r, low) => Precedes(r, s)
    BY <1>1, <1>2, <1>3 DEF EventsUpTo, Precedes
  <1>5. ASSUME NEW got, NEW n, got \subseteq 0..low PROVE NewTo(s, got, n)
    <2>1. ASSUME NEW i \in 1..Len(s), NEW m \in got PROVE m < s[i].seq
      <3>1. m \in 0..low /\ s[i].seq > low /\ s[i].seq \in Nat BY <1>2, <1>5
      <3> QED BY <3>1
    <2> QED BY <1>1, <2>1 DEF NewTo
  <1> QED BY <1>1, <1>4, <1>5 DEF Committed, EventsUpTo

\* The elements of a sequence
LEMMA Element ==
    ASSUME NEW T, NEW s \in Seq(T)
    PROVE  Len(s) \in Nat /\ \A i \in 1..Len(s) : s[i] \in T
  OBVIOUS

(* _put keeps the order of the queue, whatever it drops *)
LEMMA PutKeeps ==
    ASSUME Bounds, TypeOK, Stream, NEW s \in Items, Put(s),
           Ordered(s), Precedes(hand, s), Precedes(outq, s)
    PROVE  /\ outq' \in Items /\ Len(outq') <= QueueMax /\ slow' \in BOOLEAN
           /\ Ordered(outq') /\ Precedes(hand, outq')
           /\ \A got, n : NewTo(outq, got, n) /\ NewTo(s, got, n) => NewTo(outq', got, n)
           /\ \A n : Committed(outq, n) /\ Committed(s, n) => Committed(outq', n)
           /\ \A n : EventsUpTo(outq, n) /\ EventsUpTo(s, n) => EventsUpTo(outq', n)
  <1>1. /\ outq \in Items /\ hand \in Items /\ Len(outq) <= QueueMax /\ QueueMax \in Nat
        /\ Len(outq) \in Nat /\ Len(s) \in Nat
    BY DEF Bounds, TypeOK, Items
  <1>2. PICK k : k = Min({Room, Len(s)}) OBVIOUS
  <1>3. k \in 0..Len(s) /\ Len(outq) + k <= QueueMax
    BY <1>1, <1>2, MinOfTwo DEF Room
  <1>4. PICK p : p = SubSeq(s, 1, k) OBVIOUS
  <1>5. p \in Items /\ Len(p) = k /\ Segment(p, s, 0) BY <1>3, <1>4, Prefix
  <1>6. outq' = outq \o p BY <1>2, <1>4 DEF Put
  <1>7. /\ Ordered(p) /\ Precedes(hand, p) /\ Precedes(outq, p)
        /\ \A got, n : NewTo(s, got, n) => NewTo(p, got, n)
        /\ \A n : Committed(s, n) => Committed(p, n)
        /\ \A n : EventsUpTo(s, n) => EventsUpTo(p, n)
    BY <1>5, SegmentKeeps
  <1>8. outq' \in Items /\ Len(outq') <= QueueMax
    BY <1>1, <1>3, <1>5, <1>6, ConcatSegments
  <1>9. Ordered(outq') /\ Precedes(hand, outq')
    BY <1>1, <1>5, <1>6, <1>7, ConcatKeeps DEF Stream
  <1>10. \A got, n : NewTo(outq, got, n) /\ NewTo(s, got, n) => NewTo(outq', got, n)
    BY <1>1, <1>5, <1>6, <1>7, ConcatKeeps
  <1>11. \A n : Committed(outq, n) /\ Committed(s, n) => Committed(outq', n)
    BY <1>1, <1>5, <1>6, <1>7, ConcatKeeps
  <1>12. \A n : EventsUpTo(outq, n) /\ EventsUpTo(s, n) => EventsUpTo(outq', n)
    BY <1>1, <1>5, <1>6, <1>7, ConcatKeeps
  <1>13. slow' \in BOOLEAN
    <2>1. slow' = (slow \/ Len(s) > Room) BY DEF Put
    <2> QED BY <2>1, Zenon
  <1> QED BY <1>8, <1>9, <1>10, <1>11, <1>12, <1>13

\* A bound may grow
LEMMA Later ==
    ASSUME MaxSeq \in Nat, NEW s \in Items, NEW m \in Nat, NEW n \in Nat, m <= n
    PROVE  /\ Committed(s, m) => Committed(s, n)
           /\ EventsUpTo(s, m) => EventsUpTo(s, n)
  <1>1. /\ \A i \in News(s) : i \in 1..Len(s)
        /\ \A i \in Events(s) : i \in 1..Len(s)
    BY DEF News, Events, Snapshots
  <1>2. \A i \in 1..Len(s) : s[i].seq \in Nat BY ItemSeq
  <1> QED BY <1>1, <1>2 DEF Committed, EventsUpTo

(* Each kind of step *)

\* The types, in the form the steps use them
LEMMA TypeFacts ==
    ASSUME Bounds, TypeOK
    PROVE  /\ MaxSeq \in Nat /\ last \in Nat /\ last <= MaxSeq /\ last \in 0..MaxSeq
           /\ hand \in Items /\ outq \in Items /\ todo \in Items
           /\ delivered \in Nat /\ delivered <= last /\ cursor \in Nat /\ cursor <= last
           /\ after \in Nat /\ after <= last /\ snap \in Nat /\ snap <= last
           /\ floor \in Nat /\ floor <= last
           /\ received \subseteq 1..last /\ buffer \subseteq 1..last /\ present \subseteq 1..last
           /\ known \subseteq 1..last
  BY DEF Bounds, TypeOK, Items

(* A step that leaves the client and what is on its way alone *)
LEMMA StoreStep ==
    ASSUME IInv, UNCHANGED <<connection, stage, after, snap, todo, delivered, client>>,
           last' \in 0..MaxSeq, last' >= last, present' \subseteq 1..last', floor' \in 0..last',
           owed' \in Seq(1..MaxSeq), \A i \in 1..Len(owed') : owed'[i] <= last',
           buffer' \subseteq 1..last', lossy' \in BOOLEAN
    PROVE  IInv'
  <1>1. Bounds' BY DEF IInv, Bounds
  <1> USE DEF IInv
  <1>2. TypeOK'
    BY TypeFacts DEF TypeOK, connection, client
  <1>3. Stream'
    <2>1. Committed(hand, last') /\ Committed(outq, last') /\ Committed(todo, last')
      BY TypeFacts, Later DEF Stream
    <2> QED BY <2>1 DEF Stream, connection, client
  <1>4. Position' BY TypeFacts DEF Position, connection, client
  <1>5. Remembered' BY DEF Remembered, connection, client
  <1> QED BY <1>1, <1>2, <1>3, <1>4, <1>5

\* Each action keeps the invariant: a bundle grows,
LEMMA BundleAppendStep == ASSUME IInv, BundleAppend PROVE IInv'
  <1>1. last' = last + 1 /\ last' \in 0..MaxSeq /\ present' = present \cup {last + 1} /\ owed' = Append(owed, last + 1)
        /\ UNCHANGED <<floor, lossy, connection, subscription, client>>
    BY TypeFacts DEF IInv, BundleAppend
  <1>2. owed \in Seq(1..MaxSeq) /\ last + 1 \in 1..MaxSeq BY <1>1, TypeFacts DEF IInv, TypeOK
  <1>3. owed' \in Seq(1..MaxSeq) /\ \A i \in 1..Len(owed') : owed'[i] <= last'
    <2>0. \A i \in 1..Len(owed) : owed[i] \in 1..MaxSeq BY <1>2, Element
    <2>1. \A i \in 1..Len(owed) : owed[i] <= last BY DEF IInv, Remembered
    <2>2. Len(owed') = Len(owed) + 1 /\ Len(owed) \in Nat /\ owed'[Len(owed) + 1] = last + 1
          /\ \A i \in 1..Len(owed) : owed'[i] = owed[i]
      BY <1>1, <1>2
    <2>3. owed' \in Seq(1..MaxSeq) BY <1>1, <1>2
    <2>4. last \in Nat BY TypeFacts DEF IInv
    <2> QED BY <1>1, <2>0, <2>1, <2>2, <2>3, <2>4
  <1>4. present' \subseteq 1..last' /\ floor' \in 0..last' /\ buffer' \subseteq 1..last' /\ last' >= last
    BY <1>1, TypeFacts DEF IInv, subscription
  <1>5. lossy' \in BOOLEAN BY <1>1 DEF IInv, TypeOK
  <1> QED BY <1>1, <1>3, <1>4, <1>5, StoreStep DEF subscription

\* operational events are pruned,
LEMMA PruneStep == ASSUME IInv, NEW k \in 1..MaxSeq, Prune(k) PROVE IInv'
  <1> DEFINE gone == {n \in present \cap Operational : n <= k}
  <1>1. /\ present' = present \ gone /\ floor' = Max({floor} \cup gone)
        /\ UNCHANGED <<last, owed, lossy, connection, subscription, client>>
    BY DEF Prune, Floor
  <1>2. {floor} \cup gone \subseteq 0..last /\ last \in Nat /\ last \in 0..MaxSeq BY TypeFacts DEF IInv
  <1>3. Max({floor} \cup gone) \in 0..last
    <2>1. PICK S : S = {floor} \cup gone OBVIOUS
    <2>2. S \subseteq 0..last /\ S # {} BY <1>2, <2>1
    <2>3. Max(S) \in S BY <1>2, <2>2, MaxIsLargest
    <2> QED BY <2>1, <2>2, <2>3
  <1>4. present' \subseteq 1..last' /\ buffer' \subseteq 1..last'
    BY <1>1, TypeFacts DEF IInv, subscription
  <1>5. owed' \in Seq(1..MaxSeq) /\ \A i \in 1..Len(owed') : owed'[i] <= last'
    BY <1>1 DEF IInv, TypeOK, Remembered
  <1>6. lossy' \in BOOLEAN BY <1>1 DEF IInv, TypeOK
  <1> HIDE DEF gone
  <1> QED BY <1>1, <1>2, <1>3, <1>4, <1>5, <1>6, StoreStep DEF subscription

(* on_event, for events that are committed by now *)
LEMMA NotifyStep ==
    ASSUME IInv, NEW ns \in Seq(1..MaxSeq), Notify(ns), \A i \in 1..Len(ns) : ns[i] <= last',
           last' \in 0..MaxSeq, last' >= last, present' \subseteq 1..last', floor' \in 0..last',
           owed' \in Seq(1..MaxSeq), \A i \in 1..Len(owed') : owed'[i] <= last',
           lossy' \in BOOLEAN, UNCHANGED <<conn, hand, stage, after, snap, todo, client>>
    PROVE  IInv'
  <1> USE DEF IInv
  <1>0. /\ MaxSeq \in Nat /\ last \in Nat /\ last' \in Nat /\ hand \in Items /\ outq \in Items
        /\ delivered \in Nat /\ delivered <= last /\ buffer \subseteq 1..last
        /\ received \subseteq 1..last
    BY TypeFacts
  <1>1. ToSet(ns) \subseteq 1..last'
    <2>1. ASSUME NEW i \in 1..Len(ns) PROVE ns[i] \in 1..last'
      <3>1. ns[i] \in 1..MaxSeq /\ ns[i] <= last' BY Element
      <3> QED BY <1>0, <3>1
    <2>2. DOMAIN ns = 1..Len(ns) OBVIOUS
    <2> QED BY <2>1, <2>2 DEF ToSet
  <1>2. CASE stage = "off"
    <2>1. UNCHANGED <<outq, slow, buffer, delivered>> BY <1>2 DEF Notify
    <2>2. buffer' \subseteq 1..last' BY <1>0, <2>1
    <2> QED BY <2>1, <2>2, StoreStep DEF connection
  <1>3. CASE stage \notin {"off", "live"}
    <2>1. buffer' = buffer \cup ToSet(ns) /\ UNCHANGED <<outq, slow, delivered>>
      BY <1>3 DEF Notify
    <2>2. buffer' \subseteq 1..last'
      <3>1. 1..last \subseteq 1..last' BY <1>0
      <3> QED BY <1>0, <1>1, <2>1, <3>1
    <2> QED BY <2>1, <2>2, StoreStep DEF connection
  <1>4. CASE stage = "live"
    <2>1. PICK S : S = {n \in ToSet(ns) : n > delivered} OBVIOUS
    <2>2. S \subseteq 1..MaxSeq /\ \A n \in S : n > delivered /\ n \in ToSet(ns) BY <1>0, <1>1, <2>1
    <2>3. PICK s : s = EventItems(Sorted(S)) OBVIOUS
    <2>4. Put(s) /\ delivered' = Max({delivered} \cup ToSet(ns)) /\ UNCHANGED buffer
      BY <1>4, <2>1, <2>3 DEF Notify, Fresh
    <2>5. /\ s \in Items /\ Ordered(s)
          /\ \A i \in 1..Len(s) : s[i].kind = "event" /\ s[i].seq \in S
      <3>1. S \subseteq 1..MaxSeq BY <2>2
      <3>2. IsEventList(S, s) BY <1>0, <2>3, <3>1, EventList
      <3> QED BY <3>2 DEF IsEventList
    <2>6. delivered' \in 0..last' /\ delivered' >= delivered /\ \A n \in S : n <= delivered'
      <3>1. PICK T : T = {delivered} \cup ToSet(ns) OBVIOUS
      <3>2. T \subseteq 0..last' /\ T # {} BY <1>0, <1>1, <3>1
      <3>3. Max(T) \in T /\ \A y \in T : y <= Max(T) BY <1>0, <3>2, MaxIsLargest
      <3> QED BY <2>2, <2>4, <3>1, <3>2, <3>3
    <2>7. \A i \in 1..Len(s) : s[i].seq > delivered /\ s[i].seq > 0 /\ s[i].seq <= delivered'
      <3>1. ASSUME NEW i \in 1..Len(s)
            PROVE  s[i].seq > delivered /\ s[i].seq > 0 /\ s[i].seq <= delivered'
        <4>1. PICK n \in S : n = s[i].seq BY <2>5
        <4>2. n > delivered /\ n <= delivered' /\ n \in 1..MaxSeq BY <2>2, <2>6, <4>1
        <4> QED BY <1>0, <4>1, <4>2
      <3> QED BY <3>1
    <2>8. received \subseteq 0..delivered
      BY <1>0, <1>4 DEF Position
    <2>9. /\ Committed(s, delivered') /\ EventsUpTo(s, delivered')
          /\ Precedes(hand, s) /\ Precedes(outq, s) /\ NewTo(s, received, cursor)
      <3>1. EventsUpTo(hand, delivered) /\ EventsUpTo(outq, delivered) BY <1>4 DEF Position
      <3>2. PICK d : d = delivered' OBVIOUS
      <3>3. \A i \in 1..Len(s) : s[i].seq > delivered /\ s[i].seq > 0 /\ s[i].seq <= d BY <2>7, <3>2
      <3>4. /\ Committed(s, d) /\ EventsUpTo(s, d) /\ NewTo(s, received, cursor)
            /\ \A r \in Items : EventsUpTo(r, delivered) => Precedes(r, s)
        BY <1>0, <2>5, <2>8, <3>3, EventListFits
      <3> QED BY <1>0, <3>1, <3>2, <3>4
    <2>10. Committed(s, last')
      BY <1>0, <2>5, <2>6, <2>9, Later
    <2>11. /\ outq' \in Items /\ Len(outq') <= QueueMax /\ slow' \in BOOLEAN
           /\ Ordered(outq') /\ Precedes(hand, outq')
           /\ \A got, n : NewTo(outq, got, n) /\ NewTo(s, got, n) => NewTo(outq', got, n)
           /\ \A n : Committed(outq, n) /\ Committed(s, n) => Committed(outq', n)
           /\ \A n : EventsUpTo(outq, n) /\ EventsUpTo(s, n) => EventsUpTo(outq', n)
      BY <2>4, <2>5, <2>9, PutKeeps
    <2>12. Committed(hand, last') /\ Committed(outq, last') /\ EventsUpTo(hand, delivered') /\ EventsUpTo(outq, delivered')
      <3>1. Committed(hand, last) /\ Committed(outq, last) BY DEF Stream
      <3>2. EventsUpTo(hand, delivered) /\ EventsUpTo(outq, delivered) BY <1>4 DEF Position
      <3> QED BY <1>0, <2>6, <3>1, <3>2, Later
    <2>13. todo = <<>> BY <1>4 DEF Position
    <2>14. Stream'
      <3>1. NewTo(outq', received, cursor) BY <2>9, <2>11 DEF Stream
      <3>2. Committed(outq', last') BY <2>10, <2>11, <2>12
      <3> QED BY <2>11, <2>12, <2>13, <3>1, <3>2, EmptyStream DEF Stream, client
    <2>15. Position'
      <3>1. EventsUpTo(outq', delivered') BY <2>9, <2>11, <2>12
      <3>2. \A n \in received : n <= delivered' BY <1>0, <2>6, <2>8
      <3> QED BY <1>4, <2>12, <2>13, <3>1, <3>2 DEF Position, client
    <2>16. TypeOK'
      <3>1. buffer' \subseteq 1..last' BY <1>0, <2>4
      <3> QED BY SMTT(30), <2>6, <2>11, <3>1, TypeFacts DEF TypeOK, client, Items
    <2>17. Remembered' BY DEF Remembered, client
    <2> QED BY <2>14, <2>15, <2>16, <2>17 DEF Bounds
  <1> QED BY <1>2, <1>3, <1>4

\* An event is committed and announced
LEMMA EmitStep == ASSUME IInv, Emit PROVE IInv'
  <1>1. /\ last' = last + 1 /\ present' = present \cup {last + 1} /\ Notify(<<last + 1>>)
        /\ UNCHANGED <<floor, owed, conn, hand, stage, after, snap, todo, client>> /\ last < MaxSeq
    BY DEF Emit
  <1>2. last' \in 0..MaxSeq /\ last' >= last /\ last + 1 \in 1..MaxSeq
        /\ present' \subseteq 1..last' /\ floor' \in 0..last'
    BY <1>1, TypeFacts DEF IInv
  <1>3. PICK ns \in Seq(1..MaxSeq) : ns = <<last + 1>>
    <2>1. PICK T : T = 1..MaxSeq OBVIOUS
    <2>2. <<last + 1>> \in Seq(T) BY <1>2, <2>1
    <2> QED BY <2>1, <2>2
  <1>4. Notify(ns) /\ \A i \in 1..Len(ns) : ns[i] <= last' BY <1>1, <1>2, <1>3
  <1>5. owed' \in Seq(1..MaxSeq) /\ \A i \in 1..Len(owed') : owed'[i] <= last'
    <2>1. owed \in Seq(1..MaxSeq) /\ \A i \in 1..Len(owed) : owed[i] <= last
      BY DEF IInv, TypeOK, Remembered
    <2>2. \A i \in 1..Len(owed) : owed[i] \in 1..MaxSeq BY <2>1, Element
    <2>3. last \in Nat BY TypeFacts DEF IInv
    <2> QED BY <1>1, <2>1, <2>2, <2>3
  <1>6. lossy' \in BOOLEAN
    <2>1. lossy' = (lossy \/ stage = "flush" \/ owed # <<>>) BY DEF Emit
    <2> QED BY <2>1, Zenon
  <1> QED BY <1>1, <1>2, <1>4, <1>5, <1>6, NotifyStep

\* A bundle is announced
LEMMA BundleNotifyStep == ASSUME IInv, BundleNotify PROVE IInv'
  <1>1. /\ Notify(owed) /\ owed' = <<>>
        /\ UNCHANGED <<last, present, floor, conn, hand, stage, after, snap, todo, client>>
    BY DEF BundleNotify
  <1>2. PICK ns \in Seq(1..MaxSeq) : ns = owed /\ \A i \in 1..Len(ns) : ns[i] <= last
    BY DEF IInv, TypeOK, Remembered
  <1>3. Notify(ns) BY <1>1, <1>2
  <1>4. last' \in 0..MaxSeq /\ last' >= last /\ present' \subseteq 1..last' /\ floor' \in 0..last'
    BY <1>1, TypeFacts DEF IInv
  <1>5. owed' \in Seq(1..MaxSeq) /\ \A i \in 1..Len(owed') : owed'[i] <= last' BY <1>1
  <1>6. \A i \in 1..Len(ns) : ns[i] <= last' BY <1>1, <1>2
  <1>7. lossy' \in BOOLEAN
    <2>1. lossy' = (lossy \/ stage = "flush") BY DEF BundleNotify
    <2> QED BY <2>1, Zenon
  <1> QED BY <1>1, <1>3, <1>4, <1>5, <1>6, <1>7, NotifyStep

(* A command that enqueues one item, while nothing is left to enqueue *)
LEMMA EnqueueStep ==
    ASSUME IInv, NEW x \in Item, Put(<<x>>), stage \in {"off", "live"}, x.kind # "event",
           x.kind = "snapshot" => x.seq = last,
           UNCHANGED <<store, conn, hand, subscription, client>>
    PROVE  IInv'
  <1> USE DEF IInv
  <1>0. MaxSeq \in Nat /\ last \in Nat /\ hand \in Items /\ outq \in Items /\ cursor <= last BY TypeFacts
  <1>1. PICK s \in Items : s = <<x>> BY Singleton
  <1>2. Len(s) = 1 /\ s[1] = x /\ Events(s) = {} /\ Snapshots(s) \subseteq {1}
        /\ News(s) = Snapshots(s) /\ (Snapshots(s) # {} => x.seq = last)
    BY <1>1, Singleton DEF News
  <1>3. Ordered(s) BY <1>2 DEF Ordered
  <1>4. Committed(s, last) /\ EventsUpTo(s, delivered) /\ NewTo(s, received, cursor)
    BY <1>0, <1>2 DEF Committed, EventsUpTo, NewTo
  <1>5. Precedes(hand, s) /\ Precedes(outq, s)
    <2>1. Committed(hand, last) /\ Committed(outq, last) BY DEF Stream
    <2> QED BY <1>2, <2>1 DEF Precedes, Committed
  <1>6. Put(s) BY <1>1
  <1>7. /\ outq' \in Items /\ Len(outq') <= QueueMax /\ slow' \in BOOLEAN
        /\ Ordered(outq') /\ Precedes(hand, outq')
        /\ NewTo(outq', received, cursor) /\ Committed(outq', last)
        /\ EventsUpTo(outq, delivered) => EventsUpTo(outq', delivered)
    BY <1>3, <1>4, <1>5, <1>6, PutKeeps DEF Stream
  <1>8. todo = <<>> BY DEF Position
  <1>9. Stream' BY <1>7, <1>8, EmptyStream DEF Stream, store, subscription, client
  <1>10. Position' BY <1>7, <1>8 DEF Position, store, subscription, client
  <1>11. TypeOK' BY <1>7 DEF TypeOK, Items, store, subscription, client
  <1>12. Remembered' BY DEF Remembered, store, client
  <1> QED BY <1>9, <1>10, <1>11, <1>12 DEF Bounds

\* A snapshot is asked for
LEMMA SnapshotStep == ASSUME IInv, Snapshot PROVE IInv'
  <1>1. PICK x \in Item : x = SnapshotItem(last) BY TypeFacts DEF IInv, SnapshotItem, Item
  <1>2. x.kind = "snapshot" /\ x.seq = last BY <1>1 DEF SnapshotItem
  <1>3. Put(<<x>>) /\ stage \in {"off", "live"} /\ UNCHANGED <<store, conn, hand, subscription, client>>
    BY <1>1 DEF Snapshot, HandlerIdle
  <1> QED BY <1>2, <1>3, EnqueueStep

\* A second subscription is answered with the position
LEMMA SubscribeAgainStep == ASSUME IInv, SubscribeAgain PROVE IInv'
  <1>0. delivered \in 0..MaxSeq BY TypeFacts DEF IInv
  <1>1. PICK x \in Item : x = ResponseItem(delivered) BY <1>0 DEF ResponseItem, Item
  <1>2. x.kind = "response" BY <1>1 DEF ResponseItem
  <1>3. Put(<<x>>) /\ stage \in {"off", "live"} /\ UNCHANGED <<store, conn, hand, subscription, client>>
    BY <1>1 DEF SubscribeAgain, HandlerIdle
  <1> QED BY <1>2, <1>3, EnqueueStep

\* A subscription is registered before it replays
LEMMA SubscribeStep == ASSUME IInv, Subscribe PROVE IInv'
  <1> USE DEF IInv
  <1>1. /\ stage = "off" /\ outq = <<>> /\ hand = <<>> /\ stage' = "replay" /\ after' = cursor
        /\ UNCHANGED <<store, connection, snap, todo, buffer, delivered, client>>
    BY DEF Subscribe, HandlerIdle
  <1>2. snap = 0 /\ todo = <<>> BY <1>1 DEF Position
  <1>3. Stream' BY <1>1 DEF Stream, store, connection, client
  <1>4. Position' BY <1>1, <1>2, TypeFacts DEF Position, store, connection, client
  <1>5. TypeOK' BY <1>1 DEF TypeOK, store, connection, client
  <1>6. Remembered' BY <1>1 DEF Remembered, store, client
  <1> QED BY <1>3, <1>4, <1>5, <1>6 DEF Bounds

\* The position is below the floor: a snapshot first
LEMMA TakeSnapshotStep == ASSUME IInv, TakeSnapshot PROVE IInv'
  <1> USE DEF IInv
  <1>1. /\ stage = "snapshot" /\ snap' = last /\ after' = last /\ stage' = "replay"
        /\ UNCHANGED <<store, connection, todo, buffer, delivered, client>>
    BY DEF TakeSnapshot
  <1>2. Stream' BY <1>1 DEF Stream, store, connection, client
  <1>3. Position' BY <1>1, TypeFacts DEF Position, store, connection, client
  <1>4. TypeOK' BY <1>1, TypeFacts DEF TypeOK, store, connection, client
  <1>5. Remembered' BY <1>1 DEF Remembered, store, client
  <1> QED BY <1>2, <1>3, <1>4, <1>5 DEF Bounds

\* The flush is over
LEMMA FlushEndStep == ASSUME IInv, FlushEnd PROVE IInv'
  <1> USE DEF IInv
  <1>1. /\ stage = "flush" /\ todo = <<>> /\ stage' = "live" /\ buffer' = {}
        /\ UNCHANGED <<store, connection, after, snap, todo, delivered, client>>
    BY DEF FlushEnd
  <1>2. Stream' BY <1>1 DEF Stream, store, connection, client
  <1>3. Position' BY <1>1 DEF Position, store, connection, client
  <1>4. TypeOK' BY <1>1 DEF TypeOK, store, connection, client
  <1>5. Remembered' BY <1>1 DEF Remembered, store, client
  <1> QED BY <1>2, <1>3, <1>4, <1>5 DEF Bounds

\* A client connects
LEMMA ConnectStep == ASSUME IInv, Connect PROVE IInv'
  <1> USE DEF IInv
  <1>1. conn' = TRUE /\ UNCHANGED <<store, slow, outq, hand, subscription, client>> BY DEF Connect
  <1>2. Stream' BY <1>1 DEF Stream, store, subscription, client
  <1>3. Position' BY <1>1 DEF Position, store, subscription, client
  <1>4. TypeOK'
    <2>1. conn' \in BOOLEAN BY <1>1, Zenon
    <2> QED BY <1>1, <2>1 DEF TypeOK, store, subscription, client
  <1>5. Remembered' BY <1>1 DEF Remembered, store, client
  <1> QED BY <1>2, <1>3, <1>4, <1>5 DEF Bounds

(* The connection and its subscription are gone, the client remains *)
LEMMA HangupStep ==
    ASSUME IInv, Hangup, UNCHANGED store, cursor' \in 0..last, known' \subseteq 1..last,
           received' \subseteq known', \A n \in received' : n <= cursor'
    PROVE  IInv'
  <1> USE DEF IInv
  <1>1. /\ conn' = FALSE /\ slow' = FALSE /\ outq' = <<>> /\ hand' = <<>>
        /\ stage' = "off" /\ after' = 0 /\ snap' = 0 /\ todo' = <<>>
        /\ buffer' = {} /\ delivered' = 0
    BY DEF Hangup, NoSubscription
  <1>2. FALSE \in BOOLEAN BY Zenon
  <1>3. TypeOK'
    <2>1. <<>> \in Seq(Item) /\ Len(<<>>) = 0 /\ QueueMax \in Nat /\ last \in Nat BY TypeFacts DEF Bounds
    <2>2. /\ last' = last /\ present' = present /\ floor' = floor /\ owed' = owed /\ lossy' = lossy BY DEF store
    <2>3. 0 \in 0..last /\ {} \subseteq 1..last BY <2>1
    <2>4. /\ conn' \in BOOLEAN /\ slow' \in BOOLEAN BY <1>1, <1>2
    <2>5. /\ outq' \in Seq(Item) /\ Len(outq') <= QueueMax /\ hand' \in Seq(Item) /\ Len(hand') <= 1
          /\ todo' \in Seq(Item)
      BY <1>1, <2>1
    <2>6. /\ last' \in 0..MaxSeq /\ present' \subseteq 1..last' /\ floor' \in 0..last'
          /\ owed' \in Seq(1..MaxSeq) /\ lossy' \in BOOLEAN
      BY <2>2 DEF TypeOK
    <2>7. /\ after' \in 0..last' /\ snap' \in 0..last' /\ buffer' \subseteq 1..last'
          /\ delivered' \in 0..last' /\ cursor' \in 0..last' /\ known' \subseteq 1..last'
      BY <1>1, <2>2, <2>3
    <2> QED BY <1>1, <2>4, <2>5, <2>6, <2>7 DEF TypeOK
  <1>4. Stream' BY <1>1, EmptyStream DEF Stream
  <1>5. Position' BY <1>1 DEF Position
  <1>6. Remembered' BY DEF Remembered, store
  <1> QED BY <1>3, <1>4, <1>5, <1>6 DEF Bounds

\* A client disconnects
LEMMA DisconnectStep == ASSUME IInv, Disconnect PROVE IInv'
  <1>1. Hangup /\ UNCHANGED <<store, client>> BY DEF Disconnect
  <1>2. cursor' \in 0..last /\ known' \subseteq 1..last /\ received' \subseteq known'
        /\ \A n \in received' : n <= cursor'
    BY <1>1 DEF IInv, TypeOK, Remembered, client
  <1> QED BY <1>1, <1>2, HangupStep

\* The queue stays full: the half-made subscription is removed
LEMMA PutInitialTimeoutStep == ASSUME IInv, PutInitialTimeout PROVE IInv'
  <1> USE DEF IInv
  <1>1. /\ slow' = TRUE /\ UNCHANGED <<store, conn, outq, hand, client>>
        /\ stage' = "off" /\ after' = 0 /\ snap' = 0 /\ todo' = <<>>
        /\ buffer' = {} /\ delivered' = 0
    BY DEF PutInitialTimeout, NoSubscription
  <1>2. slow' \in BOOLEAN BY <1>1, Zenon
  <1>3. TypeOK'
    <2>1. <<>> \in Seq(Item) /\ last \in Nat BY TypeFacts
    <2> QED BY <1>1, <1>2, <2>1 DEF TypeOK, store, client
  <1>4. Stream' BY <1>1, EmptyStream DEF Stream, store, client
  <1>5. Position' BY <1>1 DEF Position, store, client
  <1>6. Remembered' BY <1>1 DEF Remembered, store, client
  <1> QED BY <1>3, <1>4, <1>5, <1>6 DEF Bounds

\* The sender takes an item
LEMMA SenderGetStep == ASSUME IInv, SenderGet PROVE IInv'
  <1> USE DEF IInv
  <1>1. /\ hand = <<>> /\ outq # <<>> /\ hand' = <<Head(outq)>> /\ outq' = Tail(outq)
        /\ UNCHANGED <<store, conn, slow, subscription, client>>
    BY DEF SenderGet
  <1>2. outq \in Items /\ Len(outq) \in Nat /\ Len(outq) <= QueueMax BY TypeFacts DEF TypeOK, Items
  <1>3. /\ hand' \in Items /\ outq' \in Items /\ Len(outq') = Len(outq) - 1 /\ Len(hand') = 1
        /\ Segment(hand', outq, 0) /\ Segment(outq', outq, 1)
        /\ Precedes(hand', outq')
    <2>1. Ordered(outq) BY DEF Stream
    <2>2. Head(outq) \in Item BY <1>1, <1>2, HeadTail
    <2>3. Len(<<Head(outq)>>) = 1 BY <2>2, Singleton
    <2> QED BY <1>1, <1>2, <2>1, <2>3, HeadTail
  <1>4. /\ Ordered(hand') /\ Precedes(hand', todo) /\ NewTo(hand', received, cursor)
        /\ Committed(hand', last) /\ \A n : EventsUpTo(outq, n) => EventsUpTo(hand', n)
    BY <1>2, <1>3, SegmentKeeps DEF Stream
  <1>5. /\ Ordered(outq') /\ Precedes(outq', todo) /\ NewTo(outq', received, cursor)
        /\ Committed(outq', last) /\ \A n : EventsUpTo(outq, n) => EventsUpTo(outq', n)
    BY <1>2, <1>3, SegmentKeeps DEF Stream
  <1>6. Stream' BY <1>1, <1>3, <1>4, <1>5 DEF Stream, store, subscription, client
  <1>7. Position' BY <1>1, <1>4, <1>5 DEF Position, store, subscription, client
  <1>8. TypeOK'
    <2>1. Len(outq') <= QueueMax BY <1>2, <1>3 DEF Bounds
    <2> QED BY <1>1, <1>3, <2>1 DEF TypeOK, Items, store, subscription, client
  <1>9. Remembered' BY <1>1 DEF Remembered, store, client
  <1> QED BY <1>6, <1>7, <1>8, <1>9 DEF Bounds

\* The handler enqueues an item of the replay or of the flush
LEMMA PutInitialStep == ASSUME IInv, PutInitial PROVE IInv'
  <1> USE DEF IInv
  <1>1. /\ stage \in {"put", "flush"} /\ todo # <<>> /\ Room > 0
        /\ outq' = Append(outq, Head(todo)) /\ todo' = Tail(todo)
        /\ delivered' = IF stage = "flush" THEN Head(todo).seq ELSE delivered
        /\ UNCHANGED <<store, conn, slow, hand, stage, after, snap, buffer, client>>
    BY DEF PutInitial
  <1>2. /\ todo \in Items /\ outq \in Items /\ hand \in Items /\ Len(outq) \in Nat /\ Len(todo) \in Nat
        /\ QueueMax \in Nat /\ MaxSeq \in Nat /\ last \in Nat /\ delivered \in Nat
    BY TypeFacts DEF Items, Bounds
  <1>3. PICK h, r, x : h = <<Head(todo)>> /\ r = Tail(todo) /\ x = Head(todo) OBVIOUS
  <1>4. /\ h \in Items /\ r \in Items /\ x \in Item /\ Len(todo) > 0 /\ x = todo[1] /\ Len(r) = Len(todo) - 1
        /\ Segment(h, todo, 0) /\ Segment(r, todo, 1) /\ Precedes(h, r)
    <2>1. Ordered(todo) BY DEF Stream
    <2> QED BY <1>1, <1>2, <1>3, <2>1, HeadTail
  <1>5. outq' = outq \o h /\ todo' = r
    <2>1. Append(outq, x) = outq \o <<x>> BY <1>2, <1>4 DEF Items
    <2> QED BY <1>1, <1>3, <2>1
  <1>6. /\ Ordered(h) /\ Precedes(hand, h) /\ Precedes(outq, h) /\ NewTo(h, received, cursor)
        /\ Committed(h, last)
    BY <1>2, <1>4, SegmentKeeps DEF Stream
  <1>7. /\ Ordered(r) /\ Precedes(hand, r) /\ Precedes(outq, r) /\ NewTo(r, received, cursor)
        /\ Committed(r, last)
    BY <1>2, <1>4, SegmentKeeps DEF Stream
  <1>8. /\ outq' \in Items /\ Len(outq') <= QueueMax
    <2>1. Len(h) = 1 BY <1>3, <1>4, Singleton
    <2>2. outq' \in Items /\ Len(outq') = Len(outq) + Len(h) BY <1>2, <1>4, <1>5, ConcatSegments
    <2> QED BY <1>1, <1>2, <2>1, <2>2 DEF Room
  <1>9. /\ Ordered(outq') /\ Precedes(hand, outq') /\ Precedes(outq', r)
        /\ NewTo(outq', received, cursor) /\ Committed(outq', last)
        /\ \A n : EventsUpTo(outq, n) /\ EventsUpTo(h, n) => EventsUpTo(outq', n)
    BY <1>2, <1>4, <1>5, <1>6, <1>7, ConcatKeeps DEF Stream
  <1>10. Stream'
    BY <1>1, <1>5, <1>7, <1>9 DEF Stream, store, client
  <1>11. Remembered' BY <1>1 DEF Remembered, store, client
  <1>12. CASE stage = "put"
    <2>1. delivered' = delivered /\ stage' = "put" BY <1>1, <1>12
    <2>2. EventsUpTo(todo, delivered) BY <1>12 DEF Position
    <2>3. EventsUpTo(h, delivered) /\ EventsUpTo(r, delivered) BY <1>2, <1>4, <2>2, SegmentKeeps
    <2>4. EventsUpTo(outq', delivered) BY <1>9, <1>12, <2>3 DEF Position
    <2>5. Position'
      BY <1>1, <1>5, <1>12, <2>1, <2>3, <2>4 DEF Position, client
    <2>6. TypeOK' BY <1>1, <1>4, <1>5, <1>8, <2>1 DEF TypeOK, Items, store, client
    <2> QED BY <1>10, <1>11, <2>5, <2>6 DEF Bounds
  <1>13. CASE stage = "flush"
    <2>1. delivered' = x.seq /\ stage' = "flush" BY <1>1, <1>3, <1>13
    <2>2. x.kind = "event" /\ x.seq > delivered /\ x.seq \in Nat
          /\ \A i \in 1..Len(todo) : todo[i].kind = "event" /\ todo[i].seq > delivered
      <3>1. 1 \in 1..Len(todo) BY <1>2, <1>4
      <3> QED BY <1>2, <1>4, <1>13, <3>1, ItemSeq DEF Position
    <2>3. x.seq <= last /\ 1 \in Events(h) /\ h[1] = x
      <3>1. 1 \in Events(h) /\ h[1] = x BY <1>3, <1>4, <2>2, Singleton
      <3> QED BY <1>6, <3>1 DEF Committed, News
    <2>4. \A i \in 1..Len(r) : r[i].kind = "event" /\ r[i].seq > x.seq
      <3>1. ASSUME NEW i \in 1..Len(r) PROVE r[i].kind = "event" /\ r[i].seq > x.seq
        <4>1. i + 1 \in 1..Len(todo) /\ r[i] = todo[i + 1] BY <1>2, <1>4 DEF Segment
        <4>2. i \in Events(r) BY <2>2, <4>1 DEF Events
        <4>3. x.seq < r[i].seq BY <1>4, <2>3, <4>2 DEF Precedes
        <4>4. r[i].seq \in Nat BY <1>2, <1>4, ItemSeq
        <4> QED BY <2>2, <4>1, <4>3, <4>4
      <3> QED BY <3>1
    <2>5. EventsUpTo(h, x.seq)
      <3>1. Events(h) \subseteq {1} BY <1>3, <1>4, Singleton
      <3> QED BY <2>2, <2>3, <3>1 DEF EventsUpTo
    <2>6. EventsUpTo(hand, x.seq) /\ EventsUpTo(outq, x.seq)
      BY <1>2, <1>13, <2>2, Later DEF Position
    <2>7. EventsUpTo(outq', x.seq) BY <1>9, <2>5, <2>6
    <2>8. \A n \in received : n <= x.seq
      <3>1. \A n \in received : n <= delivered /\ n \in Nat BY <1>13, TypeFacts DEF Position
      <3> QED BY <1>2, <2>2, <3>1
    <2>9. Position'
      BY <1>1, <1>5, <1>13, <2>1, <2>4, <2>6, <2>7, <2>8 DEF Position, client
    <2>10. x.seq \in 0..last BY <1>2, <2>2, <2>3
    <2>11. TypeOK' BY <1>1, <1>4, <1>5, <1>8, <2>1, <2>10 DEF TypeOK, Items, store, client
    <2> QED BY <1>10, <1>11, <2>9, <2>11 DEF Bounds
  <1> QED BY <1>1, <1>12, <1>13

\* The replay is enqueued: the newer of the buffered events follow it
LEMMA FlushBeginStep == ASSUME IInv, FlushBegin PROVE IInv'
  <1> USE DEF IInv
  <1>1. /\ stage = "put" /\ todo = <<>>
        /\ UNCHANGED <<store, connection, after, snap, delivered, client>>
    BY DEF FlushBegin
  <1>2. CASE Pending = {}
    <2>1. stage' = "live" /\ buffer' = {} /\ UNCHANGED todo BY <1>2 DEF FlushBegin
    <2>2. Stream' BY <1>1, <2>1 DEF Stream, store, connection, client
    <2>3. Position' BY <1>1, <2>1 DEF Position, store, connection, client
    <2>4. TypeOK' BY <1>1, <2>1 DEF TypeOK, store, connection, client
    <2>5. Remembered' BY <1>1 DEF Remembered, store, client
    <2> QED BY <2>2, <2>3, <2>4, <2>5 DEF Bounds
  <1>3. CASE Pending # {}
    <2>1. PICK s, S : S = Pending /\ s = EventItems(Sorted(S)) OBVIOUS
    <2>2. stage' = "flush" /\ todo' = s /\ UNCHANGED buffer BY <1>3, <2>1 DEF FlushBegin
    <2>3. /\ MaxSeq \in Nat /\ last \in Nat /\ last <= MaxSeq /\ delivered \in Nat /\ hand \in Items /\ outq \in Items
          /\ \A n \in S : n \in 1..last /\ n > delivered
      BY <2>1, TypeFacts DEF Pending
    <2>4. S \subseteq 1..MaxSeq BY <2>3
    <2>5. IsEventList(S, s) BY <2>1, <2>3, <2>4, EventList
    <2>6. /\ s \in Items /\ Ordered(s)
          /\ \A i \in 1..Len(s) : s[i].kind = "event" /\ s[i].seq \in S
      BY <2>5 DEF IsEventList
    <2>7. \A i \in 1..Len(s) : s[i].seq > delivered /\ s[i].seq > 0 /\ s[i].seq <= last
      <3>1. ASSUME NEW i \in 1..Len(s)
            PROVE  s[i].seq > delivered /\ s[i].seq > 0 /\ s[i].seq <= last
        <4>1. PICK n \in S : n = s[i].seq BY <2>6
        <4>2. n \in 1..last /\ n > delivered BY <2>3, <4>1
        <4> QED BY <2>3, <4>1, <4>2
      <3> QED BY <3>1
    <2>8. received \subseteq 0..delivered /\ EventsUpTo(hand, delivered) /\ EventsUpTo(outq, delivered)
      BY <1>1, <2>3, TypeFacts DEF Position
    <2>9. /\ Committed(s, last) /\ NewTo(s, received, cursor)
          /\ Precedes(hand, s) /\ Precedes(outq, s)
      BY <2>3, <2>6, <2>7, <2>8, EventListFits
    <2>10. Stream' BY <1>1, <2>2, <2>6, <2>9 DEF Stream, store, connection, client
    <2>11. Position' BY <1>1, <2>2, <2>6, <2>7 DEF Position, store, connection, client
    <2>12. TypeOK' BY <1>1, <2>2, <2>6 DEF TypeOK, Items, store, connection, client
    <2>13. Remembered' BY <1>1 DEF Remembered, store, client
    <2> QED BY <2>10, <2>11, <2>12, <2>13 DEF Bounds
  <1> QED BY <1>2, <1>3

(* The first Limit events behind the position *)
LEMMA ReplayedEvents ==
    ASSUME IInv, NEW s, s = EventItems(Replayed)
    PROVE  /\ s \in Items /\ Ordered(s)
           /\ \A i \in 1..Len(s) : s[i].kind = "event" /\ s[i].seq \in present /\ s[i].seq > after
           /\ ~(Len(Backlog) > Limit) => \A n \in present : n > after => \E i \in 1..Len(s) : s[i] = EventItem(n)
  <1>0. MaxSeq \in Nat /\ last \in Nat /\ last <= MaxSeq /\ after \in Nat /\ Limit \in Nat /\ present \subseteq 1..last
    BY TypeFacts DEF IInv, Bounds
  <1>1. PICK S : S = {n \in present : n > after} OBVIOUS
  <1>2. S \subseteq 1..MaxSeq /\ S \subseteq 0..MaxSeq
    <2>1. 1..last \subseteq 1..MaxSeq /\ 1..last \subseteq 0..MaxSeq BY <1>0
    <2> QED BY <1>0, <1>1, <2>1
  <1>3. PICK t, e : t = Sorted(S) /\ e = EventItems(t) OBVIOUS
  <1>4. t \in Seq(S) /\ Len(t) = Cardinality(S) BY <1>0, <1>2, <1>3, SortedProperties
  <1>5. IsEventList(S, e) BY <1>0, <1>2, <1>3, EventList
  <1>6. PICK k : k = Min({Limit, Len(t)}) OBVIOUS
  <1>7. k \in 0..Len(t) /\ Len(t) \in Nat /\ (~(Len(t) > Limit) => k = Len(t))
    <2>1. Len(t) \in Nat BY <1>4
    <2>2. k = IF Limit <= Len(t) THEN Limit ELSE Len(t) BY <1>0, <1>6, <2>1, MinOfTwo
    <2> QED BY <1>0, <2>1, <2>2
  <1>8. Backlog = t /\ Replayed = SubSeq(t, 1, k) BY <1>1, <1>3, <1>6 DEF Replayed, Backlog
  <1>9. Len(Replayed) = k /\ \A i \in 1..k : Replayed[i] = t[i] BY <1>4, <1>7, <1>8
  <1>10. s = [i \in 1..k |-> EventItem(t[i])] BY <1>9 DEF EventItems
  <1>11. e \in Items /\ Len(e) = Len(t) /\ \A i \in 1..Len(t) : e[i] = EventItem(t[i])
    BY <1>3, <1>5 DEF IsEventList, EventItems
  <1>12. s = SubSeq(e, 1, k)
    BY <1>7, <1>10, <1>11 DEF Items
  <1>13. s \in Items /\ Len(s) = k /\ Segment(s, e, 0) BY <1>7, <1>11, <1>12, Prefix
  <1>14. Ordered(s) BY <1>5, <1>11, <1>13, SegmentKeeps DEF IsEventList
  <1>15. \A i \in 1..Len(s) : i \in 1..Len(e) /\ s[i] = e[i]
    BY <1>7, <1>11, <1>13 DEF Segment
  <1>16. \A i \in 1..Len(s) : s[i].kind = "event" /\ s[i].seq \in S BY <1>5, <1>15 DEF IsEventList
  <1>17. ASSUME ~(Len(Backlog) > Limit), NEW n \in S PROVE \E i \in 1..Len(s) : s[i] = EventItem(n)
    <2>1. PICK i \in 1..Len(e) : e[i] = EventItem(n) BY <1>5, <1>17 DEF IsEventList
    <2>2. i \in 1..Len(s) BY <1>7, <1>8, <1>11, <1>13, <1>17, <2>1
    <2> QED BY <1>15, <2>1, <2>2
  <1> QED BY <1>1, <1>13, <1>14, <1>16, <1>17

(* What _do_subscribe enqueues when the replay is complete *)
LEMMA ReplayStep == ASSUME IInv, Replay PROVE IInv'
  <1> USE DEF IInv
  <1>1. /\ stage = "replay" /\ UNCHANGED <<last, present, floor, owed, connection, after, snap, buffer, client>>
    BY DEF Replay
  <1>l. lossy' \in BOOLEAN
    <2>1. lossy' = lossy \/ lossy' = (lossy \/ Len(Backlog) > Limit) BY DEF Replay
    <2>2. lossy \in BOOLEAN BY DEF TypeOK
    <2> QED BY <2>1, <2>2, Zenon
  <1>2. hand = <<>> /\ outq = <<>> /\ todo = <<>> /\ cursor <= after
        /\ after = (IF snap > 0 THEN snap ELSE cursor)
    BY <1>1 DEF Position
  <1>3. CASE after < floor
    <2>1. stage' = "snapshot" /\ UNCHANGED <<todo, delivered>> BY <1>3 DEF Replay
    <2>2. last > 0 BY <1>3, TypeFacts
    <2>3. Stream' BY <1>1, <2>1 DEF Stream, connection, client
    <2>4. Position' BY <1>1, <1>2, <2>1, <2>2 DEF Position, connection, client
    <2>5. TypeOK' BY <1>1, <1>l, <2>1 DEF TypeOK, connection, client
    <2>6. Remembered' BY <1>1 DEF Remembered, client
    <2> QED BY <2>3, <2>4, <2>5, <2>6 DEF Bounds
  <1>4. CASE ~(after < floor)
    <2>1. PICK s, a, b : /\ s = EventItems(Replayed) /\ a = <<ResponseItem(last)>>
                         /\ b = IF snap > 0 THEN <<SnapshotItem(snap)>> ELSE <<>>
      OBVIOUS
    <2>2. stage' = "put" /\ delivered' = last /\ todo' = a \o b \o s
      BY <1>4, <2>1 DEF Replay
    <2>3. /\ MaxSeq \in Nat /\ last \in Nat /\ last <= MaxSeq /\ after \in Nat /\ snap \in Nat /\ snap <= last
          /\ cursor \in Nat /\ received \subseteq 1..last /\ present \subseteq 1..last
      BY TypeFacts
    <2>4. /\ s \in Items /\ Ordered(s)
          /\ \A i \in 1..Len(s) : s[i].kind = "event" /\ s[i].seq \in present /\ s[i].seq > after
      BY <2>1, ReplayedEvents
    <2>5. \A i \in 1..Len(s) : s[i].seq > after /\ s[i].seq > 0 /\ s[i].seq <= last
      <3>1. ASSUME NEW i \in 1..Len(s)
            PROVE  s[i].seq > after /\ s[i].seq > 0 /\ s[i].seq <= last
        <4>1. PICK n \in present : n = s[i].seq BY <2>4
        <4>2. n > after /\ n \in 1..last BY <2>3, <2>4, <4>1
        <4> QED BY <2>3, <4>1, <4>2
      <3> QED BY <3>1
    <2>6. received \subseteq 0..after
      BY <1>2, <2>3 DEF Remembered
    <2>7. Committed(s, last) /\ NewTo(s, received, cursor)
          /\ \A r \in Items : EventsUpTo(r, after) => Precedes(r, s)
      BY <2>3, <2>4, <2>5, <2>6, EventListFits
    <2>8. a \in Items /\ News(a) = {}
      <3>1. ResponseItem(last) \in Item /\ ResponseItem(last).kind = "response"
        BY <2>3 DEF ResponseItem, Item
      <3> QED BY <2>1, <3>1, Singleton
    <2>9. b \in Items /\ Events(b) = {} /\ Ordered(b) /\ Committed(b, last) /\ NewTo(b, received, cursor)
      <3>1. CASE ~(snap > 0)
        <4>1. b = <<>> BY <2>1, <3>1
        <4>2. Events(<<>>) = {} BY EmptyStream DEF News
        <4> QED BY <4>1, <4>2, EmptyStream
      <3>2. CASE snap > 0
        <4>1. PICK x : x = SnapshotItem(snap) OBVIOUS
        <4>2. x \in Item /\ x.kind = "snapshot" /\ x.seq = snap BY <2>3, <4>1 DEF SnapshotItem, Item
        <4>3. b = <<x>> BY <2>1, <3>2, <4>1
        <4>4. /\ b \in Items /\ Len(b) = 1 /\ b[1] = x /\ Events(b) = {} /\ Snapshots(b) = {1} /\ News(b) = {1}
          BY <4>2, <4>3, Singleton
        <4>5. cursor <= snap BY <1>2, <3>2
        <4>6. Ordered(b) BY <4>4 DEF Ordered
        <4>7. Committed(b, last) /\ NewTo(b, received, cursor)
          BY <2>3, <4>2, <4>4, <4>5 DEF Committed, NewTo
        <4> QED BY <4>4, <4>6, <4>7
      <3> QED BY <3>1, <3>2
    <2>10. Precedes(a, b) /\ Ordered(a) /\ Committed(a, last) /\ NewTo(a, received, cursor) /\ Precedes(a, s)
      BY <2>8, NoNews
    <2>11. Precedes(b, s)
      <3>1. EventsUpTo(b, after) BY <2>9 DEF EventsUpTo
      <3> QED BY <2>7, <2>9, <3>1
    <2>12. PICK c : c = a \o b OBVIOUS
    <2>13. /\ c \in Items /\ Ordered(c) /\ Committed(c, last) /\ NewTo(c, received, cursor) /\ Precedes(c, s)
      BY <2>8, <2>9, <2>10, <2>11, <2>12, ConcatKeeps, ConcatSegments
    <2>14. todo' = c \o s BY <2>2, <2>12
    <2>15. /\ todo' \in Items /\ Ordered(todo') /\ Committed(todo', last) /\ NewTo(todo', received, cursor)
      BY <2>4, <2>7, <2>13, <2>14, ConcatKeeps, ConcatSegments
    <2>16. EventsUpTo(todo', last) BY <2>15 DEF Committed, EventsUpTo, News
    <2>17. Stream' BY <1>1, <1>2, <2>15, EmptyStream DEF Stream, connection, client
    <2>18. Position'
      <3>1. \A n \in received : n <= last BY <2>3
      <3> QED BY <1>1, <1>2, <2>2, <2>16, <3>1, EmptyStream DEF Position, connection, client
    <2>19. TypeOK'
      <3>1. last \in 0..last BY <2>3
      <3> QED BY <1>1, <1>l, <2>2, <2>15, <3>1 DEF TypeOK, Items, connection, client
    <2>20. Remembered' BY <1>1 DEF Remembered, client
    <2> QED BY <2>17, <2>18, <2>19, <2>20 DEF Bounds
  <1> QED BY <1>3, <1>4

(* The client takes in what the sender holds *)
LEMMA Received ==
    ASSUME IInv, hand # <<>>, Receive(hand[1])
    PROVE  /\ cursor' \in 0..last /\ known' \subseteq 1..last /\ received' \subseteq known'
           /\ \A n \in received' : n <= cursor'
           /\ NewTo(outq, received', cursor') /\ NewTo(todo, received', cursor')
           /\ stage \in {"put", "flush", "live"} => \A n \in received' : n <= delivered
  <1> USE DEF IInv
  <1>0. /\ MaxSeq \in Nat /\ last \in Nat /\ hand \in Items /\ outq \in Items /\ todo \in Items
        /\ cursor \in Nat /\ cursor <= last /\ delivered \in Nat
        /\ known \subseteq 1..last /\ received \subseteq known
    BY TypeFacts DEF TypeOK
  <1>1. Len(hand) \in Nat /\ 1 \in 1..Len(hand) BY <1>0 DEF Items
  <1>2. PICK x : x = hand[1] OBVIOUS
  <1>3. x \in Item /\ x.seq \in Nat /\ x.kind \in {"event", "snapshot", "response"}
    BY <1>0, <1>1, <1>2, ItemSeq DEF Item
  <1>4. CASE x.kind = "event"
    <2>1. cursor' = Max({cursor, x.seq}) /\ known' = known \cup {x.seq} /\ received' = received \cup {x.seq}
      BY <1>2, <1>4 DEF Receive
    <2>2. 1 \in Events(hand) BY <1>1, <1>2, <1>4 DEF Events
    <2>3. x.seq > 0 /\ x.seq <= last BY <1>2, <2>2 DEF Stream, Committed, News
    <2>4. cursor' \in Nat /\ cursor' <= last /\ cursor <= cursor' /\ x.seq <= cursor'
          /\ (cursor' = cursor \/ cursor' = x.seq)
      BY <1>0, <1>3, <2>1, <2>3, MaxOfTwo
    <2>5. \A n \in received' : n <= cursor'
      BY <1>0, <2>1, <2>4 DEF Remembered
    <2>6. ASSUME NEW s \in Items, Precedes(hand, s), NewTo(s, received, cursor)
          PROVE  NewTo(s, received', cursor')
      <3>1. ASSUME NEW i \in Events(s), NEW n \in received' PROVE n < s[i].seq
        <4>1. CASE n \in received BY <2>6, <4>1 DEF NewTo
        <4>2. CASE n = x.seq BY <1>2, <2>2, <2>6, <4>2 DEF Precedes
        <4> QED BY <2>1, <4>1, <4>2
      <3>2. ASSUME NEW i \in Snapshots(s) PROVE cursor' <= s[i].seq
        <4>1. cursor <= s[i].seq BY <2>6 DEF NewTo
        <4>2. x.seq <= s[i].seq BY <1>2, <2>2, <2>6 DEF Precedes, News
        <4> QED BY <2>4, <4>1, <4>2
      <3> QED BY <3>1, <3>2 DEF NewTo
    <2>7. stage \in {"put", "flush", "live"} => \A n \in received' : n <= delivered
      BY <1>2, <2>1, <2>2 DEF Position, EventsUpTo
    <2>8. known' \subseteq 1..last /\ received' \subseteq known'
      <3>1. x.seq \in 1..last BY <1>0, <1>3, <2>3
      <3> QED BY <1>0, <2>1, <3>1
    <2>9. cursor' \in 0..last BY <1>0, <2>4
    <2> QED BY <1>0, <2>5, <2>6, <2>7, <2>8, <2>9 DEF Stream
  <1>5. CASE x.kind = "snapshot"
    <2>1. cursor' = Max({cursor, x.seq}) /\ known' = known \cup 1..x.seq /\ received' = received
      BY <1>2, <1>5 DEF Receive
    <2>2. 1 \in Snapshots(hand) BY <1>1, <1>2, <1>5 DEF Snapshots
    <2>3. x.seq <= last BY <1>2, <2>2 DEF Stream, Committed, News
    <2>4. cursor' \in Nat /\ cursor' <= last /\ cursor <= cursor'
          /\ (cursor' = cursor \/ cursor' = x.seq)
      BY <1>0, <1>3, <2>1, <2>3, MaxOfTwo
    <2>5. \A n \in received' : n <= cursor'
      BY <1>0, <2>1, <2>4 DEF Remembered
    <2>6. ASSUME NEW s \in Items, Precedes(hand, s), NewTo(s, received, cursor)
          PROVE  NewTo(s, received', cursor')
      <3>2. ASSUME NEW i \in Snapshots(s) PROVE cursor' <= s[i].seq
        <4>1. cursor <= s[i].seq BY <2>6 DEF NewTo
        <4>2. x.seq <= s[i].seq BY <1>2, <2>2, <2>6 DEF Precedes, News
        <4> QED BY <2>4, <4>1, <4>2
      <3> QED BY <2>1, <2>6, <3>2 DEF NewTo
    <2>7. stage \in {"put", "flush", "live"} => \A n \in received' : n <= delivered
      BY <2>1 DEF Position
    <2>8. known' \subseteq 1..last /\ received' \subseteq known'
      <3>1. 1..x.seq \subseteq 1..last BY <1>0, <1>3, <2>3
      <3> QED BY <1>0, <2>1, <3>1
    <2>9. cursor' \in 0..last BY <1>0, <2>4
    <2> QED BY <1>0, <2>5, <2>6, <2>7, <2>8, <2>9 DEF Stream
  <1>6. CASE x.kind = "response"
    <2>1. UNCHANGED client BY <1>2, <1>6 DEF Receive
    <2> QED BY <2>1, <1>0 DEF client, Stream, Position, Remembered
  <1> QED BY <1>3, <1>4, <1>5, <1>6

\* An item reaches the client
LEMMA SenderSendStep == ASSUME IInv, SenderSend PROVE IInv'
  <1> USE DEF IInv
  <1>1. hand # <<>> /\ Receive(hand[1]) /\ UNCHANGED store BY DEF SenderSend
  <1>2. /\ cursor' \in 0..last /\ known' \subseteq 1..last /\ received' \subseteq known'
        /\ \A n \in received' : n <= cursor'
        /\ NewTo(outq, received', cursor') /\ NewTo(todo, received', cursor')
        /\ stage \in {"put", "flush", "live"} => \A n \in received' : n <= delivered
    BY <1>1, Received
  <1>3. CASE slow
    <2>1. Hangup BY <1>3 DEF SenderSend
    <2> QED BY <1>1, <1>2, <2>1, HangupStep
  <1>4. CASE ~slow
    <2>1. hand' = <<>> /\ UNCHANGED <<conn, slow, outq, subscription>> BY <1>4 DEF SenderSend
    <2>2. stage \notin {"replay", "snapshot"} BY <1>1 DEF Position
    <2>3. Stream' BY <1>1, <1>2, <2>1, EmptyStream DEF Stream, store, subscription
    <2>4. Position' BY <1>1, <1>2, <2>1, <2>2, EmptyStream DEF Position, store, subscription
    <2>5. TypeOK'
      <3>1. <<>> \in Seq(Item) /\ Len(<<>>) = 0 OBVIOUS
      <3> QED BY <1>1, <1>2, <2>1, <3>1 DEF TypeOK, store, subscription
    <2>6. Remembered' BY <1>1, <1>2 DEF Remembered, store
    <2> QED BY <2>3, <2>4, <2>5, <2>6 DEF Bounds
  <1> QED BY <1>3, <1>4

----------------------------------------------------------------------------
\* Every step keeps the invariant, one case per action
LEMMA Inductive == ASSUME IInv, [Next]_vars PROVE IInv'
  <1>1. CASE UNCHANGED vars
    BY <1>1 DEF IInv, Bounds, TypeOK, Stream, Position, Remembered,
                vars, store, connection, subscription, client
  <1>2. CASE Next
    BY <1>2, EmitStep, BundleAppendStep, BundleNotifyStep, PruneStep, SnapshotStep, SubscribeStep,
       SubscribeAgainStep, ReplayStep, TakeSnapshotStep, PutInitialStep, PutInitialTimeoutStep,
       FlushBeginStep, FlushEndStep, SenderGetStep, SenderSendStep, ConnectStep, DisconnectStep
       DEF Next, Handler
  <1> QED BY <1>1, <1>2

\* The invariant holds at the start
LEMMA Initially == ASSUME Bounds, Init PROVE IInv
  <1>1. FALSE \in BOOLEAN BY Zenon
  <1>2. TypeOK
    <2>1. <<>> \in Seq(Item) /\ <<>> \in Seq(1..MaxSeq) /\ Len(<<>>) = 0 OBVIOUS
    <2>2. 0 \in 0..MaxSeq /\ 0 \in 0..0 /\ {} \subseteq 1..0 /\ 0 <= QueueMax BY DEF Bounds
    <2>3. /\ last \in 0..MaxSeq /\ present \subseteq 1..last /\ floor \in 0..last
          /\ owed \in Seq(1..MaxSeq)
      BY <2>1, <2>2 DEF Init
    <2>4. /\ outq \in Seq(Item) /\ Len(outq) <= QueueMax /\ hand \in Seq(Item) /\ Len(hand) <= 1
          /\ todo \in Seq(Item)
      BY <2>1, <2>2 DEF Init
    <2>5. /\ after \in 0..last /\ snap \in 0..last /\ buffer \subseteq 1..last
          /\ delivered \in 0..last /\ cursor \in 0..last /\ known \subseteq 1..last
          /\ received \subseteq known
      BY <2>2 DEF Init
    <2>6. stage = "off" /\ conn = FALSE /\ slow = FALSE /\ lossy = FALSE BY DEF Init
    <2> QED BY <1>1, <2>3, <2>4, <2>5, <2>6 DEF TypeOK
  <1>3. Stream BY EmptyStream DEF Init, Stream
  <1>4. Position BY DEF Init, Position
  <1>5. Remembered BY DEF Init, Remembered
  <1> QED BY <1>2, <1>3, <1>4, <1>5 DEF IInv

\* What the invariant says of the stream is the promise
LEMMA StreamIsNews == ASSUME IInv PROVE NewsOnly
  <1> USE DEF IInv
  <1>0. hand \in Items /\ outq \in Items BY TypeFacts
  <1>1. PICK s : s = InFlight OBVIOUS
  <1>2. s \in Items /\ Ordered(s) /\ NewTo(s, received, cursor)
    BY <1>0, <1>1, ConcatSegments, ConcatKeeps DEF InFlight, Stream
  <1>3. ASSUME NEW i \in 1..Len(s), s[i].kind = "event"
        PROVE  /\ \A n \in received : n < s[i].seq
               /\ \A j \in 1..i - 1 : s[j].kind = "event" => s[j].seq < s[i].seq
    <2>1. i \in Events(s) BY <1>3 DEF Events
    <2>2. \A j \in 1..i - 1 : j \in 1..Len(s) /\ j < i BY <1>2 DEF Items
    <2>3. \A j \in 1..i - 1 : s[j].kind = "event" => j \in Events(s) BY <2>2 DEF Events
    <2> QED BY <1>2, <2>1, <2>2, <2>3 DEF Ordered, NewTo
  <1>4. ASSUME NEW i \in 1..Len(s), s[i].kind = "snapshot"
        PROVE  /\ cursor <= s[i].seq
               /\ \A j \in 1..i - 1 : s[j].kind # "response" => s[j].seq <= s[i].seq
    <2>1. i \in Snapshots(s) BY <1>4 DEF Snapshots
    <2>2. \A j \in 1..i - 1 : j \in 1..Len(s) /\ j < i BY <1>2 DEF Items
    <2>3. \A j \in 1..Len(s) : s[j].kind \in {"event", "snapshot", "response"}
      <3>1. \A y \in Item : y.kind \in {"event", "snapshot", "response"} BY DEF Item
      <3> QED BY <1>2, <3>1, Element DEF Items
    <2>4. \A j \in 1..i - 1 : s[j].kind # "response" => j \in News(s)
      BY <2>2, <2>3 DEF News, Events, Snapshots
    <2> QED BY <1>2, <2>1, <2>2, <2>4 DEF Ordered, NewTo
  <1> QED BY <1>1, <1>3, <1>4 DEF NewsOnly

(* Whatever the numbers of events, the replay limit, the size of the queue *)
(* and of the bundles: what is on its way to the client is news.  No event *)
(* reaches it twice or out of order, no snapshot takes it back.            *)
THEOREM DeliveryIsNews == Spec => []NewsOnly
  <1>1. Init => IInv BY BoundAssumption, Initially
  <1>2. IInv /\ [Next]_vars => IInv' BY Inductive
  <1>3. IInv => NewsOnly BY StreamIsNews
  <1> QED BY <1>1, <1>2, <1>3, PTL DEF Spec

----------------------------------------------------------------------------
(* Nothing is missing *)

(* What s covers, s \o t covers; and t behind it *)
LEMMA ConcatCovers ==
    ASSUME NEW s \in Items, NEW t \in Items, NEW n
    PROVE  CoveredBy(s \o t, n) <=> CoveredBy(s, n) \/ CoveredBy(t, n)
  <1>1. PICK u, k : u = s \o t /\ k = Len(s) OBVIOUS
  <1>2. /\ u \in Items /\ Len(u) = k + Len(t) /\ Segment(s, u, 0) /\ Segment(t, u, k)
        /\ \A i \in 1..Len(u) : i \in 1..k \/ i - k \in 1..Len(t)
        /\ k \in Nat /\ Len(t) \in Nat
    BY <1>1, ConcatSegments DEF Items
  <1>3. ASSUME NEW i \in 1..Len(u), Covers(u[i], n) PROVE CoveredBy(s, n) \/ CoveredBy(t, n)
    <2>1. CASE i \in 1..k
      <3>1. s[i] = u[i] BY <1>1, <1>2, <2>1 DEF Segment
      <3> QED BY <1>1, <1>3, <2>1, <3>1 DEF CoveredBy
    <2>2. CASE i - k \in 1..Len(t)
      <3>1. t[i - k] = u[i] BY <1>2, <2>2 DEF Segment
      <3> QED BY <1>3, <2>2, <3>1 DEF CoveredBy
    <2> QED BY <1>2, <2>1, <2>2
  <1>4. ASSUME NEW i \in 1..Len(s), Covers(s[i], n) PROVE CoveredBy(u, n)
    <2>1. u[i] = s[i] /\ i \in 1..Len(u) BY <1>1, <1>2 DEF Segment
    <2> QED BY <1>4, <2>1 DEF CoveredBy
  <1>5. ASSUME NEW i \in 1..Len(t), Covers(t[i], n) PROVE CoveredBy(u, n)
    <2>1. u[i + k] = t[i] /\ i + k \in 1..Len(u) BY <1>2 DEF Segment
    <2> QED BY <1>5, <2>1 DEF CoveredBy
  <1> QED BY <1>1, <1>3, <1>4, <1>5 DEF CoveredBy

(* More items at the end keep the chain if their events leave nothing out *)
LEMMA ChainConcat ==
    ASSUME NEW s \in Items, NEW t \in Items, NEW base, Chain(base, s),
           \A i \in Events(t) : \A n \in 1..t[i].seq - 1 :
               n \in base \/ CoveredBy(s, n) \/ \E j \in 1..i - 1 : Covers(t[j], n)
    PROVE  Chain(base, s \o t)
  <1>1. PICK u, k : u = s \o t /\ k = Len(s) OBVIOUS
  <1>2. /\ u \in Items /\ Len(u) = k + Len(t) /\ Segment(s, u, 0) /\ Segment(t, u, k)
        /\ \A i \in 1..Len(u) : i \in 1..k \/ i - k \in 1..Len(t)
        /\ k \in Nat /\ Len(t) \in Nat
    BY <1>1, ConcatSegments DEF Items
  <1>3. \A i \in 1..k : u[i] = s[i] BY <1>1, <1>2 DEF Segment
  <1>4. \A i \in 1..Len(t) : u[i + k] = t[i] BY <1>2 DEF Segment
  <1>5. ASSUME NEW i \in Events(u), NEW n \in 1..u[i].seq - 1
        PROVE  n \in base \/ \E j \in 1..i - 1 : Covers(u[j], n)
    <2>1. i \in 1..Len(u) /\ u[i].kind = "event" BY DEF Events
    <2>2. CASE i \in 1..k
      <3>1. i \in Events(s) /\ u[i] = s[i] BY <1>1, <1>3, <2>1, <2>2 DEF Events
      <3>2. n \in base \/ \E j \in 1..i - 1 : Covers(s[j], n) BY <3>1 DEF Chain
      <3>3. \A j \in 1..i - 1 : u[j] = s[j] BY <1>2, <1>3, <2>2
      <3> QED BY <3>2, <3>3
    <2>3. CASE i - k \in 1..Len(t)
      <3>1. u[i] = t[i - k] /\ i - k \in Events(t) BY <1>2, <1>4, <2>1, <2>3 DEF Events
      <3>2. CASE n \in base BY <3>2
      <3>3. CASE CoveredBy(s, n)
        <4>1. PICK j \in 1..k : Covers(s[j], n) BY <1>1, <3>3 DEF CoveredBy
        <4>2. j \in 1..i - 1 /\ u[j] = s[j] BY <1>2, <1>3, <2>1, <2>3, <4>1
        <4> QED BY <4>1, <4>2
      <3>4. CASE \E j \in 1..(i - k) - 1 : Covers(t[j], n)
        <4>1. PICK j \in 1..(i - k) - 1 : Covers(t[j], n) BY <3>4
        <4>2. j \in 1..Len(t) /\ j + k \in 1..i - 1 BY <1>2, <2>1, <2>3, <4>1
        <4>3. u[j + k] = t[j] BY <1>4, <4>2
        <4> QED BY <4>1, <4>2, <4>3
      <3> QED BY <3>1, <3>2, <3>3, <3>4
    <2> QED BY <1>2, <2>1, <2>2, <2>3
  <1> QED BY <1>1, <1>5 DEF Chain

\* A gapless stream is gapless at its start
LEMMA ChainPrefix ==
    ASSUME NEW s \in Items, NEW t \in Items, NEW base, Chain(base, s \o t)
    PROVE  Chain(base, s) /\ Starts(base, s)
  <1>1. PICK u : u = s \o t OBVIOUS
  <1>2. u \in Items /\ Segment(s, u, 0) /\ Len(s) \in Nat /\ Len(u) \in Nat /\ Len(s) <= Len(u)
    BY <1>1, ConcatSegments DEF Items
  <1>3. \A i \in 1..Len(s) : u[i] = s[i] /\ i \in 1..Len(u) BY <1>2 DEF Segment
  <1>4. ASSUME NEW i \in Events(s), NEW n \in 1..s[i].seq - 1
        PROVE  n \in base \/ \E j \in 1..i - 1 : Covers(s[j], n)
    <2>1. i \in Events(u) /\ u[i] = s[i] /\ i \in 1..Len(s) BY <1>3 DEF Events
    <2>2. n \in base \/ \E j \in 1..i - 1 : Covers(u[j], n) BY <1>1, <2>1 DEF Chain
    <2>3. \A j \in 1..i - 1 : u[j] = s[j] BY <1>2, <1>3, <2>1
    <2> QED BY <2>2, <2>3
  <1>5. ASSUME s # <<>>, s[1].kind = "event" PROVE 1..s[1].seq - 1 \subseteq base
    <2>1. 1 \in 1..Len(s) BY <1>2, <1>5 DEF Items
    <2>2. 1 \in Events(s) BY <1>5, <2>1 DEF Events
    <2>3. \A n \in 1..s[1].seq - 1 : n \in base \/ \E j \in 1..1 - 1 : Covers(s[j], n) BY <1>4, <2>2
    <2> QED BY <2>3
  <1> QED BY <1>4, <1>5 DEF Chain, Starts

(* The first item has arrived *)
LEMMA ChainTail ==
    ASSUME NEW s \in Items, s # <<>>, NEW old, NEW new, Chain(old, s), old \subseteq new,
           \A n \in Nat \ {0} : Covers(s[1], n) => n \in new
    PROVE  Chain(new, Tail(s))
  <1>1. PICK t : t = Tail(s) OBVIOUS
  <1>2. t \in Items /\ Segment(t, s, 1) /\ Len(t) \in Nat /\ Len(s) = Len(t) + 1
    <2>1. t \in Items /\ Segment(t, s, 1) /\ Len(t) = Len(s) - 1 BY <1>1, HeadTail
    <2>2. Len(s) \in Nat /\ Len(t) \in Nat BY <2>1 DEF Items
    <2> QED BY <2>1, <2>2
  <1>3. \A i \in 1..Len(t) : t[i] = s[i + 1] BY <1>2 DEF Segment
  <1>4. ASSUME NEW i \in Events(t), NEW n \in 1..t[i].seq - 1
        PROVE  n \in new \/ \E j \in 1..i - 1 : Covers(t[j], n)
    <2>1. i \in 1..Len(t) BY DEF Events
    <2>2. i + 1 \in Events(s) /\ s[i + 1] = t[i] BY <1>2, <1>3, <2>1 DEF Events
    <2>3. n \in old \/ \E j \in 1..(i + 1) - 1 : Covers(s[j], n) BY <2>2 DEF Chain
    <2>4. CASE n \in old BY <2>4
    <2>5. ASSUME NEW j \in 1..(i + 1) - 1, Covers(s[j], n)
          PROVE  n \in new \/ \E m \in 1..i - 1 : Covers(t[m], n)
      <3>1. CASE j = 1
        <4>1. n \in Nat \ {0} OBVIOUS
        <4> QED BY <2>5, <3>1, <4>1
      <3>2. CASE j # 1
        <4>1. j - 1 \in 1..i - 1 /\ j - 1 \in 1..Len(t) /\ (j - 1) + 1 = j BY <1>2, <2>1, <3>2
        <4>2. t[j - 1] = s[j] BY <1>3, <4>1
        <4> QED BY <2>5, <4>1, <4>2
      <3> QED BY <3>1, <3>2
    <2> QED BY <2>3, <2>4, <2>5
  <1> QED BY <1>1, <1>4 DEF Chain

\* What the first item does not cover the others do
LEMMA TailCovers ==
    ASSUME NEW s \in Items, s # <<>>, NEW n, CoveredBy(s, n)
    PROVE  Covers(s[1], n) \/ CoveredBy(Tail(s), n)
  <1>1. PICK t : t = Tail(s) OBVIOUS
  <1>2. t \in Items /\ Segment(t, s, 1) /\ Len(t) \in Nat /\ Len(s) = Len(t) + 1
    <2>1. t \in Items /\ Segment(t, s, 1) /\ Len(t) = Len(s) - 1 BY <1>1, HeadTail
    <2>2. Len(s) \in Nat /\ Len(t) \in Nat BY <2>1 DEF Items
    <2> QED BY <2>1, <2>2
  <1>3. PICK i \in 1..Len(s) : Covers(s[i], n) BY DEF CoveredBy
  <1>4. CASE i = 1 BY <1>3, <1>4
  <1>5. CASE i # 1
    <2>1. i - 1 \in 1..Len(t) /\ (i - 1) + 1 = i BY <1>2, <1>3, <1>5
    <2>2. t[i - 1] = s[i] BY <1>2, <2>1 DEF Segment
    <2> QED BY <1>1, <1>3, <2>1, <2>2 DEF CoveredBy
  <1> QED BY <1>4, <1>5

\* The three parts of the stream
LEMMA StreamFacts ==
    ASSUME IInv
    PROVE  /\ hand \in Items /\ outq \in Items /\ todo \in Items
           /\ InFlight \in Items /\ AllItems \in Items
           /\ todo = <<>> => AllItems = InFlight
           /\ Len(InFlight) = Len(hand) + Len(outq) /\ Len(hand) \in Nat /\ Len(outq) \in Nat
           /\ InFlight # <<>> <=> hand # <<>> \/ outq # <<>>
  <1>1. hand \in Items /\ outq \in Items /\ todo \in Items BY TypeFacts DEF IInv
  <1>2. /\ InFlight \in Items /\ Len(InFlight) = Len(hand) + Len(outq)
        /\ Len(hand) \in Nat /\ Len(outq) \in Nat
    BY <1>1, ConcatSegments DEF InFlight, Items
  <1>3. AllItems \in Items BY <1>1, <1>2, ConcatSegments DEF AllItems
  <1>4. todo = <<>> => AllItems = InFlight BY <1>2 DEF AllItems, Items
  <1>5. \A s \in Items : Len(s) = 0 <=> s = <<>> BY DEF Items
  <1>6. InFlight # <<>> <=> hand # <<>> \/ outq # <<>> BY <1>1, <1>2, <1>5
  <1> QED BY <1>1, <1>2, <1>3, <1>4, <1>6

(* _put of several items: the first ones are appended, and the client is   *)
(* slow if that is not all of them.                                        *)
LEMMA PutSome ==
    ASSUME IInv, NEW s \in Items, Put(s)
    PROVE  \E p \in Items :
               /\ outq' = outq \o p /\ Segment(p, s, 0)
               /\ ~slow' => p = s /\ ~slow
               /\ slow' => slow \/ outq' # <<>>
  <1>1. /\ outq \in Items /\ Len(outq) \in Nat /\ QueueMax \in Nat \ {0} /\ Len(outq) <= QueueMax
        /\ Len(s) \in Nat
    BY TypeFacts DEF IInv, Bounds, TypeOK, Items
  <1>2. PICK k : k = Min({Room, Len(s)}) OBVIOUS
  <1>3. Room \in Nat /\ Room = QueueMax - Len(outq) BY <1>1 DEF Room
  <1>4. PICK p : p = SubSeq(s, 1, k) OBVIOUS
  <1>5. outq' = outq \o p /\ slow' = (slow \/ Len(s) > Room) BY <1>2, <1>4 DEF Put
  <1>6. k = (IF Room <= Len(s) THEN Room ELSE Len(s)) /\ k \in 0..Len(s)
    BY <1>1, <1>2, <1>3, MinOfTwo
  <1>7. p \in Items /\ Len(p) = k /\ Segment(p, s, 0) BY <1>4, <1>6, Prefix
  <1>8. ASSUME ~slow' PROVE p = s /\ ~slow
    <2>1. ~slow /\ ~(Len(s) > Room) BY <1>5, <1>8, Zenon
    <2>2. k = Len(s) BY <1>1, <1>3, <1>6, <2>1
    <2>3. SubSeq(s, 1, Len(s)) = s BY DEF Items
    <2> QED BY <1>4, <2>1, <2>2, <2>3
  <1>9. ASSUME slow', ~slow PROVE outq' # <<>>
    <2>1. Len(s) > Room BY <1>5, <1>9, Zenon
    <2>2. Len(p) = Room BY <1>1, <1>3, <1>6, <1>7, <2>1
    <2>3. Len(outq \o p) = Len(outq) + Len(p) BY <1>1, <1>7, ConcatSegments
    <2>4. Len(outq \o p) # 0 BY <1>1, <1>3, <2>2, <2>3
    <2>5. outq \o p # <<>> BY <2>4
    <2> QED BY <1>5, <2>5
  <1> QED BY <1>5, <1>7, <1>8, <1>9, Zenon

(* Items that leave nothing out, at the end of the queue or dropped *)
LEMMA PutKeepsChain ==
    ASSUME IInv, Complete, NEW s \in Items, Put(s), todo = <<>>,
           UNCHANGED <<hand, todo, known>>, stage \in {"off", "live"},
           ~slow => \A i \in Events(s) : \A n \in 1..s[i].seq - 1 :
                        n \in known \/ CoveredBy(AllItems, n) \/ \E j \in 1..i - 1 : Covers(s[j], n)
    PROVE  /\ ~slow' => Chain(known, AllItems') /\ ~slow
           /\ Starts(known, InFlight')
           /\ slow' => (InFlight # <<>>)'
           /\ ~slow' => \A n : CoveredBy(AllItems', n) <=> CoveredBy(AllItems, n) \/ CoveredBy(s, n)
  <1>0. /\ hand \in Items /\ outq \in Items /\ InFlight \in Items /\ AllItems \in Items /\ AllItems = InFlight
        /\ (InFlight # <<>> <=> hand # <<>> \/ outq # <<>>)
    BY StreamFacts
  <1>1. PICK p \in Items : /\ outq' = outq \o p /\ Segment(p, s, 0)
                           /\ ~slow' => p = s /\ ~slow
                           /\ slow' => slow \/ outq' # <<>>
    BY PutSome
  <1>2. PICK F, G : F = InFlight /\ G = InFlight' OBVIOUS
  <1>3. G = F \o p /\ F \in Items
    <2>1. (hand \o outq) \o p = hand \o (outq \o p) BY SMTT(30), <1>0 DEF Items
    <2> QED BY <1>0, <1>1, <1>2, <2>1 DEF InFlight
  <1>4. Segment(F, G, 0) /\ G \in Items /\ Len(F) \in Nat /\ Len(p) \in Nat /\ Len(G) = Len(F) + Len(p)
    BY <1>3, ConcatSegments DEF Items
  <1>5. AllItems' = G
    <2>1. G \o <<>> = G BY <1>4 DEF Items
    <2> QED BY <1>2, <2>1 DEF AllItems
  <1>6. \A r \in Items : Len(r) = 0 <=> r = <<>> BY DEF Items
  <1>7. F # <<>> => G # <<>> BY <1>3, <1>4, <1>6
  <1>8. Starts(known, G)
    <2>1. CASE F # <<>>
      <3>1. Len(F) > 0 BY <1>3, <1>4, <1>6, <2>1
      <3>2. G[1] = F[1] BY <1>4, <3>1 DEF Segment
      <3> QED BY <1>2, <2>1, <3>2 DEF Complete, Starts
    <2>2. CASE F = <<>>
      <3>1. ~slow BY <1>2, <2>2 DEF Complete
      <3>2. G = p BY <1>3, <2>2 DEF Items
      <3>3. ASSUME p # <<>>, p[1].kind = "event" PROVE 1..p[1].seq - 1 \subseteq known
        <4>1. 1 \in 1..Len(p) /\ Len(s) \in Nat BY <1>4, <1>6, <3>3 DEF Items
        <4>2. 1 \in 1..Len(s) /\ s[1] = p[1] BY <1>1, <1>4, <4>1 DEF Segment
        <4>3. 1 \in Events(s) BY <3>3, <4>2 DEF Events
        <4>4. \A n : ~CoveredBy(AllItems, n) BY <1>0, <1>2, <2>2 DEF CoveredBy
        <4>5. \A n \in 1..s[1].seq - 1 : n \in known \/ \E j \in 1..1 - 1 : Covers(s[j], n)
          BY <3>1, <4>3, <4>4
        <4> QED BY <4>2, <4>5
      <3> QED BY <3>2, <3>3 DEF Starts
    <2> QED BY <2>1, <2>2
  <1>9. ASSUME slow' PROVE G # <<>>
    <2>1. CASE slow BY <1>2, <1>7, <2>1 DEF Complete
    <2>2. CASE outq' # <<>>
      <3>1. outq \o p \in Items /\ hand \o (outq \o p) \in Items
            /\ Len(hand \o (outq \o p)) = Len(hand) + Len(outq \o p)
        BY <1>0, ConcatSegments
      <3>2. Len(outq \o p) # 0 BY <1>1, <1>6, <2>2, <3>1
      <3>3. Len(hand) \in Nat /\ Len(outq \o p) \in Nat BY <1>0, <3>1 DEF Items
      <3>4. Len(hand \o (outq \o p)) # 0 BY <3>1, <3>2, <3>3
      <3>5. G = hand \o (outq \o p) BY <1>1, <1>2 DEF InFlight
      <3> QED BY <1>6, <3>1, <3>4, <3>5
    <2> QED BY <1>1, <1>9, <2>1, <2>2, Zenon
  <1>10. ASSUME ~slow' PROVE Chain(known, G) /\ ~slow
    <2>1. G = F \o s /\ ~slow BY <1>1, <1>3, <1>10
    <2>2. Chain(known, F) BY <1>0, <1>2, <2>1 DEF Complete
    <2>3. \A i \in Events(s) : \A n \in 1..s[i].seq - 1 :
             n \in known \/ CoveredBy(F, n) \/ \E j \in 1..i - 1 : Covers(s[j], n)
      BY <1>0, <1>2, <2>1
    <2> QED BY <1>3, <2>1, <2>2, <2>3, ChainConcat
  <1>11. ASSUME ~slow' PROVE \A n : CoveredBy(G, n) <=> CoveredBy(F, n) \/ CoveredBy(s, n)
    BY <1>1, <1>3, <1>11, ConcatCovers
  <1> QED BY <1>0, <1>2, <1>5, <1>8, <1>9, <1>10, <1>11

\* A list of events leaves out none of its own
LEMMA EventListCovers ==
    ASSUME MaxSeq \in Nat, NEW S, S \subseteq 1..MaxSeq, NEW s, IsEventList(S, s)
    PROVE  /\ \A n \in S : CoveredBy(s, n)
           /\ \A i \in Events(s) : s[i].seq \in S
           /\ \A i \in Events(s) : \A n \in S : n < s[i].seq => \E j \in 1..i - 1 : Covers(s[j], n)
  <1>1. /\ s \in Items /\ \A n \in S : \E i \in 1..Len(s) : s[i] = EventItem(n)
        /\ \A i, j \in 1..Len(s) : i < j => s[i].seq < s[j].seq
        /\ \A i \in 1..Len(s) : s[i].seq \in S
    BY DEF IsEventList
  <1>2. \A n \in S : EventItem(n).kind = "event" /\ EventItem(n).seq = n /\ n \in Nat BY DEF EventItem
  <1>3. Len(s) \in Nat /\ \A i \in Events(s) : i \in 1..Len(s) BY <1>1 DEF Items, Events
  <1>4. ASSUME NEW n \in S PROVE CoveredBy(s, n)
    <2>1. PICK i \in 1..Len(s) : s[i] = EventItem(n) BY <1>1
    <2>2. Covers(s[i], n) BY <1>2, <2>1 DEF Covers
    <2> QED BY <2>2 DEF CoveredBy
  <1>5. ASSUME NEW i \in Events(s), NEW n \in S, n < s[i].seq PROVE \E j \in 1..i - 1 : Covers(s[j], n)
    <2>1. PICK j \in 1..Len(s) : s[j] = EventItem(n) BY <1>1
    <2>2. s[j].seq = n /\ s[j].kind = "event" /\ n \in Nat BY <1>2, <2>1
    <2>3. s[i].seq \in Nat /\ i \in 1..Len(s) BY <1>1, <1>2, <1>3
    <2>4. j # i BY <1>5, <2>2, <2>3
    <2>5. ~(i < j)
      <3>1. i < j => s[i].seq < s[j].seq BY <1>1, <2>3
      <3> QED BY <1>5, <2>2, <2>3, <3>1
    <2>6. j \in 1..i - 1 BY <1>3, <2>3, <2>4, <2>5
    <2>7. Covers(s[j], n) BY <2>2 DEF Covers
    <2> QED BY <2>6, <2>7
  <1> QED BY <1>1, <1>3, <1>4, <1>5

(* A session.snapshot or a second session.subscribe *)
LEMMA CommandCompletes ==
    ASSUME IInv, Complete, Snapshot \/ SubscribeAgain
    PROVE  Complete'
  <1>1. PICK x \in Item : Put(<<x>>) /\ x.kind # "event"
    <2>1. last \in 0..MaxSeq /\ delivered \in 0..MaxSeq BY TypeFacts DEF IInv
    <2>2. SnapshotItem(last) \in Item /\ SnapshotItem(last).kind = "snapshot" BY <2>1 DEF SnapshotItem, Item
    <2>3. ResponseItem(delivered) \in Item /\ ResponseItem(delivered).kind = "response"
      BY <2>1 DEF ResponseItem, Item
    <2> QED BY <2>2, <2>3 DEF Snapshot, SubscribeAgain
  <1>2. /\ stage \in {"off", "live"} /\ UNCHANGED <<store, conn, hand, subscription, client>>
    BY DEF Snapshot, SubscribeAgain, HandlerIdle
  <1>3. todo = <<>> BY <1>2 DEF IInv, Position
  <1>4. /\ UNCHANGED <<hand, todo, known, stage, last, owed, present, floor, buffer, delivered, cursor>>
    BY <1>2 DEF store, subscription, client
  <1>5. /\ ~slow' => Chain(known, AllItems') /\ ~slow
        /\ Starts(known, InFlight')
        /\ slow' => (InFlight # <<>>)'
        /\ ~slow' => \A n : CoveredBy(AllItems', n) <=> CoveredBy(AllItems, n) \/ CoveredBy(<<x>>, n)
    <2>1. PICK s \in Items : s = <<x>> /\ Events(s) = {} BY <1>1, Singleton
    <2> QED BY <1>1, <1>2, <1>3, <1>4, <2>1, PutKeepsChain
  <1> QED BY <1>2, <1>4, <1>5 DEF Complete, CursorIsWhole, Awaited

(* The events ns are announced, and none is held back any more: they join  *)
(* the queue, or the buffer, or are left to the next replay.               *)
LEMMA NotifyCompletes ==
    ASSUME IInv, Complete, NEW ns \in Seq(1..MaxSeq), Notify(ns), stage # "flush", owed' = <<>>,
           last' \in 0..MaxSeq, ToSet(ns) \subseteq 1..MaxSeq, UNCHANGED <<hand, stage, todo, client>>,
           \A n \in 1..last' : n \in present' \/ n <= floor',
           ToSet(ns) \subseteq 1..last',
           stage \in {"put", "live"} /\ ~slow =>
               \A n \in 1..last' :
                   \/ n \in known \/ CoveredBy(AllItems, n)
                   \/ n > delivered /\ (n \in ToSet(ns) \/ (stage = "put" /\ n \in buffer))
    PROVE  Complete'
  <1>1. CursorIsWhole' /\ known' = known BY DEF Complete, CursorIsWhole, client
  <1>2. \A n \in buffer' : \A m \in ToSet(owed') : n < m BY DEF ToSet
  <1>3. stage \in {"off", "replay", "snapshot", "put", "flush", "live"} BY DEF IInv, TypeOK
  <1>4. CASE stage = "off"
    <2>1. UNCHANGED <<outq, slow>> BY <1>4 DEF Notify
    <2>2. InFlight' = InFlight /\ AllItems' = AllItems BY <2>1 DEF InFlight, AllItems
    <2> QED BY <1>1, <1>2, <1>4, <2>1, <2>2 DEF Complete
  <1>5. CASE stage \in {"replay", "snapshot", "put"}
    <2>1. UNCHANGED <<outq, slow, delivered>> /\ buffer' = buffer \cup ToSet(ns) BY <1>5 DEF Notify
    <2>2. InFlight' = InFlight /\ AllItems' = AllItems BY <2>1 DEF InFlight, AllItems
    <2>3. stage = "put" /\ ~slow =>
             \A n \in 1..last' : n \in known \/ CoveredBy(AllItems, n) \/ (Awaited(n))'
      BY <2>1 DEF Awaited
    <2> QED BY <1>1, <1>2, <1>5, <2>1, <2>2, <2>3 DEF Complete
  <1>6. CASE stage = "live"
    <2>1. PICK S, s : S = {n \in ToSet(ns) : n > delivered} /\ s = EventItems(Sorted(S)) OBVIOUS
    <2>2. MaxSeq \in Nat /\ last' \in Nat BY TypeFacts DEF IInv
    <2>3. S \subseteq 1..MaxSeq /\ S \subseteq 1..last' BY <2>1
    <2>4. IsEventList(S, s) BY <2>1, <2>2, <2>3, EventList
    <2>s. s \in Items BY <2>4 DEF IsEventList
    <2>5. /\ \A n \in S : CoveredBy(s, n)
          /\ \A i \in Events(s) : s[i].seq \in S
          /\ \A i \in Events(s) : \A n \in S : n < s[i].seq => \E j \in 1..i - 1 : Covers(s[j], n)
      BY <2>2, <2>3, <2>4, EventListCovers
    <2>6. ~slow => \A n \in 1..last' : n \in known \/ CoveredBy(AllItems, n) \/ n \in S
      BY <1>6, <2>1
    <2>7. ~slow => \A i \in Events(s) : \A n \in 1..s[i].seq - 1 :
             n \in known \/ CoveredBy(AllItems, n) \/ \E j \in 1..i - 1 : Covers(s[j], n)
      <3>1. ASSUME ~slow, NEW i \in Events(s), NEW n \in 1..s[i].seq - 1
            PROVE  n \in known \/ CoveredBy(AllItems, n) \/ \E j \in 1..i - 1 : Covers(s[j], n)
        <4>1. s[i].seq \in 1..last' BY <2>3, <2>5
        <4>2. n \in 1..last' /\ n < s[i].seq BY <2>2, <4>1
        <4> QED BY <2>5, <2>6, <3>1, <4>2
      <3> QED BY <3>1
    <2>8. Put(s) /\ UNCHANGED buffer BY <1>6, <2>1 DEF Notify, Fresh
    <2>9. todo = <<>> BY <1>6 DEF IInv, Position
    <2>10. /\ ~slow' => Chain(known, AllItems') /\ ~slow
           /\ Starts(known, InFlight')
           /\ slow' => (InFlight # <<>>)'
           /\ ~slow' => \A n : CoveredBy(AllItems', n) <=> CoveredBy(AllItems, n) \/ CoveredBy(s, n)
      BY <1>1, <1>6, <2>s, <2>7, <2>8, <2>9, PutKeepsChain DEF client
    <2>11. ~slow' => \A n \in 1..last' : n \in known \/ CoveredBy(AllItems', n)
      BY <2>5, <2>6, <2>10
    <2> QED BY <1>1, <1>2, <1>6, <2>10, <2>11 DEF Complete
  <1> QED BY <1>3, <1>4, <1>5, <1>6

\* A committed event is announced, unless it loses a bundle or itself
LEMMA EmitCompletes ==
    ASSUME IInv, Complete, ~lossy', Emit
    PROVE  Complete'
  <1>1. /\ last' = last + 1 /\ present' = present \cup {last + 1} /\ Notify(<<last + 1>>)
        /\ UNCHANGED <<floor, owed, conn, hand, stage, after, snap, todo, client>>
    BY DEF Emit
  <1>2. MaxSeq \in Nat /\ last \in Nat /\ delivered \in Nat /\ delivered <= last
        /\ last + 1 \in 1..MaxSeq /\ last' \in 0..MaxSeq
    BY <1>1, TypeFacts DEF IInv, Emit
  <1>3. owed = <<>> /\ stage # "flush"
    <2>1. lossy' = (lossy \/ stage = "flush" \/ owed # <<>>) BY DEF Emit
    <2> QED BY <2>1, Zenon
  <1>4. \A n \in 1..last' : n \in 1..last \/ n = last + 1 BY <1>1, <1>2
  <1>5. \A n \in 1..last' : n \in present' \/ n <= floor' BY <1>1, <1>4 DEF Complete
  <1>6. PICK ns : ns = <<last + 1>> OBVIOUS
  <1>7. PICK T : T = 1..MaxSeq OBVIOUS
  <1>8. ns \in Seq(T) /\ ToSet(ns) = {last + 1} BY <1>2, <1>6, <1>7 DEF ToSet
  <1>9. ToSet(ns) \subseteq 1..last' BY <1>1, <1>2, <1>8
  <1>10. ToSet(owed) = {} BY <1>3 DEF ToSet
  <1>11. stage \in {"put", "live"} /\ ~slow =>
            \A n \in 1..last' :
                \/ n \in known \/ CoveredBy(AllItems, n)
                \/ n > delivered /\ (n \in ToSet(ns) \/ (stage = "put" /\ n \in buffer))
    <2>1. HAVE stage \in {"put", "live"} /\ ~slow
    <2>2. \A n \in 1..last : n \in known \/ CoveredBy(AllItems, n) \/ Awaited(n) BY <2>1 DEF Complete
    <2>3. last + 1 > delivered BY <1>2
    <2> QED BY <1>4, <1>8, <1>10, <2>2, <2>3 DEF Awaited
  <1> QED BY <1>1, <1>2, <1>3, <1>5, <1>6, <1>7, <1>8, <1>9, <1>11, NotifyCompletes

\* A bundle is announced, unless the buffer is being flushed
LEMMA BundleNotifyCompletes ==
    ASSUME IInv, Complete, ~lossy', BundleNotify
    PROVE  Complete'
  <1>1. /\ Notify(owed) /\ owed' = <<>>
        /\ UNCHANGED <<last, present, floor, conn, hand, stage, after, snap, todo, client>>
    BY DEF BundleNotify
  <1>2. stage # "flush"
    <2>1. lossy' = (lossy \/ stage = "flush") BY DEF BundleNotify
    <2> QED BY <2>1, Zenon
  <1>3. PICK ns \in Seq(1..MaxSeq) : ns = owed BY DEF IInv, TypeOK
  <1>4. MaxSeq \in Nat /\ last \in Nat /\ last \in 0..MaxSeq BY TypeFacts DEF IInv
  <1>5. ToSet(ns) \subseteq 1..last /\ ToSet(ns) \subseteq 1..MaxSeq
    <2>1. \A i \in 1..Len(ns) : ns[i] \in 1..MaxSeq /\ ns[i] <= last
      BY <1>3, Element DEF IInv, Remembered
    <2>2. DOMAIN ns = 1..Len(ns) OBVIOUS
    <2> QED BY <1>4, <2>1, <2>2 DEF ToSet
  <1>6. \A n \in 1..last' : n \in present' \/ n <= floor' BY <1>1 DEF Complete
  <1>7. stage \in {"put", "live"} /\ ~slow =>
            \A n \in 1..last' :
                \/ n \in known \/ CoveredBy(AllItems, n)
                \/ n > delivered /\ (n \in ToSet(ns) \/ (stage = "put" /\ n \in buffer))
    BY <1>1, <1>3 DEF Complete, Awaited
  <1>8. last' = last /\ Notify(ns) BY <1>1, <1>3
  <1> QED BY <1>1, <1>2, <1>4, <1>5, <1>6, <1>7, <1>8, NotifyCompletes

\* An event held back is newer than anything announced or buffered
LEMMA BundleAppendCompletes ==
    ASSUME IInv, Complete, BundleAppend
    PROVE  Complete'
  <1>1. /\ last' = last + 1 /\ present' = present \cup {last + 1} /\ owed' = Append(owed, last + 1)
        /\ UNCHANGED <<floor, lossy, connection, subscription, client>>
    BY DEF BundleAppend
  <1>2. /\ last \in Nat /\ delivered \in Nat /\ delivered <= last /\ buffer \subseteq 1..last
        /\ last + 1 \in 1..MaxSeq
    BY TypeFacts DEF IInv, BundleAppend
  <1>3. ToSet(owed') = ToSet(owed) \cup {last + 1}
    <2>1. PICK T : T = 1..MaxSeq OBVIOUS
    <2>2. owed \in Seq(T) /\ last + 1 \in T BY <1>2, <2>1 DEF IInv, TypeOK
    <2>3. Len(owed) \in Nat /\ Len(owed') = Len(owed) + 1 /\ DOMAIN owed = 1..Len(owed)
          /\ DOMAIN owed' = 1..Len(owed') /\ owed'[Len(owed) + 1] = last + 1
          /\ \A i \in 1..Len(owed) : owed'[i] = owed[i]
      BY <1>1, <2>2
    <2> QED BY <2>3 DEF ToSet
  <1>4. \A n \in 1..last' : n \in 1..last \/ n = last + 1 BY <1>1, <1>2
  <1>5. \A n \in 1..last' : n \in present' \/ n <= floor' BY <1>1, <1>4 DEF Complete
  <1>6. UNCHANGED <<slow, hand, outq, stage, todo, buffer, delivered, cursor, known>>
    BY <1>1 DEF connection, subscription, client
  <1>7. InFlight' = InFlight /\ AllItems' = AllItems BY <1>6 DEF InFlight, AllItems
  <1>8. \A n \in buffer' : \A m \in ToSet(owed') : n < m
    <2>1. \A n \in buffer : n < last + 1 BY <1>2
    <2> QED BY <1>3, <1>6, <2>1 DEF Complete
  <1>9. \A n : n = last + 1 \/ Awaited(n) => (Awaited(n))'
    <2>1. last + 1 > delivered BY <1>2
    <2> QED BY <1>3, <1>6, <2>1 DEF Awaited
  <1>10. stage \in {"put", "flush", "live"} /\ ~slow =>
            \A n \in 1..last' : n \in known \/ CoveredBy(AllItems, n) \/ (Awaited(n))'
    BY <1>4, <1>9 DEF Complete
  <1> QED BY <1>5, <1>6, <1>7, <1>8, <1>10 DEF Complete, CursorIsWhole

\* Retention moves the floor over what it removes
LEMMA PruneCompletes ==
    ASSUME IInv, Complete, NEW k \in 1..MaxSeq, Prune(k)
    PROVE  Complete'
  <1> DEFINE gone == {n \in present \cap Operational : n <= k}
  <1>1. /\ present' = present \ gone /\ floor' = Max({floor} \cup gone)
        /\ UNCHANGED <<last, owed, lossy, connection, subscription, client>>
    BY DEF Prune, Floor
  <1>2. \A n \in {floor} \cup gone : n <= floor'
    <2>1. PICK S : S = {floor} \cup gone OBVIOUS
    <2>2. S \subseteq 0..last /\ last \in Nat /\ S # {} BY <2>1, TypeFacts DEF IInv
    <2>3. \A y \in S : y <= Max(S) BY <2>2, MaxIsLargest
    <2> QED BY <1>1, <2>1, <2>3
  <1>3. floor \in Nat /\ floor' \in Nat /\ last \in Nat
    <2>1. IInv' BY PruneStep
    <2>2. floor' \in 0..last' /\ last' \in 0..MaxSeq /\ MaxSeq \in Nat BY <2>1 DEF IInv, TypeOK, Bounds
    <2> QED BY <2>2, TypeFacts DEF IInv
  <1>4. \A n \in 1..last : n \in present' \/ n <= floor'
    <2>1. ASSUME NEW n \in 1..last, n \notin present' PROVE n <= floor'
      <3>1. CASE n \in present BY <1>1, <1>2, <2>1, <3>1
      <3>2. CASE n \notin present
        <4>1. n <= floor /\ floor <= floor' BY <1>2, <3>2 DEF Complete
        <4> QED BY <1>3, <4>1
      <3> QED BY <3>1, <3>2
    <2> QED BY <2>1
  <1>5. InFlight' = InFlight /\ AllItems' = AllItems
    BY <1>1 DEF connection, subscription, InFlight, AllItems
  <1> HIDE DEF gone
  <1> QED BY <1>1, <1>4, <1>5 DEF Complete, CursorIsWhole, Awaited, connection, subscription, client

(* The position and the stage move, nothing else *)
LEMMA HandlerCompletes ==
    ASSUME IInv, Complete,
           Subscribe \/ TakeSnapshot \/ FlushEnd \/ Connect \/ (Replay /\ after < floor)
    PROVE  Complete'
  <1>1. /\ UNCHANGED <<last, present, floor, owed, slow, outq, hand, todo, delivered, client>>
        /\ buffer' \subseteq buffer
        /\ \/ stage' \notin {"put", "flush", "live"} /\ ~slow
           \/ UNCHANGED <<stage, buffer>>
           \/ stage = "flush" /\ stage' = "live"
    <2>1. stage \in {"replay", "snapshot"} => ~slow BY DEF Complete
    <2> QED BY <2>1
         DEF Subscribe, TakeSnapshot, FlushEnd, Connect, Replay, HandlerIdle, store, connection, subscription
  <1>2. InFlight' = InFlight /\ AllItems' = AllItems BY <1>1 DEF InFlight, AllItems
  <1>3. ~slow \/ UNCHANGED stage BY <1>1 DEF Complete
  <1> QED BY <1>1, <1>2, <1>3 DEF Complete, CursorIsWhole, Awaited, client

(* Between the position and last, every event is in the replay *)
LEMMA ReplayCompletes ==
    ASSUME IInv, Complete, ~lossy', Replay, ~(after < floor)
    PROVE  Complete'
  <1>1. /\ stage = "replay" /\ UNCHANGED <<last, present, floor, owed, connection, after, snap, buffer, client>>
        /\ stage' = "put"
    BY DEF Replay
  <1>l. ~(Len(Backlog) > Limit)
    <2>1. lossy' = (lossy \/ Len(Backlog) > Limit) BY DEF Replay
    <2> QED BY <2>1, Zenon
  <1>2. /\ hand = <<>> /\ outq = <<>> /\ cursor <= after /\ ~slow
        /\ after = (IF snap > 0 THEN snap ELSE cursor)
    BY <1>1 DEF IInv, Position, Complete
  <1>3. PICK s, a, b : /\ s = EventItems(Replayed) /\ a = <<ResponseItem(last)>>
                       /\ b = IF snap > 0 THEN <<SnapshotItem(snap)>> ELSE <<>>
    OBVIOUS
  <1>4. todo' = a \o b \o s BY <1>3 DEF Replay
  <1>5. /\ MaxSeq \in Nat /\ last \in Nat /\ last \in 0..MaxSeq /\ after \in Nat /\ snap \in 0..MaxSeq
        /\ cursor \in Nat /\ floor \in Nat /\ present \subseteq 1..last
    BY TypeFacts DEF IInv
  <1>6. /\ s \in Items /\ Ordered(s)
        /\ \A i \in 1..Len(s) : s[i].kind = "event" /\ s[i].seq \in present /\ s[i].seq > after
        /\ \A n \in present : n > after => \E i \in 1..Len(s) : s[i] = EventItem(n)
    BY <1>3, <1>l, ReplayedEvents
  <1>7. a \in Items /\ Events(a) = {}
    <2>1. ResponseItem(last) \in Item /\ ResponseItem(last).kind = "response"
      BY <1>5 DEF ResponseItem, Item
    <2> QED BY <1>3, <2>1, Singleton
  <1>8. b \in Items /\ Events(b) = {} /\ (snap > 0 => \A n \in 1..snap : CoveredBy(b, n))
    <2>1. CASE ~(snap > 0) BY <1>3, <2>1, EmptyStream DEF News
    <2>2. CASE snap > 0
      <3>1. PICK x : x = SnapshotItem(snap) OBVIOUS
      <3>2. x \in Item /\ x.kind = "snapshot" /\ x.seq = snap BY <1>5, <3>1 DEF SnapshotItem, Item
      <3>3. b = <<x>> BY <1>3, <2>2, <3>1
      <3>4. b \in Items /\ Len(b) = 1 /\ b[1] = x /\ Events(b) = {} BY <3>2, <3>3, Singleton
      <3>5. \A n \in 1..snap : Covers(b[1], n) BY <3>2, <3>4 DEF Covers
      <3> QED BY <3>4, <3>5 DEF CoveredBy
    <2> QED BY <2>1, <2>2
  <1>9. PICK c : c = a \o b OBVIOUS
  <1>10. c \in Items BY <1>7, <1>8, <1>9, ConcatSegments
  <1>11. Chain(known, c)
    <2>1. Chain(known, a) BY <1>7 DEF Chain
    <2> QED BY <1>7, <1>8, <1>9, <2>1, ChainConcat
  <1>12. \A n \in 1..after : n \in known \/ CoveredBy(c, n)
    <2>1. ASSUME NEW n \in 1..after PROVE n \in known \/ CoveredBy(c, n)
      <3>1. CASE snap > 0
        <4>1. CoveredBy(b, n) BY <1>2, <1>8, <3>1
        <4> QED BY <1>7, <1>8, <1>9, <4>1, ConcatCovers
      <3>2. CASE ~(snap > 0) BY <1>2, <3>2 DEF Complete, CursorIsWhole
      <3> QED BY <3>1, <3>2
    <2> QED BY <2>1
  <1>13. \A n \in 1..last : n \in 1..after \/ (n \in present /\ n > after)
    <2>1. ASSUME NEW n \in 1..last, ~(n \in 1..after) PROVE n \in present /\ n > after
      <3>1. n > after BY <1>5, <2>1
      <3>2. n \in present \/ n <= floor BY DEF Complete
      <3> QED BY <1>5, <3>1, <3>2
    <2> QED BY <2>1
  <1>14. \A n \in Nat : EventItem(n).kind = "event" /\ EventItem(n).seq = n BY DEF EventItem
  <1>15. Len(s) \in Nat /\ \A i \in 1..Len(s) : s[i].seq \in Nat BY <1>5, <1>6, ItemSeq DEF Items
  <1>16. ASSUME NEW n \in 1..last PROVE n \in known \/ CoveredBy(c, n) \/ \E i \in 1..Len(s) : s[i] = EventItem(n)
    BY <1>6, <1>12, <1>13
  <1>17. ASSUME NEW i \in Events(s), NEW n \in 1..s[i].seq - 1
         PROVE  n \in known \/ CoveredBy(c, n) \/ \E j \in 1..i - 1 : Covers(s[j], n)
    <2>1. i \in 1..Len(s) /\ s[i].seq \in 1..last BY <1>5, <1>6 DEF Events
    <2>2. n \in 1..last /\ n < s[i].seq /\ n \in Nat BY <1>5, <2>1
    <2>3. ASSUME NEW j \in 1..Len(s), s[j] = EventItem(n) PROVE j \in 1..i - 1 /\ Covers(s[j], n)
      <3>1. s[j].seq = n /\ s[j].kind = "event" BY <1>14, <2>2, <2>3
      <3>2. j \in Events(s) /\ i \in Nat /\ j \in Nat BY <1>15, <2>1, <3>1 DEF Events
      <3>3. j # i BY <2>2, <3>1
      <3>4. ~(i < j)
        <4>1. i < j => s[i].seq < s[j].seq BY <1>6, <3>2 DEF Ordered
        <4> QED BY <1>15, <2>1, <2>2, <3>1, <4>1
      <3> QED BY <1>15, <2>1, <3>1, <3>2, <3>3, <3>4 DEF Covers
    <2> QED BY <1>16, <2>2, <2>3
  <1>18. PICK T : T = c \o s OBVIOUS
  <1>19. T \in Items /\ Chain(known, T)
    BY <1>6, <1>10, <1>11, <1>17, <1>18, ChainConcat, ConcatSegments
  <1>20. \A n \in 1..last : n \in known \/ CoveredBy(T, n)
    <2>1. ASSUME NEW n \in 1..last PROVE n \in known \/ CoveredBy(c, n) \/ CoveredBy(s, n)
      <3>1. ASSUME NEW i \in 1..Len(s), s[i] = EventItem(n) PROVE CoveredBy(s, n)
        <4>1. Covers(s[i], n) BY <1>14, <3>1 DEF Covers
        <4> QED BY <4>1 DEF CoveredBy
      <3> QED BY <1>16, <3>1
    <2> QED BY <1>6, <1>10, <1>18, <2>1, ConcatCovers
  <1>21. InFlight' = <<>> /\ AllItems' = T
    <2>1. InFlight' = <<>> \o <<>> BY <1>1, <1>2 DEF InFlight, connection
    <2>2. InFlight' = <<>> BY <2>1
    <2>3. <<>> \o T = T BY <1>19 DEF Items
    <2> QED BY <1>4, <1>9, <1>18, <2>2, <2>3 DEF AllItems
  <1>22. slow' = slow /\ known' = known /\ last' = last BY <1>1 DEF connection, client
  <1> QED BY <1>1, <1>2, <1>19, <1>20, <1>21, <1>22 DEF Complete, CursorIsWhole, Starts, client

(* The same items, further on their way *)
LEMMA MoveCompletes ==
    ASSUME IInv, Complete, PutInitial \/ SenderGet
    PROVE  Complete'
  <1>1. /\ UNCHANGED <<store, slow, stage, buffer, client>> /\ (stage # "flush" => delivered' = delivered)
    BY DEF PutInitial, SenderGet, subscription
  <1>2. /\ hand \in Items /\ outq \in Items /\ todo \in Items /\ InFlight \in Items /\ AllItems \in Items
    BY StreamFacts
  <1>3. AllItems' = AllItems /\ (InFlight' = InFlight \/ (~slow /\ PutInitial))
    <2>1. CASE SenderGet
      <3>1. hand = <<>> /\ outq # <<>> /\ hand' = <<Head(outq)>> /\ outq' = Tail(outq) /\ todo' = todo
        BY <2>1 DEF SenderGet, subscription
      <3>2. <<Head(outq)>> \o Tail(outq) = outq BY <1>2, <3>1 DEF Items
      <3>3. <<>> \o outq = outq BY <1>2 DEF Items
      <3> QED BY <3>1, <3>2, <3>3 DEF InFlight, AllItems
    <2>2. CASE PutInitial
      <3>1. /\ todo # <<>> /\ ~slow /\ hand' = hand
            /\ outq' = Append(outq, Head(todo)) /\ todo' = Tail(todo)
        BY <2>2 DEF PutInitial
      <3>2. PICK x, r : x = Head(todo) /\ r = Tail(todo) OBVIOUS
      <3>3. x \in Item /\ r \in Items /\ todo = <<x>> \o r BY <1>2, <3>1, <3>2 DEF Items
      <3>4. (hand \o (outq \o <<x>>)) \o r = (hand \o outq) \o (<<x>> \o r) BY SMTT(30), <1>2, <3>3 DEF Items
      <3>5. Append(outq, x) = outq \o <<x>> BY <1>2, <3>3 DEF Items
      <3> QED BY <2>2, <3>1, <3>2, <3>3, <3>4, <3>5 DEF InFlight, AllItems
    <2> QED BY <2>1, <2>2
  <1>4. Starts(known, InFlight')
    <2>1. CASE InFlight' = InFlight BY <2>1 DEF Complete
    <2>2. CASE ~slow /\ PutInitial
      <3>1. IInv' BY <2>2, PutInitialStep
      <3>2. (InFlight \in Items /\ todo \in Items)'
        <4>1. (hand \in Items /\ outq \in Items /\ todo \in Items)' BY <3>1 DEF IInv, TypeOK, Items
        <4> QED BY <4>1, ConcatSegments DEF InFlight
      <3>3. Chain(known, AllItems) BY <2>2 DEF Complete
      <3>4. PICK F, t : F = InFlight' /\ t = todo' OBVIOUS
      <3>5. Chain(known, F \o t) BY <1>3, <3>3, <3>4 DEF AllItems
      <3> QED BY <3>2, <3>4, <3>5, ChainPrefix
    <2> QED BY <1>3, <2>1, <2>2
  <1>5. slow => InFlight' # <<>> BY <1>3 DEF Complete
  <1>6. ASSUME stage = "flush", PutInitial, NEW n \in 1..last, Awaited(n), ~(n > delivered')
        PROVE  n \in known \/ CoveredBy(AllItems, n)
    <2>1. todo # <<>> /\ ~slow /\ delivered' = Head(todo).seq BY <1>6 DEF PutInitial
    <2>2. PICK x, k, A : x = todo[1] /\ k = Len(InFlight) + 1 /\ A = AllItems OBVIOUS
    <2>3. Len(todo) \in Nat /\ Len(todo) > 0 /\ Head(todo) = x /\ Len(InFlight) \in Nat
      BY <1>2, <2>1, <2>2 DEF Items
    <2>4. k \in 1..Len(A) /\ A[k] = x
      <3>1. Segment(todo, InFlight \o todo, Len(InFlight)) /\ Len(InFlight \o todo) = Len(InFlight) + Len(todo)
        BY <1>2, ConcatSegments
      <3>2. A = InFlight \o todo BY <2>2 DEF AllItems
      <3> QED BY <2>2, <2>3, <3>1, <3>2 DEF Segment
    <2>5. x.kind = "event" /\ x.seq \in Nat
      <3>1. 1 \in 1..Len(todo) /\ MaxSeq \in Nat BY <2>3, TypeFacts DEF IInv
      <3> QED BY <1>2, <1>6, <2>2, <3>1, ItemSeq DEF IInv, Position
    <2>6. k \in Events(A) BY <2>4, <2>5 DEF Events
    <2>7. \A m \in 1..x.seq - 1 : m \in known \/ \E j \in 1..k - 1 : Covers(A[j], m)
      BY <2>1, <2>2, <2>4, <2>6 DEF Complete, Chain
    <2>8. \A j \in 1..k - 1 : j \in 1..Len(A) BY <1>2, <2>2, <2>3, <2>4 DEF Items
    <2>9. n \in 1..x.seq - 1 \/ n = x.seq
      <3>1. last \in Nat BY TypeFacts DEF IInv
      <3> QED BY <1>6, <2>1, <2>3, <2>5, <3>1
    <2>10. CASE n = x.seq
      <3>1. Covers(A[k], n) BY <2>4, <2>5, <2>10 DEF Covers
      <3> QED BY <2>2, <2>4, <3>1 DEF CoveredBy
    <2>11. CASE n \in 1..x.seq - 1 BY <2>2, <2>7, <2>8, <2>11 DEF CoveredBy
    <2> QED BY <2>9, <2>10, <2>11
  <1>7. \A n \in 1..last : n \in known \/ CoveredBy(AllItems, n) \/ Awaited(n) =>
                           n \in known \/ CoveredBy(AllItems, n) \/ (Awaited(n))'
    <2>1. stage = "flush" /\ SenderGet => delivered' = delivered BY DEF SenderGet, subscription
    <2>2. CASE delivered' = delivered BY <1>1, <2>2 DEF Awaited, store
    <2>3. CASE stage = "flush" /\ PutInitial BY <1>1, <1>6, <2>3 DEF Awaited, store
    <2> QED BY <1>1, <2>1, <2>2, <2>3
  <1>8. stage \in {"put", "flush", "live"} /\ ~slow =>
           \A n \in 1..last : n \in known \/ CoveredBy(AllItems, n) \/ (Awaited(n))'
    BY <1>7 DEF Complete
  <1> QED BY <1>1, <1>3, <1>4, <1>5, <1>8 DEF Complete, CursorIsWhole, store, client

\* A subscription given up owes nothing
LEMMA TimeoutCompletes ==
    ASSUME IInv, Complete, PutInitialTimeout
    PROVE  Complete'
  <1>1. /\ slow' = TRUE /\ UNCHANGED <<store, conn, outq, hand, client>> /\ stage' = "off" /\ buffer' = {} /\ Room = 0
    BY DEF PutInitialTimeout, NoSubscription
  <1>2. InFlight' = InFlight BY <1>1 DEF InFlight
  <1>3. outq # <<>>
    <2>1. Len(outq) \in Nat /\ QueueMax \in Nat \ {0} BY StreamFacts DEF IInv, Bounds
    <2>2. Len(outq) # 0 BY <1>1, <2>1 DEF Room
    <2> QED BY <2>2
  <1>4. InFlight # <<>> BY <1>3, StreamFacts
  <1> QED BY <1>1, <1>2, <1>4 DEF Complete, CursorIsWhole, store, client

(* What was buffered and not replayed follows, in order *)
LEMMA FlushCompletes ==
    ASSUME IInv, Complete, FlushBegin
    PROVE  Complete'
  <1>1. /\ stage = "put" /\ todo = <<>> /\ ~slow /\ buffer' \subseteq buffer
        /\ UNCHANGED <<store, connection, after, snap, delivered, client>>
    BY DEF FlushBegin, Complete
  <1>2. InFlight' = InFlight /\ InFlight \in Items /\ AllItems = InFlight
    BY <1>1, StreamFacts DEF InFlight, connection
  <1>3. \A n \in 1..last : \/ n \in known \/ CoveredBy(InFlight, n) \/ n \in Pending
                           \/ n > delivered /\ n \in ToSet(owed)
    BY <1>1, <1>2 DEF Complete, Pending, Awaited
  <1>4. slow' = slow /\ known' = known /\ last' = last /\ owed' = owed BY <1>1 DEF connection, client, store
  <1>5. \A n : n > delivered /\ n \in ToSet(owed) => (Awaited(n))' BY <1>1, <1>4 DEF Awaited
  <1>6. \A n \in buffer' : \A m \in ToSet(owed') : n < m BY <1>1, <1>4 DEF Complete
  <1>7. CASE Pending = {}
    <2>1. stage' = "live" /\ UNCHANGED todo BY <1>7 DEF FlushBegin
    <2>2. AllItems' = AllItems BY <1>2, <2>1 DEF AllItems
    <2>3. \A n \in 1..last : n \in known \/ CoveredBy(AllItems, n) \/ (Awaited(n))'
      BY <1>2, <1>3, <1>5, <1>7
    <2> QED BY <1>1, <1>2, <1>4, <1>6, <2>1, <2>2, <2>3 DEF Complete, CursorIsWhole, store, client
  <1>8. CASE Pending # {}
    <2>1. PICK s, S, F : S = Pending /\ s = EventItems(Sorted(S)) /\ F = InFlight OBVIOUS
    <2>2. stage' = "flush" /\ todo' = s BY <1>8, <2>1 DEF FlushBegin
    <2>3. MaxSeq \in Nat /\ last \in Nat /\ last <= MaxSeq /\ buffer \subseteq 1..last BY TypeFacts DEF IInv
    <2>4. S \subseteq buffer /\ S \subseteq 1..last /\ S \subseteq 1..MaxSeq
      <3>1. S \subseteq buffer BY <2>1 DEF Pending
      <3>2. 1..last \subseteq 1..MaxSeq BY <2>3
      <3> QED BY <2>3, <3>1, <3>2
    <2>5. IsEventList(S, s) BY <2>1, <2>3, <2>4, EventList
    <2>s. s \in Items BY <2>5 DEF IsEventList
    <2>6. /\ \A n \in S : CoveredBy(s, n)
          /\ \A i \in Events(s) : s[i].seq \in S
          /\ \A i \in Events(s) : \A n \in S : n < s[i].seq => \E j \in 1..i - 1 : Covers(s[j], n)
      BY <2>3, <2>4, <2>5, EventListCovers
    <2>7. ASSUME NEW i \in Events(s), NEW n \in 1..s[i].seq - 1
          PROVE  n \in known \/ CoveredBy(F, n) \/ \E j \in 1..i - 1 : Covers(s[j], n)
      <3>1. s[i].seq \in buffer /\ s[i].seq \in 1..last BY <2>4, <2>6
      <3>2. n \in 1..last /\ n < s[i].seq /\ ~(s[i].seq < n) BY <2>3, <3>1
      <3>3. n \notin ToSet(owed) BY <3>1, <3>2 DEF Complete
      <3> QED BY <1>3, <2>1, <2>6, <3>2, <3>3
    <2>8. Chain(known, F) /\ F \in Items BY <1>1, <1>2, <2>1 DEF Complete
    <2>9. Chain(known, F \o s) BY <2>s, <2>7, <2>8, ChainConcat
    <2>10. \A n \in 1..last : n \in known \/ CoveredBy(F \o s, n) \/ (Awaited(n))'
      <3>1. \A n \in 1..last : n \in known \/ CoveredBy(F, n) \/ n \in S \/ (Awaited(n))'
        BY <1>3, <1>5, <2>1
      <3> QED BY <2>s, <2>6, <2>8, <3>1, ConcatCovers
    <2>11. AllItems' = F \o s BY <1>2, <2>1, <2>2 DEF AllItems
    <2> QED BY <1>1, <1>2, <1>4, <1>6, <2>2, <2>9, <2>10, <2>11 DEF Complete, CursorIsWhole, store, client
  <1> QED BY <1>7, <1>8

(* The client has what the item covers, and no gap below its cursor *)
LEMMA ReceivedLeavesNoGap ==
    ASSUME IInv, Complete, hand # <<>>, Receive(hand[1])
    PROVE  /\ CursorIsWhole' /\ known \subseteq known'
           /\ \A n \in Nat \ {0} : Covers(hand[1], n) => n \in known'
  <1>1. /\ hand \in Items /\ outq \in Items /\ Len(hand) \in Nat /\ MaxSeq \in Nat
        /\ cursor \in Nat
    BY StreamFacts, TypeFacts DEF IInv
  <1>2. Len(hand) > 0 BY <1>1 DEF Items
  <1>3. PICK x : x = hand[1] OBVIOUS
  <1>4. x \in Item /\ x.seq \in Nat /\ x.kind \in {"event", "snapshot", "response"}
    <2>1. 1 \in 1..Len(hand) BY <1>1, <1>2
    <2> QED BY <1>1, <1>3, <2>1, ItemSeq DEF Item
  <1>5. x = InFlight[1] /\ InFlight # <<>>
    <2>1. InFlight[1] = hand[1] BY <1>1, <1>2 DEF InFlight, Items
    <2> QED BY <1>3, <2>1, StreamFacts
  <1>6. CASE x.kind = "event"
    <2>1. cursor' = Max({cursor, x.seq}) /\ known' = known \cup {x.seq} BY <1>3, <1>6 DEF Receive
    <2>2. cursor' = cursor \/ cursor' = x.seq BY <1>1, <1>4, <2>1, MaxOfTwo
    <2>3. 1..x.seq - 1 \subseteq known BY <1>5, <1>6 DEF Complete, Starts
    <2>4. 1..cursor \subseteq known BY DEF Complete, CursorIsWhole
    <2>5. 1..x.seq \subseteq known' BY <1>4, <2>1, <2>3
    <2>6. CursorIsWhole' BY <2>1, <2>2, <2>4, <2>5 DEF CursorIsWhole
    <2> QED BY <1>3, <1>6, <2>1, <2>6 DEF Covers
  <1>7. CASE x.kind = "snapshot"
    <2>1. cursor' = Max({cursor, x.seq}) /\ known' = known \cup 1..x.seq BY <1>3, <1>7 DEF Receive
    <2>2. cursor' = cursor \/ cursor' = x.seq BY <1>1, <1>4, <2>1, MaxOfTwo
    <2>3. 1..cursor \subseteq known BY DEF Complete, CursorIsWhole
    <2>4. CursorIsWhole' BY <2>1, <2>2, <2>3 DEF CursorIsWhole
    <2>5. \A n \in Nat \ {0} : Covers(x, n) => n \in 1..x.seq BY <1>4, <1>7 DEF Covers
    <2> QED BY <1>3, <2>1, <2>4, <2>5
  <1>8. CASE x.kind = "response"
    <2>1. cursor' = cursor /\ known' = known BY <1>3, <1>8 DEF Receive, client
    <2>2. \A n : ~Covers(x, n) BY <1>8 DEF Covers
    <2> QED BY <1>3, <2>1, <2>2 DEF Complete, CursorIsWhole
  <1> QED BY <1>4, <1>6, <1>7, <1>8

\* A closed connection leaves the cursor
LEMMA HangupCompletes ==
    ASSUME Complete, Hangup, UNCHANGED store, CursorIsWhole'
    PROVE  Complete'
  <1>1. slow' = FALSE /\ outq' = <<>> /\ hand' = <<>> /\ todo' = <<>> /\ stage' = "off" /\ buffer' = {}
    BY DEF Hangup, NoSubscription
  <1>2. InFlight' = <<>> /\ AllItems' = <<>>
    <2>1. <<>> \o <<>> = <<>> OBVIOUS
    <2> QED BY <1>1, <2>1 DEF InFlight, AllItems
  <1>3. Chain(known', <<>>) BY EmptyStream DEF Chain, News
  <1> QED BY <1>1, <1>2, <1>3 DEF Complete, Starts, store

\* An item reaches the client, and a slow consumer is closed after it
LEMMA SendCompletes ==
    ASSUME IInv, Complete, SenderSend
    PROVE  Complete'
  <1>1. hand # <<>> /\ Receive(hand[1]) /\ UNCHANGED store BY DEF SenderSend
  <1>2. /\ CursorIsWhole' /\ known \subseteq known'
        /\ \A n \in Nat \ {0} : Covers(hand[1], n) => n \in known'
    BY <1>1, ReceivedLeavesNoGap
  <1>3. CASE slow
    <2>1. Hangup BY <1>3 DEF SenderSend
    <2> QED BY <1>1, <1>2, <2>1, HangupCompletes
  <1>4. CASE ~slow
    <2>1. hand' = <<>> /\ UNCHANGED <<conn, slow, outq, stage, todo, buffer, delivered>>
      BY <1>4 DEF SenderSend, subscription
    <2>2. /\ hand \in Items /\ outq \in Items /\ todo \in Items /\ InFlight \in Items /\ AllItems \in Items
          /\ Len(hand) \in Nat /\ Len(outq) \in Nat
      BY StreamFacts
    <2>3. Len(hand) = 1
      <3>1. \A s \in Items : Len(s) = 0 <=> s = <<>> BY DEF Items
      <3>2. Len(hand) # 0 BY <1>1, <2>2, <3>1
      <3>3. Len(hand) <= 1 BY DEF IInv, TypeOK
      <3>4. PICK n \in Nat : n = Len(hand) BY <2>2
      <3>5. \A m \in Nat : m <= 1 /\ m # 0 => m = 1 OBVIOUS
      <3> QED BY <3>2, <3>3, <3>4, <3>5
    <2>4. PICK x, r : x = hand[1] /\ r = outq \o todo OBVIOUS
    <2>5. x \in Item /\ hand = <<x>>
      <3>1. \A s \in Items : Len(s) = 1 => s = <<s[1]>> /\ s[1] \in Item BY DEF Items
      <3> QED BY <2>2, <2>3, <2>4, <3>1
    <2>6. r \in Items /\ AllItems = <<x>> \o r
      <3>1. r \in Items BY <2>2, <2>4, ConcatSegments
      <3>2. (<<x>> \o outq) \o todo = <<x>> \o (outq \o todo) BY <2>2, <2>5 DEF Items
      <3> QED BY <2>4, <2>5, <3>1, <3>2 DEF AllItems, InFlight
    <2>7. AllItems # <<>> /\ AllItems[1] = x /\ Tail(AllItems) = r BY <2>5, <2>6 DEF Items
    <2>8. InFlight' = outq /\ AllItems' = r
      <3>1. <<>> \o outq = outq BY <2>2 DEF Items
      <3> QED BY <2>1, <2>4, <3>1 DEF InFlight, AllItems
    <2>9. PICK A, new : A = AllItems /\ new = known' OBVIOUS
    <2>10. Chain(known, A) /\ A \in Items /\ A # <<>> /\ A[1] = x /\ Tail(A) = r
      BY <1>4, <2>2, <2>7, <2>9 DEF Complete
    <2>11. Chain(new, r) BY <1>2, <2>4, <2>9, <2>10, ChainTail
    <2>12. Starts(new, outq) BY <2>2, <2>4, <2>11, ChainPrefix
    <2>13. \A n \in 1..last : n \in Nat \ {0}
      <3>1. last \in Nat BY TypeFacts DEF IInv
      <3> QED BY <3>1
    <2>14. \A n \in 1..last : n \in known \/ CoveredBy(A, n) => n \in new \/ CoveredBy(r, n)
      BY <1>2, <2>4, <2>9, <2>10, <2>13, TailCovers
    <2>15. stage \in {"put", "flush", "live"} =>
              \A n \in 1..last : n \in new \/ CoveredBy(r, n) \/ Awaited(n)
      BY <1>4, <2>9, <2>14 DEF Complete
    <2> QED BY <1>1, <1>2, <1>4, <2>1, <2>8, <2>9, <2>11, <2>12, <2>15 DEF Complete, Awaited, store
  <1> QED BY <1>3, <1>4

\* Every step keeps completeness
LEMMA CompleteInductive ==
    ASSUME IInv, Complete, ~lossy', [Next]_vars
    PROVE  Complete'
  <1>1. CASE UNCHANGED vars
    BY <1>1 DEF Complete, CursorIsWhole, InFlight, AllItems, Awaited,
                vars, store, connection, subscription, client
  <1>2. CASE Disconnect
    <2>1. Hangup /\ UNCHANGED <<store, client>> BY <1>2 DEF Disconnect
    <2>2. CursorIsWhole' BY <2>1 DEF Complete, CursorIsWhole, client
    <2> QED BY <2>1, <2>2, HangupCompletes
  <1>3. CASE Replay BY <1>3, ReplayCompletes, HandlerCompletes
  <1>4. CASE Next
    BY <1>2, <1>3, <1>4, EmitCompletes, BundleAppendCompletes, BundleNotifyCompletes,
       PruneCompletes, CommandCompletes, HandlerCompletes, MoveCompletes, TimeoutCompletes,
       FlushCompletes, SendCompletes
       DEF Next, Handler
  <1> QED BY <1>1, <1>4

\* What was lost stays lost
LEMMA LossIsFinal == ASSUME [Next]_vars, lossy PROVE lossy'
  <1>1. CASE Emit \/ BundleNotify BY <1>1, Zenon DEF Emit, BundleNotify
  <1>2. CASE Replay
    <2>1. lossy' = lossy \/ lossy' = (lossy \/ Len(Backlog) > Limit) BY <1>2 DEF Replay
    <2> QED BY <2>1, Zenon
  <1>3. CASE UNCHANGED store BY <1>3 DEF store
  <1>4. Emit \/ BundleNotify \/ Replay \/ UNCHANGED lossy
    BY DEF Next, Handler, vars, store, BundleAppend, Prune, Snapshot, Subscribe, SubscribeAgain,
           TakeSnapshot, PutInitial, PutInitialTimeout, FlushBegin, FlushEnd, SenderGet, SenderSend,
           Connect, Disconnect
  <1> QED BY <1>1, <1>2, <1>4

\* Nothing is missing at the start
LEMMA CompleteInitially == ASSUME Init PROVE Complete
  <1>1. InFlight = <<>> /\ AllItems = <<>>
    <2>1. <<>> \o <<>> = <<>> OBVIOUS
    <2> QED BY <2>1 DEF Init, InFlight, AllItems
  <1>2. Chain(known, <<>>) BY EmptyStream DEF Chain, News
  <1> QED BY <1>1, <1>2 DEF Init, Complete, CursorIsWhole, Starts

\* Completeness is the promise
LEMMA CompleteMissesNothing == ASSUME IInv, Complete PROVE NoGap
  <1>1. ASSUME stage = "live", ~slow, NEW n \in 1..last \ ToSet(owed)
        PROVE  n \in known \cup Covered(InFlight)
    <2>1. AllItems = InFlight BY <1>1, StreamFacts DEF IInv, Position
    <2>2. n \in known \/ CoveredBy(InFlight, n) BY <1>1, <2>1 DEF Complete, Awaited
    <2> QED BY <2>2 DEF CoveredBy, Covered
  <1> QED BY <1>1 DEF Complete, NoGap, LiveMissesNothing

(* For any number of events, any replay limit, any queue and any bundle:   *)
(* the client has every event up to its cursor, and a live subscription    *)
(* owes it nothing that is not on its way; through prunes, full queues,    *)
(* slow consumers, disconnections and reconnections, until a replay is cut *)
(* off by its limit, an event is announced while a buffer is flushed, or   *)
(* an event overtakes a bundle.  Nothing else the server does loses one.   *)
THEOREM DeliveryIsComplete == Spec => []NoGap
  <1> DEFINE Inv == IInv /\ (~lossy => Complete)
  <1>1. Init => Inv BY BoundAssumption, Initially, CompleteInitially
  <1>2. Inv /\ [Next]_vars => Inv' BY Inductive, CompleteInductive, LossIsFinal
  <1>3. Inv => NoGap BY CompleteMissesNothing DEF NoGap
  <1> QED BY <1>1, <1>2, <1>3, PTL DEF Spec
=============================================================================
