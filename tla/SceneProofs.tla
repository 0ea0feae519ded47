----------------------------- MODULE SceneProofs -----------------------------
(***************************************************************************)
(* What the agent writes in the scene, proved of MCScene's specification.  *)
(***************************************************************************)
EXTENDS MCScene, FiniteSetTheorems, WellFoundedInduction, TLAPS

sceneVars == <<part, vars, sandboxVars, manifestVars, probeVars>>

\* A set of numbers that is not empty has a least one
LEMMA Least ==
    ASSUME NEW T, T \subseteq Nat, T # {}
    PROVE  \E m \in T : \A k \in T : m <= k
  <1> DEFINE R == OpToRel(<, Nat)
  <1>1. IsWellFoundedOn(R, Nat) BY NatLessThanWellFounded
  <1>2. \A k, m \in Nat : k < m => <<k, m>> \in R BY Zenon DEF OpToRel
  <1> HIDE DEF R
  <1>3. PICK m \in T : \A k \in T : ~ (<<k, m>> \in R) BY <1>1, WFMin
  <1>4. \A k \in T : ~(k < m) BY <1>2, <1>3
  <1>5. \A k \in T : m <= k BY <1>4
  <1> QED BY <1>5

----------------------------------------------------------------------------
(* ParmManifest: what is in the sandbox is remembered.  A batch under way  *)
(* has its references on record already, so that an operation which lands  *)
(* after the batch was sent, and one that is kept when the batch fails,    *)
(* writes nothing new.                                                     *)

Remembered ==
    /\ \A y \in exprs : y.ref \in exprRefs
    /\ batch # <<>> => \A k \in DOMAIN batch.ops : M!OpRefs(batch.ops[k]) \subseteq exprRefs
    /\ batch # <<>> => batch.ops \in ManifestBatches /\ batch.i \in Nat \ {0}
ManifestInv == Remembered /\ M!NoUndeclaredDriver

\* With no expression written and no batch open there is nothing to be hidden
LEMMA ManifestStarts == M!ManifestInit => ManifestInv
  BY DEF M!ManifestInit, ManifestInv, Remembered, M!NoUndeclaredDriver

\* An operation of a batch writes what the batch was recorded with; what raises, is taken
\* back or is committed only makes the expressions fewer
LEMMA ManifestStep == ManifestInv /\ M!ManifestNext => ManifestInv'
  <1> SUFFICES ASSUME ManifestInv, M!ManifestNext PROVE ManifestInv' OBVIOUS
  <1>0. Remembered /\ M!NoUndeclaredDriver BY DEF ManifestInv
  <1>1. ASSUME NEW ops \in ManifestBatches, NEW preserve \in BOOLEAN, M!Build(ops, preserve)
        PROVE  ManifestInv'
    <2>1. CASE ~M!ParsesOperations(ops)
      BY <1>0, <1>1, <2>1
         DEF M!Build, M!Say, ManifestInv, Remembered, M!NoUndeclaredDriver
    <2>2. CASE M!ParsesOperations(ops)
      <3>1. /\ exprRefs' = exprRefs \cup UNION {M!OpRefs(ops[k]) : k \in DOMAIN ops}
            /\ batch'.ops = ops /\ batch'.i = 1
            /\ exprs' = exprs /\ asset' = asset
        BY <1>1, <2>2 DEF M!Build
      <3>2. \A k \in DOMAIN ops : M!OpRefs(ops[k]) \subseteq exprRefs' BY <3>1, Zenon
      <3>3. \A y \in exprs' : y.ref \in exprRefs' BY <1>0, <3>1, Zenon DEF Remembered
      <3>4. M!NoUndeclaredDriver' BY <1>0, <3>1 DEF M!NoUndeclaredDriver
      <3> QED BY <3>1, <3>2, <3>3, <3>4 DEF ManifestInv, Remembered
    <2> QED BY <2>1, <2>2
  <1>2. CASE M!ExecOp
    <2> DEFINE op == batch.ops[batch.i]
    <2>1. /\ batch # <<>> /\ batch'.ops = batch.ops /\ exprRefs' = exprRefs /\ asset' = asset
      BY <1>2 DEF M!ExecOp, M!Sending, M!Idle
    <2>2. \A y \in exprs' : y \in exprs \/ y.ref \in M!OpRefs(op)
      BY <1>2 DEF M!ExecOp, M!Op, M!Without
    <2>3. batch.i \in DOMAIN batch.ops
      BY <1>0, <1>2, <2>1, BatchAssumption DEF M!ExecOp, M!Sending, Remembered
    <2>8. batch'.i = batch.i + 1
      BY <1>2 DEF M!ExecOp
    <2>4. M!OpRefs(op) \subseteq exprRefs BY <1>0, <2>1, <2>3, Zenon DEF Remembered
    <2>5. \A y \in exprs' : y.ref \in exprRefs' BY <1>0, <2>1, <2>2, <2>4, Zenon DEF Remembered
    <2>6. M!NoUndeclaredDriver' BY <1>0, <2>1 DEF M!NoUndeclaredDriver
    <2>7. \A k \in DOMAIN batch'.ops : M!OpRefs(batch'.ops[k]) \subseteq exprRefs'
      BY <1>0, <2>1, Zenon DEF Remembered
    <2>9. batch'.i \in Nat \ {0} /\ batch'.ops \in ManifestBatches
      BY <1>0, <2>1, <2>8 DEF Remembered
    <2> QED BY <2>5, <2>6, <2>7, <2>9 DEF ManifestInv, Remembered
  <1>3. CASE M!OpRaises
    <2>1. /\ batch' = <<>> /\ exprRefs' = exprRefs /\ asset' = asset
          /\ \A y \in exprs' : y \in exprs
      BY <1>3 DEF M!OpRaises, M!Without
    <2> QED BY <1>0, <2>1 DEF ManifestInv, Remembered, M!NoUndeclaredDriver
  <1>4. CASE M!ExecDone
    BY <1>0, <1>4 DEF M!ExecDone, M!Say, ManifestInv, Remembered, M!NoUndeclaredDriver
  <1>5. ASSUME NEW m \in ParmManifests, M!Commit(m) PROVE ManifestInv'
    <2>1. exprRefs' = exprRefs /\ batch' = batch BY <1>5 DEF M!Commit
    <2>2. CASE asset' = asset /\ exprs' = exprs
      BY <1>0, <2>1, <2>2 DEF ManifestInv, Remembered, M!NoUndeclaredDriver
    <2>3. CASE /\ M!ValidateManifestRefs(m) /\ asset' = [manifest |-> m, exprs |-> exprs]
               /\ exprs' = {}
      <3>1. m # {} => \A r \in exprRefs : \E d \in m : d.parm = r.parm
        BY <2>3, Zenon DEF M!ValidateManifestRefs
      <3>2. \A y \in exprs : m # {} => \E d \in m : d.parm = y.ref.parm
        BY <1>0, <3>1, Zenon DEF Remembered
      <3>3. M!NoUndeclaredDriver' BY <2>3, <3>2 DEF M!NoUndeclaredDriver
      <3> QED BY <1>0, <2>1, <2>3, <3>3 DEF ManifestInv, Remembered
    <2> QED BY <1>5, <2>2, <2>3 DEF M!Commit
  <1> QED BY <1>1, <1>2, <1>3, <1>4, <1>5 DEF M!ManifestNext

----------------------------------------------------------------------------
(* SceneProbes: while a sample is taken, the parameters that differ from   *)
(* what it found are among those noted as written, so that the restore,    *)
(* which takes them back one by one, misses none but the one whose set     *)
(* raised after setting, and then the sample has failed; while a first     *)
(* picture is taken, the temporary nodes are those of its scope.           *)

Sampling == {"write", "restore"}
Capturing == {"camera", "rop", "render", "destroy"}
Item == [parm : Parm, value : ParmValue]
Samples == [kind : {"sample"}, todo : Seq(Item), written : Seq(Parm), failed : BOOLEAN, original : {found}]
SampleInv ==
    at \in Sampling =>
        /\ ~probeFrozen /\ probe \in Samples
        /\ \A q \in Parm : \/ parm[q] = found[q] \/ q \in slip
                            \/ \E i \in 1..Len(probe.written) : probe.written[i] = q
        /\ slip # {} => probe.failed /\ at = "restore"
Captures == [kind : {"capture"}, scope : Seq({"camera", "rop"}), failed : BOOLEAN]
FirstInv ==
    /\ probes = 0 => at = "idle" /\ temp = {} /\ "final" \notin files
    /\ probes = 1 /\ at # "idle" => "final" \notin files
    /\ probes = 1 /\ at \in Sampling \cup {"verify"} => temp = {}
    /\ probes = 1 /\ at \in Capturing => temp \subseteq {probe.scope[i] : i \in 1..Len(probe.scope)}
    /\ at \in Capturing => probe \in Captures
ProbeInv ==
    /\ at \in {"idle", "verify"} \cup Sampling \cup Capturing /\ probes \in Nat
    /\ parm \in [Parm -> ParmValue]
    /\ at \in Capturing \cup {"verify"} => parm = found
    /\ SampleInv /\ FirstInv /\ P!ProbesLeaveNoTrace

\* Before the first probe every parameter has its own value
LEMMA ProbesStart == P!ProbesInit => ProbeInv
  BY ProbeAssumption
     DEF P!ProbesInit, ProbeInv, SampleInv, FirstInv, Sampling, Capturing, P!ProbesLeaveNoTrace,
         P!ParmsRestored

\* The next item is taken and its parameter noted
LEMMA NotedWrite ==
    ASSUME NEW r \in Samples, NEW p \in Parm, NEW t \in Seq(Item), NEW f \in BOOLEAN, NEW e,
           e = [r EXCEPT !.todo = t, !.written = Append(r.written, p), !.failed = f]
    PROVE  e \in Samples /\ e.written = Append(r.written, p)
  <1>1. r.written \in Seq(Parm) BY DEF Samples
  <1>2. PICK w : w = Append(r.written, p) OBVIOUS
  <1>10. w \in Seq(Parm) BY <1>1, <1>2
  <1>4. PICK q : q = [r EXCEPT !.todo = t] OBVIOUS
  <1>5. q \in Samples BY <1>4 DEF Samples
  <1>6. PICK u : u = [q EXCEPT !.written = w] OBVIOUS
  <1>7. u \in Samples /\ u.written = w BY <1>5, <1>6, <1>10 DEF Samples
  <1>8. [u EXCEPT !.failed = f] \in Samples /\ [u EXCEPT !.failed = f].written = w
    BY <1>7 DEF Samples
  <1>9. e = [u EXCEPT !.failed = f] BY <1>2, <1>4, <1>6, Zenon
  <1> QED BY <1>2, <1>8, <1>9, Zenon

\* sample_sensitivity: written, noted, restored in reverse
LEMMA SampleStep ==
    ASSUME ProbeInv,
           \/ \E s \in Sample : P!BeginSample(s)
           \/ P!WriteSample \/ P!EndWrites \/ P!RestoreSample \/ P!EndSample
    PROVE  ProbeInv'
  <1> USE DEF Sampling, Capturing
  <1>0. at \in Sampling => /\ ~probeFrozen /\ probe \in Samples /\ parm \in [Parm -> ParmValue]
                           /\ \A q \in Parm : \/ parm[q] = found[q] \/ q \in slip
                                               \/ \E i \in 1..Len(probe.written) : probe.written[i] = q
                           /\ slip # {} => probe.failed /\ at = "restore"
    BY DEF ProbeInv, SampleInv
  \* as long as the sample goes on, only its own facts are disturbed
  <1>6. ASSUME at \in Sampling, at' \in Sampling, UNCHANGED <<probeFrozen, temp, files, probes>>,
               parm' \in [Parm -> ParmValue], SampleInv'
        PROVE  ProbeInv'
    BY <1>6 DEF ProbeInv, FirstInv, P!ProbesLeaveNoTrace, P!ParmsRestored
  <1>7. ASSUME at \in Sampling, at' = "idle", UNCHANGED <<temp, files, probes, found, slip>>,
               answer' # "captured", parm' \in [Parm -> ParmValue],
               probeFrozen' \/ \A q \in Parm : parm'[q] = found[q] \/ (q \in slip /\ answer' = "aborted")
        PROVE  ProbeInv'
    <2>1. P!ParmsRestored' BY <1>7 DEF P!ParmsRestored
    <2> QED BY <1>7, <2>1 DEF ProbeInv, SampleInv, FirstInv, P!ProbesLeaveNoTrace
  <1>1. ASSUME NEW s \in Sample, P!BeginSample(s) PROVE ProbeInv'
    <2>1. CASE at' = "idle"
      BY <1>1, <2>1
         DEF P!BeginSample, P!Begin, P!Report, ProbeInv, SampleInv, FirstInv, P!ProbesLeaveNoTrace, P!ParmsRestored
    <2>2. CASE at' # "idle"
      <3>1. /\ at = "idle" /\ at' = "write" /\ ~probeFrozen /\ answer' = answer
            /\ probe' = [kind |-> "sample", todo |-> s, written |-> <<>>, failed |-> FALSE,
                         original |-> parm]
            /\ UNCHANGED <<parm, probeFrozen, temp, files>> /\ probes' = probes + 1
            /\ found' = parm /\ slip' = {}
        BY <1>1, <2>2 DEF P!BeginSample, P!Begin, P!Report
      <3>3. s \in Seq(Item) BY ProbeAssumption DEF Item
      <3>4. (probe \in Samples)' BY <3>1, <3>3 DEF Samples
      <3>5. SampleInv' BY <3>1, <3>4 DEF SampleInv
      <3> QED BY <3>1, <3>5 DEF ProbeInv, FirstInv, P!ProbesLeaveNoTrace, P!ParmsRestored
    <2> QED BY <2>1, <2>2
  <1>2. CASE P!WriteSample
    <2> DEFINE p == Head(probe.todo).parm
               w == probe.written
    <2>0. /\ at = "write" /\ probe.todo # <<>>
          /\ UNCHANGED <<probeFrozen, temp, files, answer, probes, found>>
      BY <1>2 DEF P!WriteSample
    <2>z. slip = {} BY <1>0, <2>0
    <2>1. probe \in Samples /\ parm \in [Parm -> ParmValue] /\ ~probeFrozen BY <1>0, <2>0
    <2>2. probe.todo \in Seq(Item) /\ w \in Seq(Parm) BY <2>1 DEF Samples
    <2>3. Tail(probe.todo) \in Seq(Item) /\ Head(probe.todo) \in Item BY <2>0, <2>2
    <2>4. p \in Parm BY <2>3 DEF Item
    <2>a. Head(probe.todo).value \in ParmValue BY <2>3 DEF Item
    <2>5. CASE /\ \/ parm' = parm /\ slip' = slip
                  \/ parm' = [parm EXCEPT ![p] = Head(probe.todo).value] /\ slip' = {p}
               /\ at' = "restore" /\ probe' = [probe EXCEPT !.failed = TRUE]
      <3>1. (probe \in Samples)' /\ probe'.written = w /\ probe'.failed = TRUE
        BY <2>0, <2>1, <2>5 DEF Samples
      <3>2. parm' \in [Parm -> ParmValue] BY <2>1, <2>4, <2>5, <2>a
      <3>3. \A q \in Parm : \/ parm'[q] = found[q] \/ q \in slip'
                            \/ \E i \in 1..Len(w) : w[i] = q
        BY <1>0, <2>0, <2>1, <2>4, <2>5, <2>z
      <3>4. SampleInv' BY <2>0, <2>1, <2>5, <3>1, <3>3 DEF SampleInv
      <3> QED BY <1>6, <2>0, <2>1, <2>5, <3>2, <3>4
    <2>6. ASSUME NEW v \in ParmValue, NEW cooked \in BOOLEAN,
                 parm' = [parm EXCEPT ![p] = v], slip' = slip,
                 at' = IF cooked THEN "write" ELSE "restore",
                 probe' = [probe EXCEPT !.todo = Tail(@), !.written = Append(probe.written, p), !.failed = ~cooked]
          PROVE  ProbeInv'
      <3>1. (~cooked) \in BOOLEAN OBVIOUS
      <3>12. PICK t, f : t = Tail(probe.todo) /\ f = ~cooked OBVIOUS
      <3>13. t \in Seq(Item) /\ f \in BOOLEAN BY <2>3, <3>1, <3>12
      <3>14. probe' = [probe EXCEPT !.todo = t, !.written = Append(w, p), !.failed = f] BY <2>6, <3>12
      <3>2. (probe \in Samples)' /\ probe'.written = Append(w, p)
        <4>1. PICK k, e : k = p /\ e = probe' OBVIOUS
        <4>2. k \in Parm /\ e = [probe EXCEPT !.todo = t, !.written = Append(probe.written, k), !.failed = f]
          BY <2>4, <3>14, <4>1, Zenon
        <4>3. e \in Samples /\ e.written = Append(probe.written, k) BY <2>1, <3>13, <4>2, NotedWrite
        <4> QED BY <2>0, <4>1, <4>3 DEF Samples
      <3> HIDE DEF p, w
      <3>4. Len(Append(w, p)) = Len(w) + 1 /\ Len(w) \in Nat BY <2>2, <2>4
      <3>5. \A i \in 1..Len(w) : Append(w, p)[i] = w[i] BY <2>2, <2>4
      <3>6. Append(w, p)[Len(w) + 1] = p BY <2>2, <2>4
      <3>7. \A q \in Parm : \/ parm'[q] = found[q]
                            \/ \E i \in 1..Len(Append(w, p)) : Append(w, p)[i] = q
        <4> TAKE q \in Parm
        <4>1. CASE q = p
          <5>1. Len(w) + 1 \in 1..Len(Append(w, p)) BY <3>4
          <5> QED BY <4>1, <5>1, <3>6
        <4>2. CASE q # p
          <5>1. parm'[q] = parm[q] BY <2>1, <2>6, <4>2
          <5>2. CASE parm[q] = found[q] BY <5>1, <5>2
          <5>3. CASE parm[q] # found[q]
            <6>1. PICK i \in 1..Len(w) : w[i] = q BY <1>0, <2>0, <2>z, <5>3 DEF w
            <6>2. i \in 1..Len(Append(w, p)) BY <3>4
            <6> QED BY <6>1, <6>2, <3>5
          <5> QED BY <5>2, <5>3
        <4> QED BY <4>1, <4>2
      <3>8. at' \in Sampling BY <2>6
      <3>9. parm' \in [Parm -> ParmValue] BY <2>1, <2>6
      <3>10. SampleInv' BY <2>0, <2>1, <2>6, <2>z, <3>2, <3>7 DEF SampleInv
      <3> QED BY <1>6, <2>0, <3>8, <3>9, <3>10
    <2> QED BY <1>2, <2>5, <2>6 DEF P!WriteSample, P!Wrote, P!Recorded
  <1>3. CASE P!EndWrites
    BY <1>0, <1>3, <1>6 DEF P!EndWrites, P!history, SampleInv, Samples
  <1>4. CASE P!RestoreSample
    <2> DEFINE w == probe.written
               p == w[Len(w)]
               front == SubSeq(w, 1, Len(w) - 1)
    <2>0. at = "restore" /\ w # <<>> /\ UNCHANGED <<temp, files, probes, found, slip>>
      BY <1>4 DEF P!RestoreSample, P!history
    <2>1. probe \in Samples /\ parm \in [Parm -> ParmValue] /\ ~probeFrozen BY <1>0, <2>0
    <2>2. w \in Seq(Parm) /\ probe.original = found BY <2>1 DEF Samples
    <2>3. p \in Parm /\ Len(w) \in Nat /\ Len(w) > 0 BY <2>0, <2>2
    <2>4. CASE at' = "idle" /\ answer' = "restore_failed" /\ probeFrozen' = TRUE
      <3>1. parm' \in [Parm -> ParmValue] BY <1>4, <2>1, <2>3 DEF P!RestoreSample, P!Wrote, Last
      <3> QED BY <1>7, <2>0, <2>4, <3>1
    <2>5. ASSUME NEW v \in ParmValue, parm' = [parm EXCEPT ![p] = v], v = probe.original[p],
                 probe' = [probe EXCEPT !.written = front], UNCHANGED <<at, answer, probeFrozen>>
          PROVE  ProbeInv'
      <3>1. front \in Seq(Parm) /\ Len(front) = Len(w) - 1 /\ \A i \in 1..Len(w) - 1 : front[i] = w[i]
        BY <2>2, <2>3
      <3> HIDE DEF w, p, front
      <3>2. (probe \in Samples)' /\ probe'.written = front /\ probe'.failed = probe.failed
        BY <2>0, <2>1, <2>5, <3>1 DEF Samples
      <3>3. \A q \in Parm : \/ parm'[q] = found[q] \/ q \in slip
                            \/ \E i \in 1..Len(front) : front[i] = q
        <4> TAKE q \in Parm
        <4>1. CASE q = p BY <2>1, <2>2, <2>5, <4>1
        <4>2. CASE q # p
          <5>1. parm'[q] = parm[q] BY <2>1, <2>5, <4>2
          <5>2. CASE parm[q] = found[q] BY <5>1, <5>2
          <5>3. CASE parm[q] # found[q] /\ q \notin slip
            <6>1. PICK i \in 1..Len(w) : w[i] = q BY <1>0, <2>0, <5>3 DEF w
            <6>2. i \in 1..Len(w) - 1 BY <2>3, <4>2, <6>1 DEF p
            <6> QED BY <6>1, <6>2, <3>1
          <5> QED BY <5>2, <5>3
        <4> QED BY <4>1, <4>2
      <3>4. parm' \in [Parm -> ParmValue] BY <2>1, <2>5
      <3>5. SampleInv' BY <1>0, <2>0, <2>1, <2>5, <3>2, <3>3 DEF SampleInv
      <3> QED BY <1>6, <2>0, <2>5, <3>4, <3>5
    <2>6. ASSUME NEW v \in ParmValue, P!Wrote(p, v),
                 IF P!Restored(p, v)
                 THEN probe' = [probe EXCEPT !.written = front] /\ UNCHANGED <<at, answer, probeFrozen>>
                 ELSE P!Report("restore_failed") /\ probeFrozen' = TRUE
          PROVE  ProbeInv'
      <3>1. CASE P!Restored(p, v) BY <2>5, <2>6, <3>1 DEF P!Wrote, P!Restored
      <3>2. CASE ~P!Restored(p, v) BY <2>4, <2>6, <3>2 DEF P!Report
      <3> QED BY <3>1, <3>2
    <2>7. CASE UNCHANGED parm /\ P!Report("restore_failed") /\ probeFrozen' = TRUE
      BY <2>4, <2>7 DEF P!Report
    <2>8. \/ \E v \in ParmValue :
                /\ P!Wrote(p, v)
                /\ IF P!Restored(p, v)
                   THEN probe' = [probe EXCEPT !.written = front] /\ UNCHANGED <<at, answer, probeFrozen>>
                   ELSE P!Report("restore_failed") /\ probeFrozen' = TRUE
          \/ UNCHANGED parm /\ P!Report("restore_failed") /\ probeFrozen' = TRUE
      BY <1>4, Zenon DEF P!RestoreSample, P!Last, P!Front
    <2> QED BY <2>6, <2>7, <2>8, Zenon
  <1>5. CASE P!EndSample
    <2>1. at = "restore" /\ probe.written = <<>> /\ at' = "idle" /\ answer' # "captured"
          /\ UNCHANGED <<parm, probeFrozen, temp, files, probes, found, slip>>
          /\ (probe.failed => answer' = "aborted")
      BY <1>5 DEF P!EndSample, P!Report, P!history
    <2>2. \A q \in Parm : parm'[q] = found[q] \/ (q \in slip /\ answer' = "aborted")
      <3> TAKE q \in Parm
      <3>1. parm[q] = found[q] \/ q \in slip
        <4>1. \A i \in 1..Len(probe.written) : FALSE BY <2>1
        <4> QED BY <1>0, <2>1, <4>1
      <3>2. q \in slip => probe.failed BY <1>0, <2>1
      <3> QED BY <2>1, <3>1, <3>2
    <2>3. parm' \in [Parm -> ParmValue] BY <1>0, <2>1
    <2>4. UNCHANGED <<temp, files, probes, found, slip>> BY <2>1
    <2> QED BY <1>7, <2>1, <2>2, <2>3, <2>4
  <1> QED BY <1>1, <1>2, <1>3, <1>4, <1>5

\* A temporary node is made and listed before it is set up
LEMMA TempNoted ==
    ASSUME ProbeInv, at \in Capturing, NEW n \in {"camera", "rop"}, NEW next \in Capturing,
           P!CreateTemp(n, next), UNCHANGED <<parm, probeFrozen, files, answer, probes, found, slip>>
    PROVE  ProbeInv'
  <1> USE DEF Sampling, Capturing
  <1>1. probe \in Captures BY DEF ProbeInv, FirstInv
  <1>2. probe.scope \in Seq({"camera", "rop"}) BY <1>1 DEF Captures
  <1>3. \A q \in {probe.scope[i] : i \in 1..Len(probe.scope)} \cup {n} :
           q \in {Append(probe.scope, n)[i] : i \in 1..Len(Append(probe.scope, n))}
    <2> DEFINE s == probe.scope
    <2>1. /\ Len(s) \in Nat /\ Len(Append(s, n)) = Len(s) + 1 /\ Append(s, n)[Len(s) + 1] = n
          /\ \A i \in 1..Len(s) : Append(s, n)[i] = s[i]
      BY <1>2
    <2> HIDE DEF s
    <2>2. Len(s) + 1 \in 1..Len(Append(s, n)) /\ \A i \in 1..Len(s) : i \in 1..Len(Append(s, n)) BY <2>1
    <2>3. \A q \in {s[i] : i \in 1..Len(s)} \cup {n} : q \in {Append(s, n)[i] : i \in 1..Len(Append(s, n))}
      BY <2>1, <2>2, Zenon
    <2> QED BY <2>3 DEF s
  <1> DEFINE Listed == /\ at' \in Capturing /\ probe' \in Captures
                       /\ probes = 1 => temp' \subseteq {probe'.scope[i] : i \in 1..Len(probe'.scope)}
  <1>4. Listed
    <2>1. CASE temp' = temp /\ probe' = [probe EXCEPT !.failed = TRUE] /\ at' = "destroy"
      <3>1. probe' \in Captures /\ probe'.scope = probe.scope BY <1>1, <2>1 DEF Captures
      <3> QED BY <2>1, <3>1 DEF ProbeInv, FirstInv
    <2>2. ASSUME NEW ready \in BOOLEAN, temp' = temp \cup {n},
                 probe' = [probe EXCEPT !.scope = Append(probe.scope, n), !.failed = ~ready],
                 at' = IF ready THEN next ELSE "destroy"
          PROVE  Listed
      <3>1. PICK q, f : q = [probe EXCEPT !.scope = Append(probe.scope, n)] /\ f = ~ready OBVIOUS
      <3>2. q \in Captures /\ q.scope = Append(probe.scope, n) BY <1>1, <1>2, <3>1 DEF Captures
      <3>3. f \in BOOLEAN BY <3>1
      <3>4. probe' = [q EXCEPT !.failed = f] BY <2>2, <3>1, Zenon
      <3>5. probe' \in Captures /\ probe'.scope = Append(probe.scope, n) BY <3>2, <3>3, <3>4 DEF Captures
      <3>6. probes = 1 => temp \subseteq {probe.scope[i] : i \in 1..Len(probe.scope)}
        BY DEF ProbeInv, FirstInv
      <3>7. probes = 1 => temp' \subseteq {probe'.scope[i] : i \in 1..Len(probe'.scope)}
        <4>1. \A y \in temp' : y \in temp \cup {n} BY <2>2
        <4>2. probes = 1 => \A y \in temp' : y \in {probe.scope[i] : i \in 1..Len(probe.scope)} \cup {n}
          BY <3>6, <4>1, Zenon
        <4>3. probes = 1 => \A y \in temp' :
                 y \in {Append(probe.scope, n)[i] : i \in 1..Len(Append(probe.scope, n))}
          BY <1>3, <4>2, Zenon
        <4> QED BY <3>5, <4>3
      <3> QED BY <2>2, <3>5, <3>7
    <2>3. \/ \E ready \in BOOLEAN :
                /\ temp' = temp \cup {n}
                /\ probe' = [probe EXCEPT !.scope = Append(probe.scope, n), !.failed = ~ready]
                /\ at' = IF ready THEN next ELSE "destroy"
          \/ temp' = temp /\ probe' = [probe EXCEPT !.failed = TRUE] /\ at' = "destroy"
      BY Zenon DEF P!CreateTemp, P!InScope
    <2> QED BY <2>1, <2>2, <2>3, Zenon
  <1> QED BY <1>4 DEF ProbeInv, SampleInv, FirstInv, P!ProbesLeaveNoTrace, P!ParmsRestored

\* capture: created, listed, rendered, destroyed
LEMMA CaptureStep ==
    ASSUME ProbeInv,
           \/ P!BeginCapture \/ P!CreateCamera \/ P!CreateRop \/ P!Render \/ P!DestroyScope
           \/ P!VerifyFile
    PROVE  ProbeInv'
  <1> USE DEF Sampling, Capturing
  <1> DEFINE Scope == {probe.scope[i] : i \in 1..Len(probe.scope)}
  <1>1. CASE P!BeginCapture
    <2>1. CASE at' = "idle"
      BY <1>1, <2>1
         DEF P!BeginCapture, P!Begin, P!Report, ProbeInv, SampleInv, FirstInv, P!ProbesLeaveNoTrace, P!ParmsRestored
    <2>2. CASE at' # "idle"
      <3>1. /\ at = "idle" /\ at' = "camera" /\ answer' = answer /\ files' = files \cup {"dir"}
            /\ probe' = [kind |-> "capture", scope |-> <<>>, failed |-> FALSE]
            /\ UNCHANGED <<parm, probeFrozen, temp>> /\ probes' = probes + 1
            /\ found' = parm /\ slip' = {}
        BY <1>1, <2>2 DEF P!BeginCapture, P!Begin, P!Report
      <3>2. probe' \in Captures BY <3>1 DEF Captures
      <3> QED BY <3>1, <3>2
              DEF ProbeInv, SampleInv, FirstInv, P!ProbesLeaveNoTrace, P!ParmsRestored
    <2> QED BY <2>1, <2>2
  <1>2. CASE P!CreateCamera BY <1>2, TempNoted DEF P!CreateCamera, P!history
  <1>3. CASE P!CreateRop BY <1>3, TempNoted DEF P!CreateRop, P!history
  <1>4. CASE P!Render
    <2>1. /\ at = "render" /\ at' = "destroy" /\ UNCHANGED <<parm, probeFrozen, temp, answer, probes, found, slip>>
          /\ "final" \in files' <=> "final" \in files
      BY <1>4 DEF P!Render, P!history
    <2>2. PICK f \in BOOLEAN : probe' = [probe EXCEPT !.failed = f] BY <1>4, Zenon DEF P!Render
    <2>3. probe \in Captures BY <2>1 DEF ProbeInv, FirstInv
    <2>4. probe' \in Captures /\ probe'.scope = probe.scope BY <2>2, <2>3 DEF Captures
    <2> QED BY <2>1, <2>4 DEF ProbeInv, SampleInv, FirstInv, P!ProbesLeaveNoTrace, P!ParmsRestored
  <1>5. CASE P!DestroyScope
    <2>1. PICK gone \in SUBSET P!ToSet(probe.scope) :
             /\ temp' = temp \ gone
             /\ IF gone # P!ToSet(probe.scope)
                THEN P!Report("cleanup_failed") /\ files' = files \ {"tmp", "final", "dir"}
                ELSE IF probe.failed THEN P!Report("render_failed") /\ files' = files \ {"tmp", "final", "dir"}
                ELSE at' = "verify" /\ UNCHANGED <<probe, answer, files>>
      BY <1>5, Zenon DEF P!DestroyScope
    <2>2. at = "destroy" /\ UNCHANGED <<parm, probeFrozen, probes, found, slip>> BY <1>5 DEF P!DestroyScope, P!history
    <2>3. P!ToSet(probe.scope) = Scope
      <3>1. probe.scope \in Seq({"camera", "rop"}) BY <2>2 DEF ProbeInv, FirstInv, Captures
      <3>2. DOMAIN probe.scope = 1..Len(probe.scope) BY <3>1
      <3> QED BY <3>2 DEF P!ToSet
    <2>4. gone = P!ToSet(probe.scope) /\ probes = 1 => temp' = {}
      BY <2>1, <2>2, <2>3 DEF ProbeInv, FirstInv
    <2>5. CASE at' = "verify"
      <3>1. gone = P!ToSet(probe.scope) /\ UNCHANGED <<answer, files>> BY <2>1, <2>5 DEF P!Report
      <3> QED BY <2>2, <2>4, <2>5, <3>1
              DEF ProbeInv, SampleInv, FirstInv, P!ProbesLeaveNoTrace, P!ParmsRestored
    <2>6. CASE at' # "verify"
      <3>1. /\ at' = "idle" /\ files' = files \ {"tmp", "final", "dir"}
            /\ answer' \in {"cleanup_failed", "render_failed"}
            /\ answer' = "render_failed" => gone = P!ToSet(probe.scope)
        BY <2>1, <2>6 DEF P!Report
      <3> QED BY <2>2, <2>4, <3>1
              DEF ProbeInv, SampleInv, FirstInv, P!ProbesLeaveNoTrace, P!ParmsRestored
    <2> QED BY <2>5, <2>6
  <1>6. CASE P!VerifyFile
    BY <1>6 DEF P!VerifyFile, P!history, P!Report, ProbeInv, SampleInv, FirstInv, P!ProbesLeaveNoTrace, P!ParmsRestored
  <1> QED BY <1>1, <1>2, <1>3, <1>4, <1>5, <1>6

----------------------------------------------------------------------------
(* Executor.  What preflight has found out about the scene the transaction *)
(* began with stays true of it, and no step changes the path, the id or    *)
(* the owner of a node that was there: so a reference to such a node is    *)
(* resolved to the same node from the first write to the last inverse, and *)
(* a reference to a created node to none of the old ones (StaysResolved).  *)
(* That is why the journal, which keeps references and not nodes, is a way *)
(* back (WayBack).                                                         *)

Targets == ChangedTargets(req.cs.ops)
Ids == CreatedIds(req.cs.ops)

\* The node is of the change, nobody has locked it, and the workspace owns it
MayWrite(o) ==
    /\ ~before[o].locked
    /\ \E r \in req.cs.affected : r.path = before[o].path
    /\ req.cs.mode = "OwnedWorkspace" =>
          before[o].ws = req.ws.id /\ before[o].id \in {n.id : n \in req.ws.nodes}
Checked ==
    /\ None \notin Ids
    /\ \A t \in Targets : t.id \in Ids => Mirrors(before, t.id) = {} /\ At(before, t.path) = {}
    /\ \A t \in Targets : t.id \notin Ids => \E o \in Live(before) :
          MayWrite(o) /\ (IF t.id = None THEN At(before, t.path) ELSE Mirrors(before, t.id)) = {o}

\* What scene s has of the nodes that were there, and of the others
SameNode(p, q) ==
    p.path = q.path /\ p.id = q.id /\ p.ws = q.ws /\ p.facts = q.facts /\ p.locked = q.locked
Kept(s) ==
    \A o \in Live(before) :
        /\ o \in Live(s) /\ SameNode(s[o], before[o])
        /\ s[o].parm # before[o].parm \/ s[o].wire # before[o].wire =>
              \E t \in Targets : o \in Resolve(before, t)
NewNodes(s) == \A o \in Live(s) \ Live(before) : s[o].id \in Ids \cup {None}

RefRow == [id : STRING \cup {None}, path : STRING, ws : STRING \cup {None}]
CreateEntry == [tag : {"create"}, obj : Obj \ Live(before), path : STRING, id : STRING, ws : STRING \cup {None}]
ParmEntry == [tag : {"parm"}, ref : Targets, old : Value]
WireEntry == [tag : {"wire"}, ref : Targets, old : RefRow \cup {None}]
Entry == CreateEntry \cup ParmEntry \cup WireEntry

\* The entries of journal j for a slot of node o; the first of them has the value v
Entries(j, tag, o) == {i \in DOMAIN j : j[i].tag = tag /\ o \in Resolve(before, j[i].ref)}
FirstIs(j, tag, o, v) ==
    \A i \in Entries(j, tag, o) : (\A k \in Entries(j, tag, o) : i <= k) => j[i].old = v
Slots(s, j, o) ==
    /\ Entries(j, "parm", o) = {} => s[o].parm = before[o].parm
    /\ Entries(j, "wire", o) = {} => s[o].wire = before[o].wire
    /\ FirstIs(j, "parm", o, before[o].parm)
    /\ FirstIs(j, "wire", o, SourceRef(before, before[o].wire))
Listed(j, o) == \E i \in DOMAIN j : j[i].tag = "create" /\ j[i].obj = o
WayBack(s, j) ==
    /\ \A o \in Live(s) \ Live(before) : Listed(j, o)
    /\ \A o \in Live(before) : Slots(s, j, o)

Undone == \A i \in DOMAIN results : results[i]
Transacting ==
    /\ SceneOK(before) /\ req \in Request /\ Checked
    /\ Kept(scene) /\ NewNodes(scene)
    /\ journal \in Seq(Entry) /\ results \in Seq(BOOLEAN)
    /\ Undone => WayBack(scene, journal)
    /\ pc = "execute" => step \in DOMAIN req.cs.ops
ExecutorInv ==
    /\ SceneOK(scene) /\ pc \in {"idle", "execute", "reconcile", "rollback"}
    /\ pc # "idle" => Transacting

\* What is found is there
LEMMA ResolvedIsLive ==
    ASSUME NEW s, SceneOK(s), NEW t, NEW o \in Resolve(s, t)
    PROVE  o \in Live(s) /\ o \in Obj /\ s[o] \in Node /\ s[o] # None
  <1>1. o \in Live(s) BY DEF Resolve, At, Mirrors
  <1>2. s \in [Obj -> Node \cup {None}] BY DEF SceneOK
  <1> QED BY <1>1, <1>2 DEF Live

\* From the first write to the last inverse a target is the node it was at the beginning
LEMMA StaysResolved ==
    ASSUME SceneOK(before), Checked, NEW s, SceneOK(s), Kept(s), NewNodes(s), NEW t \in Targets
    PROVE  /\ \A o \in Resolve(before, t) : MayWrite(o) /\ Resolve(s, t) = {o} /\ Resolve(before, t) = {o}
           /\ \A o \in Resolve(s, t) : o \in Live(before) => Resolve(before, t) = {o}
  <1>1. CASE t.id \in Ids
    <2>1. t.id # None /\ Mirrors(before, t.id) = {} /\ At(before, t.path) = {} BY <1>1 DEF Checked
    <2>2. Resolve(before, t) = {} BY <2>1 DEF Resolve
    <2>3. \A o \in Resolve(s, t) : o \notin Live(before)
      BY <2>1 DEF Resolve, Kept, SameNode, Mirrors, At
    <2> QED BY <2>2, <2>3
  <1>2. CASE t.id \notin Ids /\ t.id = None
    <2>1. PICK o \in Live(before) : MayWrite(o) /\ At(before, t.path) = {o} BY <1>2 DEF Checked
    <2>2. Resolve(before, t) = {o} /\ Resolve(s, t) = At(s, t.path) BY <1>2, <2>1 DEF Resolve
    <2>3. o \in Live(s) /\ s[o].path = t.path BY <2>1 DEF Kept, SameNode, At
    <2>4. \A q \in Live(s) : s[q].path = t.path => q = o BY <2>3 DEF SceneOK
    <2>5. At(s, t.path) = {o} BY <2>3, <2>4 DEF At
    <2> QED BY <2>1, <2>2, <2>5
  <1>3. CASE t.id \notin Ids /\ t.id # None
    <2>1. PICK o \in Live(before) : MayWrite(o) /\ Mirrors(before, t.id) = {o} BY <1>3 DEF Checked
    <2>2. Resolve(before, t) = {o} BY <1>3, <2>1 DEF Resolve
    <2>3. o \in Live(s) /\ s[o].id = t.id BY <2>1 DEF Kept, SameNode, Mirrors
    <2>4. \A q \in Live(s) : s[q].id = t.id => q = o
      <3> TAKE q \in Live(s)
      <3>1. CASE q \in Live(before) BY <2>1, <3>1 DEF Kept, SameNode, Mirrors
      <3>2. CASE q \notin Live(before) BY <1>3, <3>2 DEF NewNodes
      <3> QED BY <3>1, <3>2
    <2>5. Mirrors(s, t.id) = {o} BY <2>3, <2>4 DEF Mirrors
    <2>6. Resolve(s, t) = {o} BY <1>3, <2>5 DEF Resolve
    <2> QED BY <2>1, <2>2, <2>6
  <1> QED BY <1>1, <1>2, <1>3

\* The entries of a journal that one more is appended to
LEMMA EntriesAppend ==
    ASSUME NEW j \in Seq(Entry), NEW e \in Entry, NEW tag, NEW o
    PROVE  /\ Entries(Append(j, e), tag, o) =
                 Entries(j, tag, o) \cup (IF e.tag = tag /\ o \in Resolve(before, e.ref) THEN {Len(j) + 1} ELSE {})
           /\ Append(j, e)[Len(j) + 1] = e /\ \A i \in Entries(j, tag, o) : Append(j, e)[i] = j[i]
           /\ \A i \in Entries(j, tag, o) : i \in 1..Len(j)
           /\ Len(j) \in Nat /\ Append(j, e) \in Seq(Entry)
  <1> DEFINE l == Append(j, e)
  <1>1. /\ Len(j) \in Nat /\ DOMAIN j = 1..Len(j) /\ DOMAIN l = 1..Len(j) + 1 /\ l[Len(j) + 1] = e
        /\ \A i \in 1..Len(j) : l[i] = j[i]
        /\ l \in Seq(Entry)
    OBVIOUS
  <1> HIDE DEF l
  <1>2. \A i \in 1..Len(j) + 1 : i \in 1..Len(j) \/ i = Len(j) + 1 BY <1>1
  <1>3. \A i \in 1..Len(j) : i \in 1..Len(j) + 1 BY <1>1
  <1>4. Len(j) + 1 \in 1..Len(j) + 1 BY <1>1
  <1>5. Entries(l, tag, o) =
           Entries(j, tag, o) \cup (IF e.tag = tag /\ o \in Resolve(before, e.ref) THEN {Len(j) + 1} ELSE {})
    BY <1>1, <1>2, <1>3, <1>4 DEF Entries
  <1> QED BY <1>1, <1>5 DEF Entries, l

\* The entries of a journal without its last
LEMMA EntriesFront ==
    ASSUME NEW j \in Seq(Entry), j # <<>>, NEW tag, NEW o
    PROVE  /\ Entries(Front(j), tag, o) = Entries(j, tag, o) \ {Len(j)}
           /\ \A i \in 1..Len(j) - 1 : Front(j)[i] = j[i]
           /\ \A i \in Entries(j, tag, o) : i \in 1..Len(j)
           /\ DOMAIN j = 1..Len(j) /\ DOMAIN Front(j) = 1..Len(j) - 1
           /\ Len(j) \in Nat \ {0} /\ Front(j) \in Seq(Entry) /\ j[Len(j)] \in Entry
  <1> DEFINE l == Front(j)
  <1>1. /\ Len(j) \in Nat \ {0} /\ DOMAIN j = 1..Len(j) /\ DOMAIN l = 1..Len(j) - 1
        /\ \A i \in 1..Len(j) - 1 : l[i] = j[i]
        /\ l \in Seq(Entry) /\ j[Len(j)] \in Entry
    BY DEF Front
  <1> HIDE DEF l
  <1>5. \A n \in Nat \ {0} : /\ \A i \in 1..n : i \in 1..n - 1 \/ i = n
                             /\ \A i \in 1..n - 1 : i \in 1..n /\ i # n
    OBVIOUS
  <1>2. \A i \in 1..Len(j) : i \in 1..Len(j) - 1 \/ i = Len(j) BY <1>1, <1>5, Zenon
  <1>3. \A i \in 1..Len(j) - 1 : i \in 1..Len(j) /\ i # Len(j) BY <1>1, <1>5, Zenon
  <1>4. Entries(l, tag, o) = Entries(j, tag, o) \ {Len(j)} BY <1>1, <1>2, <1>3 DEF Entries
  <1> QED BY <1>1, <1>4 DEF Entries, l

\* An entry for a slot of node o comes on top, with what the slot held
LEMMA SlotJournaled ==
    ASSUME NEW j \in Seq(Entry), NEW e \in Entry, NEW tag, NEW o, NEW v,
           FirstIs(j, tag, o, v),
           Entries(j, tag, o) = {} /\ e.tag = tag /\ o \in Resolve(before, e.ref) => e.old = v
    PROVE  FirstIs(Append(j, e), tag, o, v)
  <1> DEFINE l == Append(j, e)
             n == Len(j) + 1
  <1>1. /\ Entries(l, tag, o) = Entries(j, tag, o) \cup (IF e.tag = tag /\ o \in Resolve(before, e.ref) THEN {n} ELSE {})
        /\ l[n] = e /\ \A i \in Entries(j, tag, o) : l[i] = j[i]
        /\ \A i \in Entries(j, tag, o) : i \in 1..Len(j)
        /\ Len(j) \in Nat
    BY EntriesAppend
  <1>2. \A i \in Entries(j, tag, o) : ~(n <= i) BY <1>1
  <1> HIDE DEF l, n
  <1> SUFFICES ASSUME NEW i \in Entries(l, tag, o), \A k \in Entries(l, tag, o) : i <= k
               PROVE  l[i].old = v
    BY DEF FirstIs, l
  <1>3. CASE i \in Entries(j, tag, o)
    <2>1. \A k \in Entries(j, tag, o) : i <= k BY <1>1
    <2> QED BY <1>1, <1>3, <2>1 DEF FirstIs
  <1>4. CASE i \notin Entries(j, tag, o)
    <2>1. i = n /\ e.tag = tag /\ o \in Resolve(before, e.ref) BY <1>1, <1>4
    <2>2. Entries(j, tag, o) = {} BY <1>1, <1>2, <2>1
    <2> QED BY <1>1, <2>1, <2>2
  <1> QED BY <1>3, <1>4

\* The last entry is taken off: the first of the others stays the first
LEMMA SlotRetracted ==
    ASSUME NEW j \in Seq(Entry), j # <<>>, NEW tag, NEW o, NEW v, FirstIs(j, tag, o, v)
    PROVE  /\ FirstIs(Front(j), tag, o, v)
           /\ Entries(Front(j), tag, o) = {} /\ Entries(j, tag, o) # {} =>
                 j[Len(j)].tag = tag /\ o \in Resolve(before, j[Len(j)].ref) /\ j[Len(j)].old = v
  <1> DEFINE l == Front(j)
             n == Len(j)
  <1>1. /\ Entries(l, tag, o) = Entries(j, tag, o) \ {n}
        /\ \A i \in 1..n - 1 : l[i] = j[i]
        /\ \A i \in Entries(j, tag, o) : i \in 1..n
        /\ n \in Nat \ {0}
    BY EntriesFront
  <1> HIDE DEF l, n
  <1>2. \A i \in Entries(l, tag, o) : i \in 1..n - 1 /\ i <= n BY <1>1
  <1>3. FirstIs(l, tag, o, v)
    <2> SUFFICES ASSUME NEW i \in Entries(l, tag, o), \A k \in Entries(l, tag, o) : i <= k
                 PROVE  l[i].old = v
      BY DEF FirstIs
    <2>1. \A k \in Entries(j, tag, o) : i <= k BY <1>1, <1>2
    <2>2. i \in Entries(j, tag, o) BY <1>1
    <2>3. j[i].old = v BY <2>1, <2>2 DEF FirstIs
    <2> QED BY <1>1, <1>2, <2>3
  <1>4. ASSUME Entries(l, tag, o) = {}, Entries(j, tag, o) # {}
        PROVE  j[n].tag = tag /\ o \in Resolve(before, j[n].ref) /\ j[n].old = v
    <2>1. Entries(j, tag, o) = {n} BY <1>1, <1>4
    <2>2. j[n].old = v
      <3>1. n <= n BY <1>1
      <3> QED BY <2>1, <3>1 DEF FirstIs
    <2>3. j[n].tag = tag /\ o \in Resolve(before, j[n].ref) BY <2>1 DEF Entries
    <2> QED BY <2>2, <2>3
  <1> QED BY <1>3, <1>4 DEF l, n

With(s, o, f, v) == [s EXCEPT ![o][f] = v]

\* A write of one slot of a target, whatever it leaves there
LEMMA SlotWritten ==
    ASSUME SceneOK(before), Checked, NEW s, SceneOK(s), Kept(s), NewNodes(s),
           NEW t \in Targets, NEW o \in Resolve(s, t), NEW f \in {"parm", "wire"}, NEW v,
           f = "parm" => v \in Value, f = "wire" => v \in Live(s) \cup {None},
           NEW r, r = With(s, o, f, v)
    PROVE  /\ SceneOK(r) /\ Kept(r) /\ NewNodes(r) /\ Live(r) = Live(s)
           /\ \A q \in Obj : q # o => r[q] = s[q]
           /\ SameNode(r[o], s[o]) /\ r[o][f] = v
           /\ f = "parm" => r[o].wire = s[o].wire
           /\ f = "wire" => r[o].parm = s[o].parm
  <1>1. o \in Live(s) /\ o \in Obj /\ s[o] \in Node BY ResolvedIsLive
  <1>2. s \in [Obj -> Node \cup {None}] BY DEF SceneOK
  <1>3. PICK n : n = [s[o] EXCEPT ![f] = v] OBVIOUS
  <1>4. r = [s EXCEPT ![o] = n] BY <1>3 DEF With
  <1>5. /\ n \in Node /\ SameNode(n, s[o]) /\ n[f] = v
        /\ f = "parm" => n.wire = s[o].wire
        /\ f = "wire" => n.parm = s[o].parm
    <2>1. CASE f = "parm"
      <3>1. n = [s[o] EXCEPT !.parm = v] /\ v \in Value BY <1>3, <2>1
      <3> QED BY <1>1, <2>1, <3>1 DEF Node, SameNode
    <2>2. CASE f = "wire"
      <3>1. v \in Obj \cup {None} BY <1>2, <2>2 DEF Live
      <3>2. n = [s[o] EXCEPT !.wire = v] BY <1>3, <2>2
      <3> QED BY <1>1, <2>2, <3>1, <3>2 DEF Node, SameNode
    <2> QED BY <2>1, <2>2
  <1>6. n # None BY <1>5, SceneAssumption
  <1>7. r \in [Obj -> Node \cup {None}] /\ r[o] = n /\ \A q \in Obj : q # o => r[q] = s[q]
    BY <1>1, <1>2, <1>4, <1>5
  <1>8. Live(r) = Live(s) BY <1>1, <1>2, <1>6, <1>7 DEF Live
  <1>9. Live(s) \subseteq Obj BY <1>2 DEF Live
  <1>10. \A q \in Live(s) : SameNode(r[q], s[q]) BY <1>5, <1>7, <1>9 DEF SameNode
  <1>11. SceneOK(r)
    <2>1. \A q, u \in Live(r) : r[q].path = r[u].path => q = u
      BY <1>8, <1>10 DEF SceneOK, SameNode
    <2>2. \A q \in Live(r) : r[q].wire # None => r[q].wire \in Live(r)
      <3> TAKE q \in Live(r)
      <3>1. CASE q # o BY <1>7, <1>8, <1>9, <3>1 DEF SceneOK
      <3>2. CASE q = o /\ f = "parm" BY <1>1, <1>5, <1>7, <1>8, <3>2 DEF SceneOK
      <3>3. CASE q = o /\ f = "wire" BY <1>5, <1>7, <1>8, <3>3
      <3> QED BY <3>1, <3>2, <3>3
    <2> QED BY <1>7, <2>1, <2>2 DEF SceneOK
  <1>12. Kept(r)
    <2> SUFFICES ASSUME NEW q \in Live(before)
                 PROVE  /\ q \in Live(r) /\ SameNode(r[q], before[q])
                        /\ r[q].parm # before[q].parm \/ r[q].wire # before[q].wire =>
                              \E k \in Targets : q \in Resolve(before, k)
      BY DEF Kept
    <2>1. q \in Live(s) /\ SameNode(s[q], before[q]) BY DEF Kept
    <2>2. q \in Live(r) /\ SameNode(r[q], before[q]) BY <1>8, <1>10, <2>1 DEF SameNode
    <2>3. CASE q = o
      <3>1. Resolve(before, t) = {o} BY <2>3, StaysResolved
      <3> QED BY <2>2, <2>3, <3>1
    <2>4. CASE q # o
      <3>1. r[q] = s[q] BY <1>7, <1>9, <2>1, <2>4
      <3> QED BY <2>2, <3>1 DEF Kept
    <2> QED BY <2>3, <2>4
  <1>13. NewNodes(r) BY <1>8, <1>10 DEF NewNodes, SameNode
  <1> QED BY <1>5, <1>7, <1>8, <1>11, <1>12, <1>13

\* A wire is read back as what the node it comes from says of itself
LEMMA SourceFacts ==
    ASSUME SceneOK(before), NEW s, SceneOK(s), Kept(s)
    PROVE  /\ \A q \in Live(s) : SourceRef(s, s[q].wire) \in RefRow \cup {None}
           /\ \A q \in Live(before) : SourceRef(s, before[q].wire) = SourceRef(before, before[q].wire)
           /\ \A u \in Live(s) : SourceRef(s, u) = Ref(s[u].id, s[u].path, s[u].ws) /\ SourceRef(s, u) # None
  <1>0. Live(s) \subseteq Obj /\ (\A u \in Live(s) : s[u] # None) /\ s \in [Obj -> Node \cup {None}]
    BY DEF SceneOK, Live
  <1>1. \A u \in Live(s) : u # None /\ s[u] \in Node BY <1>0, SceneAssumption
  <1>2. \A u \in Live(s) : Ref(s[u].id, s[u].path, s[u].ws) \in RefRow BY <1>1 DEF Ref, RefRow, Node
  <1>3. None \notin RefRow BY SceneAssumption DEF RefRow
  <1>4. \A u \in Live(s) : SourceRef(s, u) = Ref(s[u].id, s[u].path, s[u].ws) BY <1>0, <1>1 DEF SourceRef
  <1>5. \A u \in Live(s) : SourceRef(s, u) \in RefRow /\ SourceRef(s, u) # None BY <1>2, <1>3, <1>4
  <1>6. SourceRef(s, None) = None /\ SourceRef(before, None) = None BY DEF SourceRef
  <1>7. \A q \in Live(s) : SourceRef(s, s[q].wire) \in RefRow \cup {None}
    <2> TAKE q \in Live(s)
    <2>1. CASE s[q].wire = None BY <1>6, <2>1
    <2>2. CASE s[q].wire # None BY <1>5, <2>2 DEF SceneOK
    <2> QED BY <2>1, <2>2
  <1>8. \A u \in Live(before) : SourceRef(s, u) = SourceRef(before, u)
    <2> TAKE u \in Live(before)
    <2>1. u \in Live(s) /\ SameNode(s[u], before[u]) BY DEF Kept
    <2>2. before[u] # None BY DEF Live
    <2> QED BY <1>1, <1>4, <2>1, <2>2 DEF SourceRef, SameNode
  <1>9. \A q \in Live(before) : SourceRef(s, before[q].wire) = SourceRef(before, before[q].wire)
    <2> TAKE q \in Live(before)
    <2>1. CASE before[q].wire = None BY <1>6, <2>1
    <2>2. CASE before[q].wire # None BY <1>8, <2>2 DEF SceneOK
    <2> QED BY <2>1, <2>2
  <1> QED BY <1>4, <1>5, <1>7, <1>9

\* What a write leaves in the journal
LEMMA EntryOfWrite ==
    ASSUME SceneOK(before), NEW s, SceneOK(s), Kept(s),
           NEW t \in Targets, NEW o \in Resolve(s, t), NEW f \in {"parm", "wire"},
           NEW e, e = [tag |-> f, ref |-> t,
                       old |-> IF f = "parm" THEN s[o].parm ELSE SourceRef(s, s[o].wire)]
    PROVE  e \in Entry
  <1>0. o \in Live(s) /\ s[o] \in Node BY ResolvedIsLive
  <1>1. CASE f = "parm"
    <2>1. s[o].parm \in Value BY <1>0 DEF Node
    <2>2. e \in ParmEntry BY <1>1, <2>1 DEF ParmEntry
    <2> QED BY <2>2 DEF Entry
  <1>2. CASE f = "wire"
    <2>1. SourceRef(s, s[o].wire) \in RefRow \cup {None} BY <1>0, SourceFacts
    <2>2. e \in WireEntry BY <1>2, <2>1 DEF WireEntry
    <2> QED BY <2>2 DEF Entry
  <1> QED BY <1>1, <1>2

\* The journal knows the way back from a write it has noted
LEMMA WriteNoted ==
    ASSUME SceneOK(before), Checked, NEW s, SceneOK(s), Kept(s), NewNodes(s),
           NEW t \in Targets, NEW o \in Resolve(s, t), NEW f \in {"parm", "wire"}, NEW v,
           f = "parm" => v \in Value, f = "wire" => v \in Live(s) \cup {None},
           NEW r, r = With(s, o, f, v),
           NEW j \in Seq(Entry), WayBack(s, j),
           NEW e, e = [tag |-> f, ref |-> t,
                       old |-> IF f = "parm" THEN s[o].parm ELSE SourceRef(s, s[o].wire)]
    PROVE  WayBack(r, Append(j, e))
  <1>1. /\ Live(r) = Live(s) /\ \A q \in Obj : q # o => r[q] = s[q]
        /\ f = "parm" => r[o].wire = s[o].wire
        /\ f = "wire" => r[o].parm = s[o].parm
    BY SlotWritten
  <1>2. o \in Live(s) /\ o \in Obj /\ s[o] \in Node BY ResolvedIsLive
  <1>3. e.tag = f /\ e.ref = t OBVIOUS
  <1>4. e \in Entry BY EntryOfWrite
  <1>5. \A q \in Live(r) \ Live(before) : Listed(Append(j, e), q)
    <2> TAKE q \in Live(r) \ Live(before)
    <2>1. PICK i \in DOMAIN j : j[i].tag = "create" /\ j[i].obj = q BY <1>1 DEF WayBack, Listed
    <2>2. i \in DOMAIN Append(j, e) /\ Append(j, e)[i] = j[i] BY <1>4
    <2> QED BY <2>1, <2>2 DEF Listed
  <1>6. ASSUME NEW q \in Live(before) PROVE Slots(r, Append(j, e), q)
    <2>0. q \in Obj BY DEF SceneOK, Live
    <2>1. Slots(s, j, q) BY DEF WayBack
    <2>2. q \in Resolve(before, t) <=> q = o
      <3>1. \A u \in Resolve(before, t) : Resolve(s, t) = {u} BY StaysResolved
      <3>2. o \in Live(before) => Resolve(before, t) = {o} BY StaysResolved
      <3> QED BY <3>1, <3>2
    <2>3. \A tag : /\ Entries(Append(j, e), tag, q) = {} => Entries(j, tag, q) = {}
                   /\ Entries(Append(j, e), tag, q) = {} => ~(f = tag /\ q = o)
      <3> TAKE tag
      <3>1. Entries(Append(j, e), tag, q) =
               Entries(j, tag, q) \cup (IF e.tag = tag /\ q \in Resolve(before, e.ref) THEN {Len(j) + 1} ELSE {})
        BY <1>4, EntriesAppend
      <3> QED BY <1>3, <2>2, <3>1
    <2>4. Entries(Append(j, e), "parm", q) = {} => r[q].parm = before[q].parm
      <3>1. f # "parm" \/ q # o => r[q].parm = s[q].parm BY <1>1, <2>0
      <3> QED BY <2>1, <2>3, <3>1 DEF Slots
    <2>5. Entries(Append(j, e), "wire", q) = {} => r[q].wire = before[q].wire
      <3>1. f # "wire" \/ q # o => r[q].wire = s[q].wire BY <1>1, <2>0
      <3> QED BY <2>1, <2>3, <3>1 DEF Slots
    <2>6. FirstIs(Append(j, e), "parm", q, before[q].parm)
      <3>1. Entries(j, "parm", q) = {} /\ e.tag = "parm" /\ q \in Resolve(before, e.ref) => e.old = before[q].parm
        BY <1>3, <2>1, <2>2 DEF Slots
      <3> QED BY <1>4, <2>1, <3>1, SlotJournaled DEF Slots
    <2>7. FirstIs(Append(j, e), "wire", q, SourceRef(before, before[q].wire))
      <3>1. SourceRef(s, before[q].wire) = SourceRef(before, before[q].wire) BY SourceFacts
      <3>2. Entries(j, "wire", q) = {} /\ e.tag = "wire" /\ q \in Resolve(before, e.ref) =>
               e.old = SourceRef(before, before[q].wire)
        BY <1>3, <2>1, <2>2, <3>1 DEF Slots
      <3> QED BY <1>4, <2>1, <3>2, SlotJournaled DEF Slots
    <2> QED BY <2>4, <2>5, <2>6, <2>7 DEF Slots
  <1> QED BY <1>5, <1>6 DEF WayBack

\* What a step of a transaction has to show
LEMMA GoesOn ==
    ASSUME Transacting, UNCHANGED <<before, req>>, SceneOK(scene'), Kept(scene'), NewNodes(scene'),
           journal' \in Seq(Entry), results' \in Seq(BOOLEAN),
           (\A i \in DOMAIN results' : results'[i]) => WayBack(scene', journal'),
           pc' \in {"execute", "reconcile", "rollback"},
           pc' = "execute" => step' \in DOMAIN req.cs.ops
    PROVE  ExecutorInv'
  <1> USE DEF Targets, Ids
  <1>1. Kept(scene)' BY DEF Kept, SameNode, Resolve, At, Mirrors, Live
  <1>2. NewNodes(scene)' BY DEF NewNodes, Live
  <1>3. Checked' BY SMTT(30) DEF Transacting, Checked, MayWrite, At, Mirrors, Live
  <1>4. (journal \in Seq(Entry))' BY DEF Entry, CreateEntry, ParmEntry, WireEntry, RefRow, Live
  <1>5. (Undone => WayBack(scene, journal))'
    BY SMTT(30) DEF Undone, WayBack, Slots, Listed, FirstIs, Entries, Resolve, At, Mirrors, Live, SourceRef
  <1>6. SceneOK(scene)' /\ SceneOK(before)' BY DEF SceneOK, Live, Transacting
  <1>7. (req \in Request)' BY DEF Transacting
  <1> QED BY <1>1, <1>2, <1>3, <1>4, <1>5, <1>6, <1>7 DEF ExecutorInv, Transacting

\* The operations of a change are numbered from one
LEMMA OpsFacts ==
    ASSUME req \in Request, step \in DOMAIN req.cs.ops
    PROVE  /\ Op \in ToSet(req.cs.ops) /\ (Is(Op, "create") \/ Op.target \in Targets)
           /\ Is(Op, "create") => Op.id \in Ids /\ Op.id \in STRING /\ Op.path \in STRING /\ Op.ws \in STRING \cup {None}
           /\ Proceed => /\ pc' \in {"execute", "reconcile"}
                         /\ pc' = "execute" => step' \in DOMAIN req.cs.ops
  <1>1. WellFormed(req.cs.ops) BY ExecutorAssumption DEF ValidRequest, ValidChangeSet
  <1>2. Op \in ToSet(req.cs.ops) BY DEF Op, ToSet
  <1>3. Is(Op, "create") \/ Op.target \in Targets BY <1>2 DEF Targets, ChangedTargets
  <1>4. Is(Op, "create") => Op.id \in Ids BY <1>2 DEF Ids, CreatedIds, CreateOps
  <1>5. Is(Op, "create") => Op.id \in STRING /\ Op.path \in STRING /\ Op.ws \in STRING \cup {None}
    BY <1>1 DEF WellFormed, Op
  <1>6. Len(req.cs.ops) \in Nat /\ DOMAIN req.cs.ops = 1..Len(req.cs.ops) BY <1>1 DEF WellFormed
  <1>7. step # Len(req.cs.ops) => step + 1 \in DOMAIN req.cs.ops BY <1>6
  <1>8. Proceed => /\ pc' \in {"execute", "reconcile"}
                   /\ pc' = "execute" => step' \in DOMAIN req.cs.ops
    BY <1>7 DEF Proceed
  <1> QED BY <1>2, <1>3, <1>4, <1>5, <1>8

\* An operation writes one slot of its target and has it in the journal
LEMMA WriteStep ==
    ASSUME ExecutorInv, ExecuteSetParm \/ ExecuteConnect
    PROVE  ExecutorInv'
  <1> DEFINE t == Op.target
  <1>1. pc = "execute" /\ Transacting /\ SceneOK(scene) BY DEF ExecuteSetParm, ExecuteConnect, ExecutorInv
  <1>2. /\ SceneOK(before) /\ Checked /\ Kept(scene) /\ NewNodes(scene) /\ req \in Request
        /\ step \in DOMAIN req.cs.ops /\ journal \in Seq(Entry) /\ results \in Seq(BOOLEAN)
        /\ Undone => WayBack(scene, journal)
    BY <1>1 DEF Transacting
  <1>3. UNCHANGED <<before, req, results>> BY DEF ExecuteSetParm, ExecuteConnect
  <1>4. t \in Targets BY <1>2, OpsFacts DEF ExecuteSetParm, ExecuteConnect, Is
  <1>5. CASE Raise /\ UNCHANGED <<scene, journal>>
    BY <1>1, <1>2, <1>3, <1>5, GoesOn DEF Raise, Undone
  <1>6. ASSUME NEW o \in Resolve(scene, t), NEW f \in {"parm", "wire"}, NEW v,
               f = "parm" => v \in Value, f = "wire" => v \in Live(scene) \cup {None},
               scene' = With(scene, o, f, v),
               journal' = Append(journal, [tag |-> f, ref |-> t,
                              old |-> IF f = "parm" THEN scene[o].parm ELSE SourceRef(scene, scene[o].wire)]),
               Raise \/ Proceed
        PROVE  ExecutorInv'
    <2>1. PICK e : e = [tag |-> f, ref |-> t,
                        old |-> IF f = "parm" THEN scene[o].parm ELSE SourceRef(scene, scene[o].wire)]
      OBVIOUS
    <2>2. SceneOK(scene') /\ Kept(scene') /\ NewNodes(scene')
      BY <1>1, <1>2, <1>4, <1>6, SlotWritten
    <2>3. e \in Entry BY <1>1, <1>2, <1>4, <2>1, EntryOfWrite
    <2>4. Undone => WayBack(scene', Append(journal, e))
      BY <1>1, <1>2, <1>4, <1>6, <2>1, WriteNoted
    <2>5. journal' = Append(journal, e) /\ journal' \in Seq(Entry) BY <1>2, <1>6, <2>1, <2>3
    <2>6. Undone => WayBack(scene', journal') BY <2>4, <2>5
    <2>7. /\ pc' \in {"execute", "reconcile", "rollback"}
          /\ pc' = "execute" => step' \in DOMAIN req.cs.ops
      BY <1>2, <1>6, OpsFacts DEF Raise
    <2> QED BY <1>1, <1>2, <1>3, <2>2, <2>5, <2>6, <2>7, GoesOn DEF Undone
  <1>7. CASE ExecuteSetParm
    <2>1. CASE ~(Raise /\ UNCHANGED <<scene, journal>>)
      <3>1. PICK o \in Resolve(scene, t) : \E w \in HomWrite(scene, o, "parm", Value) :
               /\ journal' = Append(journal, [tag |-> "parm", ref |-> t, old |-> scene[o].parm])
               /\ scene' = w.scene
               /\ IF w.raised THEN Raise ELSE Proceed
        BY <1>7, <2>1, Zenon DEF ExecuteSetParm
      <3>2. PICK v \in Value : scene' = With(scene, o, "parm", v) /\ (Raise \/ Proceed)
        BY <3>1 DEF HomWrite, With
      <3> QED BY <1>6, <3>1, <3>2
    <2> QED BY <1>5, <2>1
  <1>8. CASE ExecuteConnect
    <2>1. CASE ~(Raise /\ UNCHANGED <<scene, journal>>)
      <3> DEFINE sources == Resolve(scene, Op.source)
      <3>1. PICK o \in Resolve(scene, t) : \E w \in HomWrite(scene, o, "wire", sources \cup {scene[o].wire, None}) :
               /\ journal' = Append(journal, [tag |-> "wire", ref |-> t, old |-> SourceRef(scene, scene[o].wire)])
               /\ scene' = w.scene
               /\ IF w.raised THEN Raise ELSE Proceed
        BY <1>8, <2>1, Zenon DEF ExecuteConnect
      <3> HIDE DEF sources
      <3>2. PICK v \in sources \cup {scene[o].wire, None} : scene' = With(scene, o, "wire", v) /\ (Raise \/ Proceed)
        <4>1. PICK w \in HomWrite(scene, o, "wire", sources \cup {scene[o].wire, None}) :
                 scene' = w.scene /\ IF w.raised THEN Raise ELSE Proceed
          BY <3>1
        <4>2. \E v \in sources \cup {scene[o].wire, None} : w.scene = With(scene, o, "wire", v)
          BY <4>1 DEF HomWrite, With
        <4> QED BY <4>1, <4>2
      <3>3. v \in Live(scene) \cup {None}
        <4>1. \A q \in sources : q \in Live(scene) BY <1>1, ResolvedIsLive DEF sources
        <4>2. scene[o].wire \in Live(scene) \cup {None} BY <1>1, ResolvedIsLive DEF SceneOK
        <4> QED BY <3>2, <4>1, <4>2
      <3> QED BY <1>6, <3>1, <3>2, <3>3
    <2> QED BY <1>5, <2>1
  <1> QED BY <1>7, <1>8

Added(s, o, n) == [s EXCEPT ![o] = n]

\* A node is put on a free path, fed by nothing or by a node that is there
LEMMA NodeAdded ==
    ASSUME NEW s, SceneOK(s), NEW o \in Free(s), NEW n \in Node, n.wire \in Live(s) \cup {None},
           At(s, n.path) = {}, NEW r, r = Added(s, o, n)
    PROVE  /\ SceneOK(r) /\ Live(r) = Live(s) \cup {o} /\ r[o] = n
           /\ \A q \in Live(s) : q # o /\ r[q] = s[q]
  <1>1. s \in [Obj -> Node \cup {None}] /\ o \in Obj /\ s[o] = None BY DEF SceneOK, Free
  <1>2. n # None BY SceneAssumption
  <1>3. /\ r \in [Obj -> Node \cup {None}] /\ r[o] = n /\ \A q \in Obj : q # o => r[q] = s[q]
    BY <1>1 DEF Added
  <1>4. Live(r) = Live(s) \cup {o} BY <1>1, <1>2, <1>3 DEF Live
  <1>5. \A q \in Live(s) : q # o /\ r[q] = s[q] BY <1>1, <1>3 DEF Live
  <1>6. \A q \in Live(s) : s[q].path # n.path BY DEF At
  <1>7. \A q, u \in Live(r) : r[q].path = r[u].path => q = u
    BY <1>3, <1>4, <1>5, <1>6 DEF SceneOK
  <1>8. \A q \in Live(r) : r[q].wire # None => r[q].wire \in Live(r)
    BY <1>3, <1>4, <1>5 DEF SceneOK
  <1> QED BY <1>3, <1>4, <1>5, <1>7, <1>8 DEF SceneOK

\* createNode: the node is in the journal before the first of its keys is set
LEMMA CreateStep ==
    ASSUME ExecutorInv, ExecuteCreate
    PROVE  ExecutorInv'
  <1>1. pc = "execute" /\ Transacting /\ SceneOK(scene) /\ Is(Op, "create") BY DEF ExecuteCreate, ExecutorInv
  <1>2. /\ SceneOK(before) /\ Checked /\ Kept(scene) /\ NewNodes(scene) /\ req \in Request
        /\ step \in DOMAIN req.cs.ops /\ journal \in Seq(Entry) /\ results \in Seq(BOOLEAN)
        /\ Undone => WayBack(scene, journal)
    BY <1>1 DEF Transacting
  <1>3. UNCHANGED <<before, req, results>> BY DEF ExecuteCreate
  <1>4. CASE Raise /\ UNCHANGED <<scene, journal>>
    BY <1>1, <1>2, <1>3, <1>4, GoesOn DEF Raise, Undone
  <1>5. CASE ~(Raise /\ UNCHANGED <<scene, journal>>)
    <2> DEFINE o == NewObj(scene)
    <2>1. PICK q \in {Op.path, StrayPath}, keys \in 0 .. 3 :
             /\ At(scene, q) = {} /\ Free(scene) # {}
             /\ scene' = [scene EXCEPT ![o] = NewNode(IF keys > 0 THEN Op.id ELSE None, q,
                                 IF keys > 1 THEN Op.ws ELSE None, IF keys > 2 THEN "ok" ELSE "unset")]
             /\ journal' = Append(journal, [tag |-> "create", obj |-> o, path |-> Op.path, id |-> Op.id, ws |-> Op.ws])
             /\ IF keys = 3 THEN Proceed ELSE Raise
      BY <1>5, Zenon DEF ExecuteCreate
    <2>2. PICK n : n = NewNode(IF keys > 0 THEN Op.id ELSE None, q,
                               IF keys > 1 THEN Op.ws ELSE None, IF keys > 2 THEN "ok" ELSE "unset")
      OBVIOUS
    <2>3. PICK e : e = [tag |-> "create", obj |-> o, path |-> Op.path, id |-> Op.id, ws |-> Op.ws]
      OBVIOUS
    <2>4. Op.id \in Ids /\ Op.id \in STRING /\ Op.path \in STRING /\ Op.ws \in STRING \cup {None}
      BY <1>1, <1>2, OpsFacts
    <2>5. n \in Node /\ n.wire = None /\ n.path = q /\ n.id \in Ids \cup {None}
      BY <2>2, <2>4, SceneAssumption DEF NewNode, Node
    <2>6. o \in Free(scene) BY <2>1 DEF NewObj
    <2>7. scene' = Added(scene, o, n) /\ journal' = Append(journal, e) BY <2>1, <2>2, <2>3 DEF Added
    <2> HIDE DEF o
    <2>8. /\ SceneOK(scene') /\ Live(scene') = Live(scene) \cup {o} /\ scene'[o] = n
          /\ \A u \in Live(scene) : u # o /\ scene'[u] = scene[u]
      <3>1. n.wire \in Live(scene) \cup {None} /\ At(scene, n.path) = {} BY <2>1, <2>5
      <3> QED BY <1>1, <2>5, <2>6, <2>7, <3>1, NodeAdded
    <2>9. o \in Obj \ Live(before) BY <1>2, <2>6, <2>8 DEF Free, Kept
    <2>10. e \in Entry BY <2>3, <2>4, <2>9 DEF Entry, CreateEntry
    <2>11. Kept(scene') BY <1>2, <2>8 DEF Kept
    <2>12. NewNodes(scene') BY <1>2, <2>5, <2>8 DEF NewNodes
    <2>13. journal' \in Seq(Entry) BY <1>2, <2>7, <2>10
    <2>14. ASSUME WayBack(scene, journal) PROVE WayBack(scene', journal')
      <3>1. \A u \in Live(scene') \ Live(before) : Listed(journal', u)
        <4> TAKE u \in Live(scene') \ Live(before)
        <4>1. CASE u = o
          <5>1. Len(journal) + 1 \in DOMAIN journal' /\ journal'[Len(journal) + 1] = e BY <1>2, <2>7, <2>10
          <5> QED BY <2>3, <4>1, <5>1 DEF Listed
        <4>2. CASE u # o
          <5>1. PICK i \in DOMAIN journal : journal[i].tag = "create" /\ journal[i].obj = u
            BY <2>8, <2>14, <4>2 DEF WayBack, Listed
          <5>2. i \in DOMAIN journal' /\ journal'[i] = journal[i] BY <1>2, <2>7, <2>10
          <5> QED BY <5>1, <5>2 DEF Listed
        <4> QED BY <4>1, <4>2
      <3>2. \A u \in Live(before) : Slots(scene', journal', u)
        <4> TAKE u \in Live(before)
        <4>1. Slots(scene, journal, u) /\ scene'[u] = scene[u] BY <1>2, <2>8, <2>14 DEF WayBack, Kept
        <4>2. e.tag # "parm" /\ e.tag # "wire" BY <2>3
        <4>3. ASSUME NEW tag \in {"parm", "wire"}
              PROVE  Entries(journal', tag, u) = Entries(journal, tag, u)
          <5>1. Entries(Append(journal, e), tag, u) =
                   Entries(journal, tag, u) \cup
                      (IF e.tag = tag /\ u \in Resolve(before, e.ref) THEN {Len(journal) + 1} ELSE {})
            BY <1>2, <2>10, EntriesAppend
          <5> QED BY <2>7, <4>2, <5>1
        <4>4. FirstIs(journal', "parm", u, before[u].parm)
          BY <1>2, <2>7, <2>10, <4>1, <4>2, SlotJournaled DEF Slots
        <4>5. FirstIs(journal', "wire", u, SourceRef(before, before[u].wire))
          BY <1>2, <2>7, <2>10, <4>1, <4>2, SlotJournaled DEF Slots
        <4> QED BY <4>1, <4>3, <4>4, <4>5 DEF Slots
      <3> QED BY <3>1, <3>2 DEF WayBack
    <2>15. /\ pc' \in {"execute", "reconcile", "rollback"}
           /\ pc' = "execute" => step' \in DOMAIN req.cs.ops
      BY <1>2, <2>1, OpsFacts DEF Raise
    <2> QED BY <1>1, <1>2, <1>3, <2>8, <2>11, <2>12, <2>13, <2>14, <2>15, GoesOn DEF Undone
  <1> QED BY <1>4, <1>5

\* A node is taken away: the inputs it fed are empty, everything else stays
LEMMA NodeDestroyed ==
    ASSUME NEW s, SceneOK(s), NEW o, NEW r, r = Destroyed(s, o)
    PROVE  /\ SceneOK(r) /\ Live(r) = Live(s) \ {o}
           /\ \A q \in Live(r) : /\ SameNode(r[q], s[q]) /\ r[q].parm = s[q].parm
                                 /\ r[q].wire = IF s[q].wire = o THEN None ELSE s[q].wire
  <1>1. s \in [Obj -> Node \cup {None}] BY DEF SceneOK
  <1>2. /\ DOMAIN r = Obj
        /\ \A q \in Obj : r[q] = IF q = o THEN None
                                 ELSE IF s[q] # None /\ s[q].wire = o THEN [s[q] EXCEPT !.wire = None] ELSE s[q]
    BY <1>1 DEF Destroyed
  <1>3. \A n \in Node : /\ [n EXCEPT !.wire = None] \in Node /\ [n EXCEPT !.wire = None].wire = None
                        /\ SameNode([n EXCEPT !.wire = None], n) /\ [n EXCEPT !.wire = None].parm = n.parm
    BY DEF Node, SameNode
  <1>4. \A n \in Node : n # None /\ SameNode(n, n) BY SceneAssumption DEF SameNode
  <1>5. \A q \in Obj : r[q] \in Node \cup {None} BY <1>1, <1>2, <1>3
  <1>6. Live(r) = Live(s) \ {o} BY <1>1, <1>2, <1>3, <1>4 DEF Live
  <1>7. \A q \in Live(r) : /\ q \in Obj /\ q # o /\ s[q] \in Node /\ s[q] # None BY <1>1, <1>6 DEF Live
  <1>8. ASSUME NEW q \in Live(r)
        PROVE  /\ SameNode(r[q], s[q]) /\ r[q].parm = s[q].parm
               /\ r[q].wire = IF s[q].wire = o THEN None ELSE s[q].wire
    <2>1. CASE s[q].wire = o
      <3>1. r[q] = [s[q] EXCEPT !.wire = None] BY <1>2, <1>7, <2>1
      <3> QED BY <1>3, <1>7, <2>1, <3>1
    <2>2. CASE s[q].wire # o
      <3>1. r[q] = s[q] BY <1>2, <1>7, <2>2
      <3> QED BY <1>4, <1>7, <2>2, <3>1
    <2> QED BY <2>1, <2>2
  <1>9. \A q, u \in Live(r) : r[q].path = r[u].path => q = u BY <1>6, <1>8 DEF SceneOK, SameNode
  <1>10. \A q \in Live(r) : r[q].wire # None => r[q].wire \in Live(r)
    <2> TAKE q \in Live(r)
    <2>1. CASE s[q].wire = o BY <1>8, <2>1
    <2>2. CASE s[q].wire # o
      <3>1. r[q].wire = s[q].wire BY <1>8, <2>2
      <3>2. q \in Live(s) BY <1>6
      <3> QED BY <1>6, <2>2, <3>1, <3>2 DEF SceneOK
    <2> QED BY <2>1, <2>2
  <1>11. r \in [Obj -> Node \cup {None}]
    <2>1. r = [q \in Obj |-> r[q]] BY <1>1, <1>2 DEF Destroyed
    <2> QED BY <1>5, <2>1
  <1> QED BY <1>6, <1>8, <1>9, <1>10, <1>11 DEF SceneOK

\* The nodes a journal lists, once its last entry is taken off
LEMMA ListedFront ==
    ASSUME NEW j \in Seq(Entry), j # <<>>, NEW o, Listed(j, o),
           j[Len(j)].tag = "create" => j[Len(j)].obj # o
    PROVE  Listed(Front(j), o)
  <1>1. PICK i \in DOMAIN j : j[i].tag = "create" /\ j[i].obj = o BY DEF Listed
  <1>2. i # Len(j) BY <1>1
  <1>3. i \in DOMAIN Front(j) /\ Front(j)[i] = j[i] BY <1>1, <1>2 DEF Front
  <1> QED BY <1>1, <1>3 DEF Listed

\* The inverse of createNode: what is destroyed was not there before
LEMMA CreateUndone ==
    ASSUME SceneOK(before), NEW s, SceneOK(s), Kept(s), NewNodes(s),
           NEW o \in Obj \ Live(before), NEW r, r = Destroyed(s, o)
    PROVE  /\ SceneOK(r) /\ Kept(r) /\ NewNodes(r)
           /\ \A j \in Seq(Entry) :
                 j # <<>> /\ j[Len(j)].tag = "create" /\ j[Len(j)].obj = o /\ WayBack(s, j) => WayBack(r, Front(j))
  <1>1. /\ SceneOK(r) /\ Live(r) = Live(s) \ {o}
        /\ \A q \in Live(r) : /\ SameNode(r[q], s[q]) /\ r[q].parm = s[q].parm
                              /\ r[q].wire = IF s[q].wire = o THEN None ELSE s[q].wire
    BY NodeDestroyed
  <1>2. o # None BY SceneAssumption
  <1>3. \A q \in Live(before) : q \in Live(r) /\ q \in Live(s) /\ SameNode(s[q], before[q]) BY <1>1 DEF Kept
  <1>4. \A q \in Live(before) : SameNode(r[q], before[q]) BY <1>1, <1>3 DEF SameNode
  <1>5. \A q \in Live(before) : before[q].wire # o BY <1>2 DEF SceneOK
  <1>6. \A q \in Live(before) : r[q].parm = s[q].parm /\ (s[q].wire = before[q].wire => r[q].wire = s[q].wire)
    BY <1>1, <1>3, <1>5
  <1>7. Kept(r)
    <2> SUFFICES ASSUME NEW q \in Live(before), r[q].parm # before[q].parm \/ r[q].wire # before[q].wire
                 PROVE  \E t \in Targets : q \in Resolve(before, t)
      BY <1>3, <1>4 DEF Kept
    <2>1. s[q].parm # before[q].parm \/ s[q].wire # before[q].wire BY <1>6
    <2> QED BY <2>1 DEF Kept
  <1>8. NewNodes(r) BY <1>1 DEF NewNodes, SameNode
  <1>9. ASSUME NEW j \in Seq(Entry), j # <<>>, j[Len(j)].tag = "create", j[Len(j)].obj = o, WayBack(s, j)
        PROVE  WayBack(r, Front(j))
    <2>1. \A u \in Live(r) \ Live(before) : Listed(Front(j), u)
      BY <1>1, <1>9, ListedFront DEF WayBack
    <2>2. ASSUME NEW u \in Live(before) PROVE Slots(r, Front(j), u)
      <3>1. Slots(s, j, u) BY <1>9 DEF WayBack
      <3>2. ASSUME NEW tag \in {"parm", "wire"}
            PROVE  Entries(Front(j), tag, u) = Entries(j, tag, u)
        <4>1. Entries(Front(j), tag, u) = Entries(j, tag, u) \ {Len(j)} BY <1>9, EntriesFront
        <4>2. Len(j) \notin Entries(j, tag, u) BY <1>9 DEF Entries
        <4> QED BY <4>1, <4>2
      <3>3. FirstIs(Front(j), "parm", u, before[u].parm) BY <1>9, <3>1, SlotRetracted DEF Slots
      <3>4. FirstIs(Front(j), "wire", u, SourceRef(before, before[u].wire)) BY <1>9, <3>1, SlotRetracted DEF Slots
      <3> QED BY <1>6, <3>1, <3>2, <3>3, <3>4 DEF Slots
    <2> QED BY <2>1, <2>2 DEF WayBack
  <1> QED BY <1>1, <1>7, <1>8, <1>9

\* A wire that is read back as before is the wire that was there
LEMMA WireIsBack ==
    ASSUME SceneOK(before), NEW s, SceneOK(s), Kept(s), NEW o \in Live(before), NEW v \in Live(s) \cup {None},
           WireEqual(SourceRef(s, v), SourceRef(before, before[o].wire))
    PROVE  v = before[o].wire
  <1> DEFINE w == before[o].wire
  <1>1. w \in Live(before) \cup {None} BY DEF SceneOK
  <1>2. Live(before) \subseteq Live(s) BY DEF Kept
  <1>3. SourceRef(before, w) = SourceRef(s, w) BY SourceFacts
  <1>4. \A u \in Live(s) : SourceRef(s, u) = Ref(s[u].id, s[u].path, s[u].ws) /\ SourceRef(s, u) # None
    BY SourceFacts
  <1>5. SourceRef(s, None) = None BY DEF SourceRef
  <1> HIDE DEF w
  <1>6. CASE w = None \/ v = None
    <2>1. SourceRef(s, v) = SourceRef(s, w) BY <1>3, <1>5, <1>6 DEF WireEqual, w
    <2> QED BY <1>1, <1>2, <1>4, <1>5, <1>6, <2>1 DEF w
  <1>7. CASE w \in Live(s) /\ v \in Live(s)
    <2>1. SourceRef(s, v) # None /\ SourceRef(s, w) # None BY <1>4, <1>7
    <2>2. SourceRef(s, v).path = SourceRef(s, w).path BY <1>3, <2>1 DEF WireEqual, w
    <2>3. \A u \in Live(s) : SourceRef(s, u).path = s[u].path BY <1>4 DEF Ref
    <2>4. s[v].path = s[w].path BY <1>7, <2>2, <2>3
    <2> QED BY <1>7, <2>4 DEF SceneOK, w
  <1> QED BY <1>1, <1>2, <1>6, <1>7

\* The inverse of a write, when what is read back is what the journal says
LEMMA WriteUndone ==
    ASSUME SceneOK(before), Checked, NEW s, SceneOK(s), Kept(s), NewNodes(s),
           NEW j \in Seq(Entry), j # <<>>, WayBack(s, j), NEW e, e = j[Len(j)],
           NEW f \in {"parm", "wire"}, e.tag = f, e.ref \in Targets, NEW o \in Resolve(s, e.ref), NEW v,
           f = "parm" => v \in Value /\ v = e.old,
           NEW r, r = With(s, o, f, v),
           f = "wire" => v \in Live(s) \cup {None} /\ WireEqual(SourceRef(r, v), e.old)
    PROVE  WayBack(r, Front(j))
  <1>1. /\ SceneOK(r) /\ Kept(r) /\ NewNodes(r) /\ Live(r) = Live(s)
        /\ \A q \in Obj : q # o => r[q] = s[q]
        /\ SameNode(r[o], s[o]) /\ r[o][f] = v
        /\ f = "parm" => r[o].wire = s[o].wire
        /\ f = "wire" => r[o].parm = s[o].parm
    BY SlotWritten
  <1>2. Live(before) \subseteq Obj BY DEF SceneOK, Live
  <1>3. \A u \in Live(r) \ Live(before) : Listed(Front(j), u)
    BY <1>1, ListedFront DEF WayBack
  <1>4. ASSUME NEW u \in Live(before) PROVE Slots(r, Front(j), u)
    <2>1. Slots(s, j, u) BY DEF WayBack
    <2>2. u \in Resolve(before, e.ref) <=> u = o BY StaysResolved
    <2>3. FirstIs(Front(j), "parm", u, before[u].parm) BY <2>1, SlotRetracted DEF Slots
    <2>4. FirstIs(Front(j), "wire", u, SourceRef(before, before[u].wire)) BY <2>1, SlotRetracted DEF Slots
    <2>5. Entries(Front(j), "parm", u) = {} /\ Entries(j, "parm", u) # {} =>
             e.tag = "parm" /\ u \in Resolve(before, e.ref) /\ e.old = before[u].parm
      BY <2>1, SlotRetracted DEF Slots
    <2>6. Entries(Front(j), "wire", u) = {} /\ Entries(j, "wire", u) # {} =>
             e.tag = "wire" /\ u \in Resolve(before, e.ref) /\ e.old = SourceRef(before, before[u].wire)
      BY <2>1, SlotRetracted DEF Slots
    <2>7. u # o \/ f # "parm" => r[u].parm = s[u].parm BY <1>1, <1>2
    <2>8. u # o \/ f # "wire" => r[u].wire = s[u].wire BY <1>1, <1>2
    <2>9. Len(j) \in DOMAIN j BY DEF Front
    <2>10. u = o => Entries(j, f, u) # {} BY <2>2, <2>9 DEF Entries
    <2>11. Entries(Front(j), "parm", u) = {} => r[u].parm = before[u].parm
      <3>1. CASE u = o /\ f = "parm" BY <1>1, <2>5, <2>10, <3>1
      <3>2. CASE ~(u = o /\ f = "parm")
        <4>1. Entries(Front(j), "parm", u) = {} => Entries(j, "parm", u) = {} BY <2>2, <2>5, <3>2
        <4> QED BY <2>1, <2>7, <3>2, <4>1 DEF Slots
      <3> QED BY <3>1, <3>2
    <2>12. Entries(Front(j), "wire", u) = {} => r[u].wire = before[u].wire
      <3>1. CASE u = o /\ f = "wire"
        <4>1. Entries(Front(j), "wire", u) = {} => WireEqual(SourceRef(r, v), SourceRef(before, before[u].wire))
          BY <2>6, <2>10, <3>1
        <4>2. v \in Live(r) \cup {None} BY <1>1, <3>1
        <4>3. Entries(Front(j), "wire", u) = {} => v = before[u].wire BY <1>1, <4>1, <4>2, WireIsBack
        <4> QED BY <1>1, <3>1, <4>3
      <3>2. CASE ~(u = o /\ f = "wire")
        <4>1. Entries(Front(j), "wire", u) = {} => Entries(j, "wire", u) = {} BY <2>2, <2>6, <3>2
        <4> QED BY <2>1, <2>8, <3>2, <4>1 DEF Slots
      <3> QED BY <3>1, <3>2
    <2> QED BY <2>3, <2>4, <2>11, <2>12 DEF Slots
  <1> QED BY <1>3, <1>4 DEF WayBack

\* One inverse, whatever the HOM makes of it: a way back is lost only with a result that says so
LEMMA RollbackStep ==
    ASSUME ExecutorInv, RollbackOne
    PROVE  ExecutorInv'
  <1> DEFINE e == journal[Len(journal)]
             allTrue(rs) == \A i \in DOMAIN rs : rs[i]
  <1>1. pc = "rollback" /\ Transacting /\ SceneOK(scene) /\ journal # <<>> BY DEF RollbackOne, ExecutorInv
  <1>2. /\ SceneOK(before) /\ Checked /\ Kept(scene) /\ NewNodes(scene)
        /\ journal \in Seq(Entry) /\ results \in Seq(BOOLEAN)
        /\ Undone => WayBack(scene, journal)
    BY <1>1 DEF Transacting
  <1>3. UNCHANGED <<before, req, pc>> /\ journal' = Front(journal) BY DEF RollbackOne
  <1>4. e \in Entry /\ journal' \in Seq(Entry) BY <1>1, <1>2, <1>3, EntriesFront
  <1>5. ASSUME NEW good \in BOOLEAN, results' = Append(results, good),
               SceneOK(scene'), Kept(scene'), NewNodes(scene'),
               good /\ WayBack(scene, journal) => WayBack(scene', Front(journal))
        PROVE  ExecutorInv'
    <2>1. results' \in Seq(BOOLEAN) BY <1>2, <1>5
    <2>2. allTrue(results') => good /\ Undone
      <3>1. /\ Len(results) \in Nat /\ DOMAIN results = 1..Len(results)
            /\ DOMAIN results' = 1..Len(results) + 1 /\ results'[Len(results) + 1] = good
            /\ \A i \in 1..Len(results) : results'[i] = results[i]
        BY <1>2, <1>5
      <3>2. Len(results) + 1 \in 1..Len(results) + 1 /\ \A i \in 1..Len(results) : i \in 1..Len(results) + 1 BY <3>1
      <3> QED BY <3>1, <3>2 DEF Undone
    <2>3. allTrue(results') => WayBack(scene', journal') BY <1>2, <1>3, <1>5, <2>2
    <2> QED BY <1>1, <1>3, <1>4, <1>5, <2>1, <2>3, GoesOn
  <1>6. CASE scene' = scene /\ results' = Append(results, FALSE) BY <1>1, <1>2, <1>5, <1>6
  <1>7. CASE e.tag = "create" /\ RollbackCreate
    <2> DEFINE o == e.obj
    <2>1. o \in Obj \ Live(before) BY <1>4, <1>7 DEF Entry, CreateEntry, ParmEntry, WireEntry
    <2>2. CASE /\ scene' = Destroyed(scene, o)
               /\ \E good \in BOOLEAN : results' = Append(results, good)
      <3>1. SceneOK(scene') /\ Kept(scene') /\ NewNodes(scene') BY <1>1, <1>2, <2>1, <2>2, CreateUndone
      <3>2. WayBack(scene, journal) => WayBack(scene', Front(journal))
        BY <1>1, <1>2, <1>7, <2>1, <2>2, CreateUndone
      <3> QED BY <1>5, <2>2, <3>1, <3>2
    <2>3. \/ scene' = scene /\ results' = Append(results, FALSE)
          \/ scene' = Destroyed(scene, o) /\ \E good \in BOOLEAN : results' = Append(results, good)
      <3>1. (At(Destroyed(scene, o), e.path) = {}) \in BOOLEAN OBVIOUS
      <3> QED BY <1>7, <3>1, Zenon DEF RollbackCreate, LastInverse
    <2> QED BY <1>6, <2>2, <2>3
  <1>8. ASSUME NEW f \in {"parm", "wire"}, e.tag = f, NEW o \in Resolve(scene, e.ref), NEW v,
               f = "parm" => v \in Value, f = "wire" => v \in Live(scene) \cup {None},
               scene' = With(scene, o, f, v), NEW good \in BOOLEAN, results' = Append(results, good),
               good => IF f = "parm" THEN v = e.old ELSE WireEqual(SourceRef(scene', v), e.old)
        PROVE  ExecutorInv'
    <2>1. e.ref \in Targets BY <1>4, <1>8 DEF Entry, CreateEntry, ParmEntry, WireEntry
    <2>2. SceneOK(scene') /\ Kept(scene') /\ NewNodes(scene')
      BY <1>1, <1>2, <1>8, <2>1, SlotWritten
    <2>3. ASSUME good, WayBack(scene, journal) PROVE WayBack(scene', Front(journal))
      <3> HIDE DEF e
      <3>1. e = journal[Len(journal)] BY DEF e
      <3>2. f = "parm" => v \in Value /\ v = e.old BY <1>8, <2>3
      <3>3. f = "wire" => v \in Live(scene) \cup {None} /\ WireEqual(SourceRef(scene', v), e.old) BY <1>8, <2>3
      <3> QED BY <1>1, <1>2, <1>8, <2>1, <2>3, <3>1, <3>2, <3>3, WriteUndone
    <2> QED BY <1>5, <1>8, <2>2, <2>3
  <1>9. ASSUME NEW f \in {"parm", "wire"}, NEW o \in Resolve(scene, e.ref), NEW v
        PROVE  With(scene, o, f, v)[o][f] = v
    <2>1. o \in Obj /\ scene[o] \in Node /\ scene \in [Obj -> Node \cup {None}] BY <1>1, <1>9, ResolvedIsLive DEF SceneOK
    <2>2. PICK n : n = [scene[o] EXCEPT ![f] = v] OBVIOUS
    <2>3. f \in DOMAIN scene[o] BY <2>1 DEF Node
    <2>4. n[f] = v BY <2>2, <2>3
    <2>5. With(scene, o, f, v) = [scene EXCEPT ![o] = n] BY <2>2 DEF With
    <2> QED BY <2>1, <2>4, <2>5
  <1>10. CASE e.tag = "parm" /\ RollbackParm
    <2>1. CASE \E o \in Resolve(scene, e.ref) : \E w \in HomWrite(scene, o, "parm", Value) :
                  /\ scene' = w.scene
                  /\ results' = Append(results, ~w.raised /\ w.scene[o].parm = e.old)
      <3>0. PICK o \in Resolve(scene, e.ref) : \E w \in HomWrite(scene, o, "parm", Value) :
               /\ scene' = w.scene
               /\ results' = Append(results, ~w.raised /\ w.scene[o].parm = e.old)
        BY <2>1
      <3>1. PICK w \in HomWrite(scene, o, "parm", Value) :
               /\ scene' = w.scene
               /\ results' = Append(results, ~w.raised /\ w.scene[o].parm = e.old)
        BY <3>0
      <3>2. PICK v \in Value : w.scene = With(scene, o, "parm", v) BY <3>1 DEF HomWrite, With
      <3>3. w.scene[o].parm = v BY <1>9, <3>2
      <3>4. PICK good \in BOOLEAN : good = (~w.raised /\ w.scene[o].parm = e.old) OBVIOUS
      <3> QED BY <1>8, <1>10, <3>1, <3>2, <3>3, <3>4
    <2>2. \/ scene' = scene /\ results' = Append(results, FALSE)
          \/ \E o \in Resolve(scene, e.ref) : \E w \in HomWrite(scene, o, "parm", Value) :
                /\ scene' = w.scene
                /\ results' = Append(results, ~w.raised /\ w.scene[o].parm = e.old)
      BY <1>10, Zenon DEF RollbackParm, LastInverse
    <2> QED BY <1>6, <2>1, <2>2
  <1>11. CASE e.tag = "wire" /\ RollbackWire
    <2> DEFINE old == IF e.old = None THEN {None} ELSE Resolve(scene, e.old)
    <2>1. CASE \E o \in Resolve(scene, e.ref) : \E w \in HomWrite(scene, o, "wire", old \cup {scene[o].wire, None}) :
                  /\ scene' = w.scene
                  /\ results' = Append(results, ~w.raised /\ WireEqual(SourceRef(w.scene, w.scene[o].wire), e.old))
      <3> HIDE DEF old
      <3>1. PICK o \in Resolve(scene, e.ref) : \E w \in HomWrite(scene, o, "wire", old \cup {scene[o].wire, None}) :
               /\ scene' = w.scene
               /\ results' = Append(results, ~w.raised /\ WireEqual(SourceRef(w.scene, w.scene[o].wire), e.old))
        BY <2>1
      <3>2. PICK w \in HomWrite(scene, o, "wire", old \cup {scene[o].wire, None}) :
               /\ scene' = w.scene
               /\ results' = Append(results, ~w.raised /\ WireEqual(SourceRef(w.scene, w.scene[o].wire), e.old))
        BY <3>1
      <3>3. PICK v \in old \cup {scene[o].wire, None} : w.scene = With(scene, o, "wire", v)
        <4>1. w \in HomWrite(scene, o, "wire", old \cup {scene[o].wire, None}) BY <3>2
        <4> QED BY ONLY <4>1 DEF HomWrite, With
      <3>4. w.scene[o].wire = v BY <1>9, <3>3
      <3>5. PICK good \in BOOLEAN : good = (~w.raised /\ WireEqual(SourceRef(w.scene, w.scene[o].wire), e.old))
        OBVIOUS
      <3>6. v \in Live(scene) \cup {None}
        <4>1. \A q \in old : q \in Live(scene) \cup {None} BY <1>1, ResolvedIsLive DEF old
        <4>2. scene[o].wire \in Live(scene) \cup {None} BY <1>1, ResolvedIsLive DEF SceneOK
        <4> QED BY <3>3, <4>1, <4>2
      <3> QED BY <1>8, <1>11, <3>2, <3>3, <3>4, <3>5, <3>6
    <2>2. \/ scene' = scene /\ results' = Append(results, FALSE)
          \/ \E o \in Resolve(scene, e.ref) : \E w \in HomWrite(scene, o, "wire", old \cup {scene[o].wire, None}) :
                /\ scene' = w.scene
                /\ results' = Append(results, ~w.raised /\ WireEqual(SourceRef(w.scene, w.scene[o].wire), e.old))
      BY <1>11, Zenon DEF RollbackWire, LastInverse
    <2> QED BY <1>6, <2>1, <2>2
  <1> QED BY <1>7, <1>10, <1>11 DEF RollbackOne, LastInverse

\* Among the operations that write a slot there is a first one
LEMMA FirstWriteExists ==
    ASSUME NEW ops, WellFormed(ops), NEW k \in DOMAIN ops, ~Is(ops[k], "create")
    PROVE  \E j \in DOMAIN ops : /\ ops[j].kind = ops[k].kind /\ Identity(ops[j].target) = Identity(ops[k].target)
                                 /\ FirstWrite(ops, j)
  <1> DEFINE T == {j \in DOMAIN ops : ops[j].kind = ops[k].kind /\ Identity(ops[j].target) = Identity(ops[k].target)}
  <1>1. T # {} /\ T \subseteq Nat BY DEF WellFormed
  <1>2. PICK j \in T : \A i \in T : j <= i
    <2> HIDE DEF T
    <2> QED BY <1>1, Least
  <1>3. \A i \in T : ~(i < j) BY <1>1, <1>2
  <1>4. FirstWrite(ops, j)
    <2> SUFFICES ASSUME NEW i \in 1 .. j - 1,
                        ops[i].kind = ops[j].kind, Identity(ops[i].target) = Identity(ops[j].target)
                 PROVE  FALSE
      BY DEF FirstWrite
    <2>1. i \in DOMAIN ops /\ i < j
      <3>1. Len(ops) \in Nat /\ DOMAIN ops = 1 .. Len(ops) /\ j \in DOMAIN ops BY DEF WellFormed
      <3> QED BY ONLY <3>1, i \in 1 .. j - 1
    <2> QED BY <1>2, <1>3, <2>1
  <1> QED BY <1>2, <1>4

\* What preflight has verified of the nodes the change writes
LEMMA Preflighted ==
    ASSUME SceneOK(scene), NEW r \in Request, Admissible(r)
    PROVE  LET cs == r.cs
               ids == CreatedIds(cs.ops)
           IN /\ None \notin ids
              /\ \A t \in ChangedTargets(cs.ops) : t.id \in ids => Mirrors(scene, t.id) = {} /\ At(scene, t.path) = {}
              /\ \A t \in ChangedTargets(cs.ops) : t.id \notin ids => \E o \in Live(scene) :
                    /\ ~scene[o].locked
                    /\ \E q \in cs.affected : q.path = scene[o].path
                    /\ cs.mode = "OwnedWorkspace" =>
                          scene[o].ws = r.ws.id /\ scene[o].id \in {n.id : n \in r.ws.nodes}
                    /\ (IF t.id = None THEN At(scene, t.path) ELSE Mirrors(scene, t.id)) = {o}
  <1> DEFINE cs == r.cs
             ops == cs.ops
             ids == CreatedIds(ops)
             locked == LockedPaths(cs)
  <1>1. /\ ValidChangeSet(cs) /\ WellFormed(ops) /\ UniqueNodeRefs(cs.affected)
        /\ r.ws # None => ValidManifest(r.ws)
    BY ExecutorAssumption DEF ValidRequest, ValidChangeSet
  <1>2. Preflight(r) /\ CoversMandatory(r) /\ Denials(cs, r.ws, locked) = {} BY DEF Admissible
  <1>3. None \notin ids
    <2>1. \A op \in CreateOps(ops) : op.id \in STRING BY <1>1 DEF CreateOps, ToSet, WellFormed
    <2> QED BY <2>1, SceneAssumption DEF CreatedIds
  <1>4. /\ ChangedTargets(ops) \subseteq cs.affected
        /\ \A t \in ChangedTargets(ops) : t.path \notin locked
        /\ cs.mode = "OwnedWorkspace" => EvaluateOwned(cs, r.ws) = {}
    <2> HIDE DEF locked
    <2> QED BY <1>2 DEF Denials
  <1>5. cs.affected \subseteq CollectedRefs(cs) BY Zenon DEF CollectedRefs
  <1>6. \A t \in ChangedTargets(ops) : IF t.id \in ids THEN CreateTargetFree(t) ELSE ExistingVerified(t, r.ws)
    BY <1>2, <1>4, <1>5 DEF Preflight
  <1>7. ASSUME NEW t \in ChangedTargets(ops), t.id \in ids
        PROVE  Mirrors(scene, t.id) = {} /\ At(scene, t.path) = {}
    BY <1>3, <1>6, <1>7 DEF CreateTargetFree, PreflightNodes
  <1>8. ASSUME NEW t \in ChangedTargets(ops), t.id \notin ids
        PROVE  \E o \in Live(scene) :
                    /\ ~scene[o].locked
                    /\ \E q \in cs.affected : q.path = scene[o].path
                    /\ cs.mode = "OwnedWorkspace" =>
                          scene[o].ws = r.ws.id /\ scene[o].id \in {n.id : n \in r.ws.nodes}
                    /\ (IF t.id = None THEN At(scene, t.path) ELSE Mirrors(scene, t.id)) = {o}
    <2> DEFINE nodes == PreflightNodes(t)
    <2>1. PICK o \in nodes : /\ Cardinality(nodes) = 1
                             /\ t.id # None =>
                                  LET expected == IF t.ws # None THEN t.ws ELSE IF r.ws # None THEN r.ws.id ELSE None
                                  IN expected # None => scene[o].ws = expected
      BY <1>6, <1>8 DEF ExistingVerified
    <2>2. nodes = IF t.id = None THEN At(scene, t.path) ELSE Mirrors(scene, t.id) BY DEF PreflightNodes
    <2>3. nodes \subseteq Live(scene) /\ Live(scene) \subseteq Obj BY <2>2 DEF At, Mirrors, SceneOK, Live
    <2>4. nodes = {o}
      <3>1. IsFiniteSet(nodes) BY <2>3, SceneAssumption, FS_Subset
      <3> HIDE DEF nodes
      <3>2. PICK u : nodes = {u} BY <2>1, <3>1, FS_Singleton
      <3> QED BY <2>1, <3>2
    <2>5. ~scene[o].locked
      <3>1. SUFFICES ASSUME scene[o].locked PROVE FALSE OBVIOUS
      <3>2. t \in {q \in CollectedRefs(cs) : \E u \in PreflightNodes(q) : scene[u].locked}
        BY <1>4, <1>5, <2>1, <3>1
      <3>3. t.path \in locked BY <3>2 DEF LockedPaths
      <3> QED BY <1>4, <3>3
    <2>6. \E q \in cs.affected : q.path = scene[o].path
      <3>1. CASE t.id = None BY <1>4, <2>1, <2>2, <3>1 DEF At
      <3>2. CASE t.id # None
        <4>1. PICK k \in DOMAIN ops : ~Is(ops[k], "create") /\ ops[k].target = t BY DEF ChangedTargets, ToSet
        <4>2. PICK j \in DOMAIN ops : /\ ops[j].kind = ops[k].kind /\ Identity(ops[j].target) = Identity(t)
                                      /\ FirstWrite(ops, j)
          BY <1>1, <4>1, FirstWriteExists
        <4>3. ~Is(ops[j], "create") BY <4>1, <4>2 DEF Is
        <4>4. ops[j].target \in cs.affected BY <1>4, <4>3 DEF ChangedTargets, ToSet
        <4>5. ops[j].target.id = t.id
          <5>1. t.id # ops[j].target.path BY <1>1, <4>1, <4>3 DEF WellFormed
          <5> QED BY <3>2, <4>2, <5>1 DEF Identity
        <4>6. ops[j].target = t BY <1>1, <1>4, <3>2, <4>4, <4>5 DEF UniqueNodeRefs
        <4>7. NodeIdentityEquals(t) \in cs.pre
          <5>1. NodeIdentityEquals(t) \in MandatoryPreconditions(ops, cs.epoch, r.ws)
            BY <1>8, <4>2, <4>3, <4>6 DEF MandatoryPreconditions
          <5> QED BY <1>2, <5>1 DEF CoversMandatory
        <4>8. ConditionHolds(NodeIdentityEquals(t), scene, r.ws) BY <1>2, <4>7 DEF Preflight
        <4>9. PICK u \in Resolve(scene, t) : IdentityHolds(scene, u, t)
          BY <4>8 DEF ConditionHolds, NodeIdentityEquals, Is
        <4>10. u = o BY <2>2, <2>4, <3>2, <4>9 DEF Resolve
        <4> QED BY <1>4, <4>9, <4>10 DEF IdentityHolds
      <3> QED BY <3>1, <3>2
    <2>7. ASSUME cs.mode = "OwnedWorkspace"
          PROVE  scene[o].ws = r.ws.id /\ scene[o].id \in {n.id : n \in r.ws.nodes}
      <3>1. t \notin CreatedRefs(ops) BY <1>8 DEF CreatedRefs, CreatedRef, CreatedIds, Ref
      <3>2. /\ r.ws # None /\ t.id # None
            /\ \E n \in OwnedFact(t, r.ws) : MatchesManifest(t, n, r.ws)
        BY <1>4, <2>7, <3>1 DEF EvaluateOwned
      <3>3. t.ws = r.ws.id /\ \E n \in r.ws.nodes : n.id = t.id BY <3>2 DEF OwnedFact, MatchesManifest
      <3>4. r.ws.id # None BY <1>1, <3>2 DEF ValidManifest
      <3>5. scene[o].ws = r.ws.id BY <2>1, <3>2, <3>3, <3>4
      <3>6. scene[o].id = t.id BY <2>1, <2>2, <3>2 DEF Mirrors
      <3> QED BY <3>3, <3>5, <3>6
    <2> QED BY <2>1, <2>2, <2>3, <2>4, <2>5, <2>6, <2>7
  <1> QED BY <1>3, <1>7, <1>8

\* A transaction begins with nothing written and nothing in the journal
LEMMA BeginStep ==
    ASSUME ExecutorInv, NEW r \in Request, BeginTransaction(r)
    PROVE  ExecutorInv'
  <1> DEFINE cs == r.cs
  <1>1. /\ SceneOK(scene) /\ Admissible(r) /\ pc' = "execute" /\ req' = r /\ before' = scene /\ scene' = scene
        /\ journal' = <<>> /\ results' = <<>> /\ step' = 1
    BY DEF BeginTransaction, ExecutorInv
  <1>2. Checked'
    <2>1. /\ None \notin CreatedIds(cs.ops)
          /\ \A t \in ChangedTargets(cs.ops) :
                t.id \in CreatedIds(cs.ops) => Mirrors(scene, t.id) = {} /\ At(scene, t.path) = {}
          /\ \A t \in ChangedTargets(cs.ops) : t.id \notin CreatedIds(cs.ops) => \E o \in Live(scene) :
                    /\ ~scene[o].locked
                    /\ \E q \in cs.affected : q.path = scene[o].path
                    /\ cs.mode = "OwnedWorkspace" =>
                          scene[o].ws = r.ws.id /\ scene[o].id \in {n.id : n \in r.ws.nodes}
                    /\ (IF t.id = None THEN At(scene, t.path) ELSE Mirrors(scene, t.id)) = {o}
      BY <1>1, Preflighted
    <2>2. /\ Ids' = CreatedIds(cs.ops) /\ Targets' = ChangedTargets(cs.ops) /\ Live(before)' = Live(scene)
          /\ \A p : At(before, p)' = At(scene, p)
          /\ \A i : Mirrors(before, i)' = Mirrors(scene, i)
      BY <1>1 DEF Ids, Targets, Live, At, Mirrors
    <2>3. \A o : MayWrite(o)' <=> /\ ~scene[o].locked
                                  /\ \E q \in cs.affected : q.path = scene[o].path
                                  /\ cs.mode = "OwnedWorkspace" =>
                                        scene[o].ws = r.ws.id /\ scene[o].id \in {n.id : n \in r.ws.nodes}
      BY <1>1, Zenon DEF MayWrite
    <2>4. \A t \in ChangedTargets(cs.ops) :
             t.id \in CreatedIds(cs.ops) => Mirrors(before, t.id)' = {} /\ At(before, t.path)' = {}
      BY <2>1, <2>2
    <2>5. \A t \in ChangedTargets(cs.ops) : t.id \notin CreatedIds(cs.ops) => \E o \in Live(scene) :
             MayWrite(o)' /\ (IF t.id = None THEN At(before, t.path)' ELSE Mirrors(before, t.id)') = {o}
      <3> TAKE t \in ChangedTargets(cs.ops)
      <3> HAVE t.id \notin CreatedIds(cs.ops)
      <3>1. PICK o \in Live(scene) :
                    /\ ~scene[o].locked
                    /\ \E q \in cs.affected : q.path = scene[o].path
                    /\ cs.mode = "OwnedWorkspace" =>
                          scene[o].ws = r.ws.id /\ scene[o].id \in {n.id : n \in r.ws.nodes}
                    /\ (IF t.id = None THEN At(scene, t.path) ELSE Mirrors(scene, t.id)) = {o}
        BY <2>1
      <3>2. MayWrite(o)' BY <2>3, <3>1
      <3>3. (IF t.id = None THEN At(before, t.path)' ELSE Mirrors(before, t.id)') = {o} BY <2>2, <3>1
      <3> QED BY <3>2, <3>3
    <2> QED BY <2>1, <2>2, <2>4, <2>5 DEF Checked
  <1>3. \A o \in Live(scene) : SameNode(scene[o], scene[o]) BY DEF SameNode
  <1>4. Kept(scene)' /\ NewNodes(scene)' BY <1>1 DEF Kept, NewNodes, SameNode, Live
  <1>5. /\ journal' \in Seq(Entry') /\ results' \in Seq(BOOLEAN) /\ DOMAIN journal' = {}
    BY <1>1
  <1>6. (Undone => WayBack(scene, journal))'
    <2>1. \A tag, o : Entries(journal, tag, o)' = {} BY <1>5 DEF Entries
    <2>2. \A o \in Live(scene) : Slots(scene, journal, o)'
      BY <1>1, <2>1 DEF Slots, FirstIs
    <2> QED BY <1>1, <2>2 DEF WayBack, Live
  <1>7. SceneOK(scene)' /\ SceneOK(before)' BY <1>1 DEF SceneOK, Live
  <1>8. 1 \in DOMAIN cs.ops
    <2>1. WellFormed(cs.ops) /\ cs.ops # <<>> BY ExecutorAssumption DEF ValidRequest, ValidChangeSet
    <2>2. Len(cs.ops) \in Nat /\ DOMAIN cs.ops = 1 .. Len(cs.ops) BY <2>1 DEF WellFormed
    <2> QED BY <2>1, <2>2
  <1>9. (pc = "execute" => step \in DOMAIN req.cs.ops)' BY <1>1, <1>8
  <1> QED BY <1>1, <1>2, <1>4, <1>5, <1>6, <1>7, <1>9 DEF ExecutorInv, Transacting

\* The artist changes a fact of a node
LEMMA FactChanged ==
    ASSUME NEW s, SceneOK(s), NEW o \in Live(s), NEW f \in {"parm", "locked", "path", "facts"}, NEW v,
           NEW n, n = [s[o] EXCEPT ![f] = v], n \in Node, f = "path" => At(s, v) = {},
           NEW r, r = Added(s, o, n)
    PROVE  SceneOK(r)
  <1>1. s \in [Obj -> Node \cup {None}] /\ o \in Obj /\ s[o] \in Node BY DEF SceneOK, Live
  <1>2. n # None /\ n.wire = s[o].wire /\ (f # "path" => n.path = s[o].path) /\ (f = "path" => n.path = v)
    BY <1>1, SceneAssumption DEF Node
  <1>3. r \in [Obj -> Node \cup {None}] /\ r[o] = n /\ \A q \in Obj : q # o => r[q] = s[q] BY <1>1 DEF Added
  <1>4. Live(r) = Live(s) /\ Live(s) \subseteq Obj BY <1>1, <1>2, <1>3 DEF Live
  <1>5. \A q, u \in Live(r) : r[q].path = r[u].path => q = u
    <2>1. CASE f = "path"
      <3>1. \A q \in Live(s) : s[q].path # v BY <2>1 DEF At
      <3> QED BY <1>2, <1>3, <1>4, <2>1, <3>1 DEF SceneOK
    <2>2. CASE f # "path"
      <3>1. \A q \in Live(s) : r[q].path = s[q].path BY <1>2, <1>3, <1>4, <2>2
      <3> QED BY <1>4, <3>1 DEF SceneOK
    <2> QED BY <2>1, <2>2
  <1>6. \A q \in Live(r) : r[q].wire # None => r[q].wire \in Live(r)
    <2>1. \A q \in Live(s) : r[q].wire = s[q].wire BY <1>2, <1>3, <1>4
    <2> QED BY <1>4, <2>1 DEF SceneOK
  <1> QED BY <1>3, <1>5, <1>6 DEF SceneOK

\* What the artist leaves is a scene
LEMMA EditedIsOK ==
    ASSUME NEW s, SceneOK(s), NEW r \in EditsOf(s)
    PROVE  SceneOK(r)
  <1>1. \A o \in Live(s) : o \in Obj /\ s[o] \in Node BY DEF SceneOK, Live
  <1>2. StrayPath \in STRING BY SceneAssumption
  <1>3. ASSUME NEW o \in Live(s)
        PROVE  /\ \A v \in Value : [s[o] EXCEPT !.parm = v] \in Node
               /\ [s[o] EXCEPT !.locked = TRUE] \in Node
               /\ [s[o] EXCEPT !.path = StrayPath] \in Node
               /\ [s[o] EXCEPT !.facts = "other"] \in Node
    BY <1>1, <1>2 DEF Node
  <1>4. CASE \E o \in Live(s) : \E v \in Value : r = [s EXCEPT ![o].parm = v]
    <2>1. PICK o \in Live(s), v \in Value : r = [s EXCEPT ![o].parm = v] BY <1>4
    <2>2. PICK n : n = [s[o] EXCEPT !["parm"] = v] OBVIOUS
    <2>3. n \in Node BY <1>3, <2>2
    <2>4. r = Added(s, o, n) BY <2>1, <2>2 DEF Added
    <2> QED BY <2>2, <2>3, <2>4, FactChanged
  <1>5. CASE \E o \in Live(s) : r = [s EXCEPT ![o].locked = TRUE]
    <2>1. PICK o \in Live(s) : r = [s EXCEPT ![o].locked = TRUE] BY <1>5
    <2>2. PICK n : n = [s[o] EXCEPT !["locked"] = TRUE] OBVIOUS
    <2>3. n \in Node BY <1>3, <2>2
    <2>4. r = Added(s, o, n) BY <2>1, <2>2 DEF Added
    <2> QED BY <2>2, <2>3, <2>4, FactChanged
  <1>6. CASE \E o \in Live(s) : At(s, StrayPath) = {} /\ r = [s EXCEPT ![o].path = StrayPath]
    <2>1. PICK o \in Live(s) : At(s, StrayPath) = {} /\ r = [s EXCEPT ![o].path = StrayPath] BY <1>6
    <2>2. PICK n : n = [s[o] EXCEPT !["path"] = StrayPath] OBVIOUS
    <2>3. n \in Node BY <1>3, <2>2
    <2>4. r = Added(s, o, n) BY <2>1, <2>2 DEF Added
    <2> QED BY <2>1, <2>2, <2>3, <2>4, FactChanged
  <1>7. CASE \E o \in Live(s) : r = [s EXCEPT ![o].facts = "other"]
    <2>1. PICK o \in Live(s) : r = [s EXCEPT ![o].facts = "other"] BY <1>7
    <2>2. PICK n : n = [s[o] EXCEPT !["facts"] = "other"] OBVIOUS
    <2>3. n \in Node BY <1>3, <2>2
    <2>4. r = Added(s, o, n) BY <2>1, <2>2 DEF Added
    <2> QED BY <2>2, <2>3, <2>4, FactChanged
  <1>8. CASE \E o \in Live(s) : r = Destroyed(s, o) BY <1>8, NodeDestroyed
  <1>9. CASE \E c \in Free(s) : \E o \in Live(s) :
                At(s, StrayPath) = {} /\ r = [s EXCEPT ![c] = [s[o] EXCEPT !.path = StrayPath]]
    <2>1. PICK c \in Free(s), o \in Live(s) :
             At(s, StrayPath) = {} /\ r = [s EXCEPT ![c] = [s[o] EXCEPT !.path = StrayPath]]
      BY <1>9
    <2>2. PICK n : n = [s[o] EXCEPT !.path = StrayPath] OBVIOUS
    <2>3. n \in Node /\ n.path = StrayPath /\ n.wire = s[o].wire
      <3>1. n \in Node BY <1>3, <2>2
      <3>2. n.path = StrayPath /\ n.wire = s[o].wire BY <1>1, <2>2 DEF Node
      <3> QED BY <3>1, <3>2
    <2>4. n.wire \in Live(s) \cup {None} BY <2>3 DEF SceneOK
    <2>5. r = Added(s, c, n) BY <2>1, <2>2 DEF Added
    <2>6. At(s, n.path) = {} BY <2>1, <2>3
    <2> QED BY <2>3, <2>4, <2>5, <2>6, NodeAdded
  <1>10. \/ \E o \in Live(s) : \E v \in Value : r = [s EXCEPT ![o].parm = v]
         \/ \E o \in Live(s) : r = [s EXCEPT ![o].locked = TRUE]
         \/ \E o \in Live(s) : At(s, StrayPath) = {} /\ r = [s EXCEPT ![o].path = StrayPath]
         \/ \E o \in Live(s) : r = [s EXCEPT ![o].facts = "other"]
         \/ \E o \in Live(s) : r = Destroyed(s, o)
         \/ \E c \in Free(s) : \E o \in Live(s) :
               At(s, StrayPath) = {} /\ r = [s EXCEPT ![c] = [s[o] EXCEPT !.path = StrayPath]]
    BY DEF EditsOf
  <1> QED BY <1>4, <1>5, <1>6, <1>7, <1>8, <1>9, <1>10

\* The steps that write nothing, and the artist's
LEMMA OtherStep ==
    ASSUME ExecutorInv,
           (\E r \in Request : ApplyWithoutWrite(r)) \/ Reconcile \/ FinishRollback \/ UserEdits
    PROVE  ExecutorInv'
  <1>1. ASSUME SceneOK(scene'), pc' = "idle" PROVE ExecutorInv'
    BY <1>1 DEF ExecutorInv, SceneOK, Live
  <1>2. CASE scene' = scene /\ pc' = "idle" BY <1>1, <1>2 DEF ExecutorInv
  <1>3. CASE pc = "reconcile" /\ pc' = "rollback" /\ scene' = scene /\ UNCHANGED call
    <2>1. Transacting BY <1>3 DEF ExecutorInv
    <2> QED BY <1>3, <2>1, GoesOn DEF ExecutorInv, Transacting, Undone, call
  <1>4. CASE UserEdits
    <2>1. pc' = "idle" /\ (scene' \in EditsOf(scene) \/ scene' = FirstScene) BY <1>4 DEF UserEdits
    <2>2. SceneOK(FirstScene) BY SceneAssumption
    <2> QED BY <1>1, <2>1, <2>2, EditedIsOK DEF ExecutorInv
  <1>5. CASE Reconcile
    <2>1. \/ scene' = scene /\ pc' = "idle"
          \/ pc = "reconcile" /\ pc' = "rollback" /\ scene' = scene /\ UNCHANGED call
      BY <1>5, Zenon DEF Reconcile
    <2> QED BY <1>2, <1>3, <2>1
  <1> QED BY <1>2, <1>4, <1>5 DEF ApplyWithoutWrite, Answer, FinishRollback

\* The oldest entry of a slot
LEMMA OldestEntry ==
    ASSUME NEW j \in Seq(Entry), NEW K, K \subseteq DOMAIN j, K # {}
    PROVE  Oldest(K) \in K /\ \A k \in K : Oldest(K) <= k
  <1>1. K \subseteq Nat /\ DOMAIN j \subseteq Nat OBVIOUS
  <1>2. \E q \in K : \A k \in K : q <= k BY <1>1, Least
  <1> QED BY <1>2, Zenon DEF Oldest

\* The way back is what the property says
LEMMA WaysBackUndo == ExecutorInv => JournalUndoes
  <1> SUFFICES ASSUME ExecutorInv, pc # "idle", Undone, NEW o \in Obj
               PROVE  IF before[o] = None
                      THEN scene[o] # None => \E i \in DOMAIN journal : journal[i].tag = "create" /\ journal[i].obj = o
                      ELSE /\ scene[o] # None
                           /\ \A f \in {"path", "id", "ws", "facts", "locked"} : scene[o][f] = before[o][f]
                           /\ before[o].parm = IF EntriesFor("parm", o) = {} THEN scene[o].parm
                                               ELSE journal[Oldest(EntriesFor("parm", o))].old
                           /\ SourceRef(before, before[o].wire) =
                                  IF EntriesFor("wire", o) = {} THEN SourceRef(scene, scene[o].wire)
                                  ELSE journal[Oldest(EntriesFor("wire", o))].old
    BY Zenon DEF JournalUndoes, Undone
  <1>1. /\ SceneOK(scene) /\ SceneOK(before) /\ Kept(scene) /\ journal \in Seq(Entry) /\ WayBack(scene, journal)
    BY DEF ExecutorInv, Transacting
  <1>2. DOMAIN scene = Obj /\ DOMAIN before = Obj BY <1>1 DEF SceneOK
  <1>3. CASE before[o] = None BY <1>1, <1>2, <1>3 DEF WayBack, Listed, Live
  <1>4. CASE before[o] # None
    <2>1. o \in Live(before) BY <1>2, <1>4 DEF Live
    <2>2. scene[o] # None /\ SameNode(scene[o], before[o]) BY <1>1, <2>1 DEF Kept, Live
    <2>3. \A f \in {"path", "id", "ws", "facts", "locked"} : scene[o][f] = before[o][f] BY <2>2 DEF SameNode
    <2>4. Slots(scene, journal, o) BY <1>1, <2>1 DEF WayBack
    <2>5. \A tag : EntriesFor(tag, o) = Entries(journal, tag, o) BY DEF EntriesFor, Entries
    <2>6. ASSUME NEW tag, NEW v, FirstIs(journal, tag, o, v), EntriesFor(tag, o) # {}
          PROVE  journal[Oldest(EntriesFor(tag, o))].old = v
      <3>1. EntriesFor(tag, o) \subseteq DOMAIN journal BY DEF EntriesFor
      <3>2. Oldest(EntriesFor(tag, o)) \in EntriesFor(tag, o) /\ \A k \in EntriesFor(tag, o) : Oldest(EntriesFor(tag, o)) <= k
        BY <1>1, <2>6, <3>1, OldestEntry
      <3> QED BY <2>5, <2>6, <3>2 DEF FirstIs
    <2>7. before[o].parm = IF EntriesFor("parm", o) = {} THEN scene[o].parm
                           ELSE journal[Oldest(EntriesFor("parm", o))].old
      BY <2>4, <2>5, <2>6 DEF Slots
    <2>8. SourceRef(scene, before[o].wire) = SourceRef(before, before[o].wire) BY <1>1, <2>1, SourceFacts
    <2>9. SourceRef(before, before[o].wire) =
             IF EntriesFor("wire", o) = {} THEN SourceRef(scene, scene[o].wire)
             ELSE journal[Oldest(EntriesFor("wire", o))].old
      BY <2>4, <2>5, <2>6, <2>8 DEF Slots
    <2> QED BY <1>4, <2>2, <2>3, <2>7, <2>9
  <1> QED BY <1>3, <1>4

\* What is written is what preflight allowed
LEMMA WrittenIsChecked == ExecutorInv => WritesStayInside
  <1> SUFFICES ASSUME ExecutorInv, pc # "idle", NEW o \in Obj, scene[o] # before[o], before[o] # None
               PROVE  MayWrite(o)
    BY DEF WritesStayInside, MayWrite
  <1>1. /\ SceneOK(scene) /\ SceneOK(before) /\ Kept(scene) /\ NewNodes(scene) /\ Checked
    BY DEF ExecutorInv, Transacting
  <1>2. scene \in [Obj -> Node \cup {None}] /\ before \in [Obj -> Node \cup {None}] BY <1>1 DEF SceneOK
  <1>3. o \in Live(before) /\ o \in Live(scene) /\ SameNode(scene[o], before[o]) BY <1>1, <1>2 DEF Kept, Live
  <1>4. scene[o] \in Node /\ before[o] \in Node BY <1>2, <1>3 DEF Live
  <1>5. scene[o].parm # before[o].parm \/ scene[o].wire # before[o].wire
    <2>1. \A n \in Node : n = [path |-> n.path, id |-> n.id, ws |-> n.ws, facts |-> n.facts,
                               locked |-> n.locked, parm |-> n.parm, wire |-> n.wire]
      BY DEF Node
    <2> QED BY <1>3, <1>4, <2>1 DEF SameNode
  <1>6. PICK t \in Targets : o \in Resolve(before, t) BY <1>1, <1>3, <1>5 DEF Kept
  <1> QED BY <1>1, <1>6, StaysResolved

\* Behaviours of the other parts leave what the executor has
LEMMA ExecutorStutters == ExecutorInv /\ UNCHANGED vars => ExecutorInv'
  <1> SUFFICES ASSUME ExecutorInv, UNCHANGED vars PROVE ExecutorInv' OBVIOUS
  <1>1. UNCHANGED <<scene, pc, req, before, journal, step, results>> BY DEF vars
  <1>2. CASE pc = "idle" BY <1>1, <1>2 DEF ExecutorInv, SceneOK, Live
  <1>3. CASE pc # "idle"
    <2>1. Transacting /\ SceneOK(scene) /\ pc \in {"execute", "reconcile", "rollback"} BY <1>3 DEF ExecutorInv
    <2> QED BY <1>1, <2>1, GoesOn DEF Transacting, Undone
  <1> QED BY <1>2, <1>3

----------------------------------------------------------------------------
(* The theorems: a step of one part leaves the variables of the others.    *)

\* Behaviours of the other parts leave the manifest and its expressions
LEMMA ManifestStutters == ManifestInv /\ UNCHANGED manifestVars => ManifestInv'
  BY DEF ManifestInv, Remembered, M!NoUndeclaredDriver, manifestVars

\* Behaviours of the other parts leave what the probes use
LEMMA ProbesStutter == ProbeInv /\ UNCHANGED probeVars => ProbeInv'
  BY DEF ProbeInv, SampleInv, Samples, FirstInv, P!ProbesLeaveNoTrace, P!ParmsRestored, probeVars

\* _validate_manifest_refs: for any batches and manifests, an asset that is committed with a
\* manifest has no expression on a parameter the manifest does not declare, although the
\* coordinator never reads the scene and batches fail half-way, are kept or are taken back.
THEOREM NoHiddenDriver == SceneSpec => []NoUndeclaredDriver
  <1>1. SceneInit => ManifestInv BY ManifestStarts DEF SceneInit
  <1>2. ManifestInv /\ [SceneNext]_sceneVars => ManifestInv'
    BY ManifestStep, ManifestStutters DEF SceneNext, sceneVars
  <1>3. ManifestInv => NoUndeclaredDriver BY DEF ManifestInv, NoUndeclaredDriver
  <1> QED BY <1>1, <1>2, <1>3, PTL DEF SceneSpec, sceneVars

\* sample_sensitivity and capture: for any parameters, values and samples, a probe leaves every
\* parameter as it found it or writes are frozen, but for the one parameter whose set raised
\* after it had set, in a probe that is answered as aborted; and the temporary nodes and files
\* are those the answer admits, whichever HOM call raised.
THEOREM ProbesAreClean == SceneSpec => []ProbesLeaveNoTrace
  <1>1. SceneInit => ProbeInv BY ProbesStart DEF SceneInit
  <1>2. ProbeInv /\ [SceneNext]_sceneVars => ProbeInv'
    BY SampleStep, CaptureStep, ProbesStutter DEF SceneNext, sceneVars, P!ProbesNext
  <1>3. ProbeInv => ProbesLeaveNoTrace BY DEF ProbeInv, ProbesLeaveNoTrace
  <1> QED BY <1>1, <1>2, <1>3, PTL DEF SceneSpec, sceneVars

\* The executor's invariant holds throughout
THEOREM ExecutorHolds == SceneSpec => []ExecutorInv
  <1>1. SceneInit => ExecutorInv
    BY SceneAssumption DEF SceneInit, Init, ExecutorInv
  <1>2. ExecutorInv /\ Next => ExecutorInv'
    BY WriteStep, CreateStep, RollbackStep, BeginStep, OtherStep DEF Next
  <1>3. ExecutorInv /\ [SceneNext]_sceneVars => ExecutorInv'
    BY <1>2, ExecutorStutters DEF SceneNext, sceneVars
  <1> QED BY <1>1, <1>3, PTL DEF SceneSpec, sceneVars

\* _execute_create, _execute_set_parm, _execute_connect, _rollback_one: for any scene and any
\* valid requests, at every step of a transaction the journal is the way back to the scene it
\* began with as long as no inverse failed, and nothing was written outside the change and
\* the workspace it owns, whatever the HOM calls did and the artist did between two calls.
THEOREM UndoableWrites == SceneSpec => []WritesAreUndoable
  <1>1. ExecutorInv => WritesAreUndoable BY WaysBackUndo, WrittenIsChecked DEF WritesAreUndoable
  <1> QED BY <1>1, ExecutorHolds, PTL

\* A transaction that does not commit says that it was undone, and the scene is the one it
\* began with, or says that it is uncertain, and no further change is accepted.
UndoneOrFrozen ==
    [][(pc = "rollback" /\ pc' = "idle") =>
          \/ said' = "RolledBack" /\ scene' = before
          \/ said' \in {"Partial", "CriticalRecovery"} /\ frozen']_vars

\* An empty journal that is a way back: nothing is left of the transaction
LEMMA NothingLeft ==
    ASSUME ExecutorInv, pc = "rollback", journal = <<>>, Undone
    PROVE  scene = before
  <1>1. /\ SceneOK(scene) /\ SceneOK(before) /\ Kept(scene) /\ WayBack(scene, <<>>)
    BY DEF ExecutorInv, Transacting
  <1>2. scene \in [Obj -> Node \cup {None}] /\ before \in [Obj -> Node \cup {None}] BY <1>1 DEF SceneOK
  <1>3. \A tag, o : Entries(<<>>, tag, o) = {} BY DEF Entries
  <1>4. \A o : ~Listed(<<>>, o) BY DEF Listed
  <1>5. ASSUME NEW o \in Obj PROVE scene[o] = before[o]
    <2>1. CASE before[o] = None BY <1>1, <1>2, <1>4, <2>1 DEF WayBack, Live
    <2>2. CASE before[o] # None
      <3>1. o \in Live(before) BY <1>2, <2>2 DEF Live
      <3>2. o \in Live(scene) /\ SameNode(scene[o], before[o]) BY <1>1, <3>1 DEF Kept
      <3>3. scene[o].parm = before[o].parm /\ scene[o].wire = before[o].wire
        BY <1>1, <1>3, <3>1 DEF WayBack, Slots
      <3>4. scene[o] \in Node /\ before[o] \in Node BY <1>2, <2>2, <3>2 DEF Live
      <3>5. \A n \in Node : n = [path |-> n.path, id |-> n.id, ws |-> n.ws, facts |-> n.facts,
                                 locked |-> n.locked, parm |-> n.parm, wire |-> n.wire]
        BY DEF Node
      <3> QED BY <3>2, <3>3, <3>4, <3>5 DEF SameNode
    <2> QED BY <2>1, <2>2
  <1> QED BY <1>2, <1>5

\* _classify_failure, _write_frozen: for any scene, any valid requests and any misbehaviour of
\* the HOM, "RolledBack" is said only of a scene that is the one the transaction began with,
\* and any other outcome of a failed transaction freezes the executor.
THEOREM FailureIsUndoneOrFrozen == SceneSpec => UndoneOrFrozen
  <1>1. ASSUME ExecutorInv, FinishRollback
        PROVE  \/ said' = "RolledBack" /\ scene' = before
               \/ said' \in {"Partial", "CriticalRecovery"} /\ frozen'
    <2>1. PICK ok \in {TRUE, FALSE} :
             /\ ok => journal = <<>>
             /\ frozen' = (frozen \/ Classify(results, ok) # "RolledBack")
             /\ said' = Classify(results, ok)
      BY <1>1, Zenon DEF FinishRollback
    <2>2. pc = "rollback" /\ scene' = scene BY <1>1 DEF FinishRollback
    <2>3. Classify(results, ok) \in {"RolledBack", "Partial", "CriticalRecovery"} BY Zenon DEF Classify
    <2>4. CASE Classify(results, ok) = "RolledBack"
      <3>1. ok /\ Undone BY <2>4 DEF Classify, Undone
      <3> QED BY <1>1, <2>1, <2>2, <2>4, <3>1, NothingLeft
    <2>5. CASE Classify(results, ok) # "RolledBack" BY <2>1, <2>3, <2>5
    <2> QED BY <2>4, <2>5
  <1>2. ASSUME ExecutorInv, [SceneNext]_sceneVars, pc = "rollback", pc' = "idle"
        PROVE  \/ said' = "RolledBack" /\ scene' = before
               \/ said' \in {"Partial", "CriticalRecovery"} /\ frozen'
    <2>1. pc' # pc BY <1>2
    <2>2. Next BY <1>2, <2>1 DEF SceneNext, sceneVars, vars
    <2>3. FinishRollback
      BY <1>2, <2>2 DEF Next, ApplyWithoutWrite, BeginTransaction, ExecuteCreate, ExecuteSetParm, ExecuteConnect,
                        Reconcile, RollbackOne, UserEdits
    <2> QED BY <1>1, <1>2, <2>3
  <1>3. ExecutorInv /\ [SceneNext]_sceneVars =>
           [(pc = "rollback" /\ pc' = "idle") =>
               \/ said' = "RolledBack" /\ scene' = before
               \/ said' \in {"Partial", "CriticalRecovery"} /\ frozen']_vars
    BY <1>2
  <1> QED BY <1>3, ExecutorHolds, PTL DEF SceneSpec, sceneVars, UndoneOrFrozen

----------------------------------------------------------------------------
(* Executor: the refinement.  What a change makes of a scene is defined    *)
(* stage by stage, as if every HOM call did what it is asked; the scene    *)
(* itself may go another way at every operation.  What ties them together: *)
(* as long as Houdini has renamed no new node, the scene and the stage     *)
(* have the same nodes, and a slot in which they differ was written by an  *)
(* operation that asked for what the stage has, and by none after it       *)
(* (Follows).  The postconditions name every new node and the last write   *)
(* of every slot, so a scene in which they hold differs in no slot.        *)

Ops == req.cs.ops
\* What preflight and the policy have found out about the change as a whole
Assured ==
    /\ MandatoryPostconditions(Ops) \subseteq req.cs.post
    /\ \A i \in Ids : Mirrors(before, i) = {}
    /\ \A t, u \in Targets : Identity(t) = Identity(u) => t = u

\* The nodes that were not there before carry the ids of the creations so far, each its own
Newcomers(s) == Live(s) \ Live(before)
Born(s, k) ==
    /\ \A o \in Newcomers(s) : \E j \in 1 .. k : Is(Ops[j], "create") /\ s[o].id = Ops[j].id
    /\ \A o, q \in Newcomers(s) : s[o].id = s[q].id => o = q
\* None of them was renamed
Placed(s) ==
    \A o \in Newcomers(s) : \A j \in DOMAIN Ops : Is(Ops[j], "create") /\ Ops[j].id = s[o].id => s[o].path = Ops[j].path

\* The slots of node o in scene s are what they are in stage f, or the last of the first k
\* operations to write them was asked for what is in f
LastUpTo(j, k) ==
    \A m \in j + 1 .. k : ~(Ops[m].kind = Ops[j].kind /\ Identity(Ops[m].target) = Identity(Ops[j].target))
ParmTold(s, f, k, o) ==
    \/ s[o].parm = f[o].parm
    \/ \E j \in 1 .. k : /\ Is(Ops[j], "set") /\ LastUpTo(j, k)
                         /\ Resolve(s, Ops[j].target) = {o} /\ f[o].parm = Ops[j].new
WireTold(s, f, k, o) ==
    \/ s[o].wire = f[o].wire
    \/ \E j \in 1 .. k : /\ Is(Ops[j], "connect") /\ LastUpTo(j, k)
                         /\ Resolve(s, Ops[j].target) = {o} /\ Resolve(s, Ops[j].source) = {f[o].wire}
Follows(s, f, k) ==
    /\ f \in [Obj -> Node \cup {None}] /\ Live(f) = Live(s)
    /\ \A o \in Live(s) : SameNode(s[o], f[o]) /\ ParmTold(s, f, k, o) /\ WireTold(s, f, k, o)
FollowsAt(k) == Born(scene, k) /\ (Placed(scene) => Follows(scene, Stages(req, before)[k], k))
Following ==
    /\ ~frozen /\ Assured
    /\ pc = "execute" => FollowsAt(step - 1)
    /\ pc = "reconcile" => FollowsAt(Len(Ops))
Receipt == [cs : {r.cs : r \in Request}, status : {"Applied", "RolledBack", "Partial", "CriticalRecovery"}]
Answered ==
    /\ receipts \in Seq(Receipt) /\ frozen \in BOOLEAN
    /\ \A i \in DOMAIN receipts : receipts[i].status \in {"Partial", "CriticalRecovery"} => frozen
RefineInv == Answered /\ (pc # "idle" => Following)

\* The stages of a change are what its operations make of the scene one after the other
LEMMA StagesUnfold ==
    ASSUME NEW r, NEW s, Len(r.cs.ops) \in Nat
    PROVE  /\ Stages(r, s)[0] = s
           /\ \A k \in 1 .. Len(r.cs.ops) : Stages(r, s)[k] = Effect(Stages(r, s)[k - 1], r.cs.ops[k])
  <1> DEFINE ops == r.cs.ops
             n == Len(ops)
             Runs(f, m) == f = [k \in 0 .. m |-> IF k = 0 THEN s ELSE Effect(f[k - 1], ops[k])]
             T == {m \in 0 .. n : ~\E f : Runs(f, m)}
  <1> HIDE DEF ops, T
  <1>1. Runs([k \in 0 .. 0 |-> s], 0) BY SMT
  <1>2. ASSUME NEW m \in Nat, NEW f, Runs(f, m) PROVE \E g : Runs(g, m + 1)
    <2> DEFINE g == [k \in 0 .. m + 1 |-> IF k = m + 1 THEN Effect(f[m], ops[m + 1]) ELSE f[k]]
    <2>1. \A k \in 0 .. m : f[k] = IF k = 0 THEN s ELSE Effect(f[k - 1], ops[k])
      BY <1>2
    <2>2. ASSUME NEW k \in 0 .. m + 1
          PROVE  g[k] = IF k = 0 THEN s ELSE Effect(g[k - 1], ops[k])
      <3>1. CASE k = m + 1
        <4>1. k # 0 /\ k - 1 = m /\ m \in 0 .. m + 1 /\ m # m + 1 BY <3>1
        <4>2. g[k - 1] = f[m] BY <4>1
        <4> QED BY <3>1, <4>1, <4>2
      <3>2. CASE k = 0 BY <2>1, <3>2
      <3>3. CASE k # m + 1 /\ k # 0
        <4>1. k \in 0 .. m /\ k - 1 \in 0 .. m + 1 /\ k - 1 # m + 1 BY <3>3
        <4>2. g[k] = f[k] /\ g[k - 1] = f[k - 1] BY <3>3, <4>1
        <4> QED BY <2>1, <3>3, <4>1, <4>2
      <3> QED BY <3>1, <3>2, <3>3
    <2>3. Runs(g, m + 1)
      <3>1. g = [k \in 0 .. m + 1 |-> g[k]] OBVIOUS
      <3> HIDE DEF g
      <3>2. [k \in 0 .. m + 1 |-> g[k]] = [k \in 0 .. m + 1 |-> IF k = 0 THEN s ELSE Effect(g[k - 1], ops[k])]
        BY <2>2
      <3> QED BY <3>1, <3>2
    <2> HIDE DEF g
    <2> QED BY <2>3
  <1> HIDE DEF Runs
  <1>3. T = {}
    <2> SUFFICES ASSUME T # {} PROVE FALSE OBVIOUS
    <2>0. n \in Nat BY DEF ops
    <2>1. T \subseteq Nat /\ T \subseteq 0 .. n BY <2>0 DEF T
    <2>2. PICK m \in T : \A k \in T : m <= k BY <2>1, Least
    <2>3. m # 0 BY <1>1, <2>2 DEF T
    <2>4. m - 1 \in Nat /\ m - 1 \in 0 .. n /\ (m - 1) + 1 = m /\ ~(m <= m - 1) BY <2>0, <2>1, <2>2, <2>3
    <2>5. m - 1 \notin T BY <2>2, <2>4
    <2>6. PICK f : Runs(f, m - 1) BY <2>4, <2>5 DEF T
    <2>7. \E g : Runs(g, m) BY <1>2, <2>4, <2>6
    <2> QED BY <2>2, <2>7 DEF T
  <1>4. n \in 0 .. n BY DEF ops
  <1>5. \E f : Runs(f, n) BY <1>3, <1>4 DEF T
  <1>6. Stages(r, s) = CHOOSE f : Runs(f, n) BY DEF Stages, Runs, ops
  <1>7. Runs(Stages(r, s), n) BY <1>5, <1>6
  <1> DEFINE f == Stages(r, s)
  <1> HIDE DEF f
  <1>8. f = [k \in 0 .. n |-> IF k = 0 THEN s ELSE Effect(f[k - 1], ops[k])] BY <1>7 DEF Runs, f
  <1>9. \A k \in 0 .. n : f[k] = IF k = 0 THEN s ELSE Effect(f[k - 1], ops[k]) BY <1>8
  <1>10. n \in Nat BY DEF ops
  <1> QED BY <1>9, <1>10 DEF f, ops

\* A reference is resolved by the paths and the ids alone
LEMMA SameResolve ==
    ASSUME NEW s, NEW f, Live(f) = Live(s), \A o \in Live(s) : SameNode(s[o], f[o]), NEW ref
    PROVE  Resolve(f, ref) = Resolve(s, ref)
  <1>1. \A p : At(f, p) = At(s, p) BY DEF At, SameNode
  <1>2. \A i : Mirrors(f, i) = Mirrors(s, i) BY DEF Mirrors, SameNode
  <1> QED BY <1>1, <1>2 DEF Resolve

\* A node that has neither its id nor its path does not change what a reference resolves to
LEMMA StillFound ==
    ASSUME NEW s, NEW r, NEW o, Live(r) = Live(s) \cup {o}, \A q \in Live(s) : q # o /\ r[q] = s[q],
           NEW ref, ref.id # None => r[o].id # ref.id, r[o].path # ref.path
    PROVE  Resolve(r, ref) = Resolve(s, ref)
  <1>1. At(r, ref.path) = At(s, ref.path) BY DEF At
  <1>2. ref.id # None => Mirrors(r, ref.id) = Mirrors(s, ref.id) BY DEF Mirrors
  <1> QED BY <1>1, <1>2 DEF Resolve

\* What is known of the operations of a valid change
LEMMA ChangeFacts ==
    ASSUME req \in Request
    PROVE  /\ Len(Ops) \in Nat /\ DOMAIN Ops = 1 .. Len(Ops)
           /\ \A j \in DOMAIN Ops : ~Is(Ops[j], "create") => Ops[j].target \in Targets
           /\ \A j \in DOMAIN Ops : Is(Ops[j], "create") => Ops[j].id \in Ids /\ Ops[j].id # None
           /\ \A j \in DOMAIN Ops : Is(Ops[j], "set") => Ops[j].new \in Value
           /\ \A j, k \in DOMAIN Ops : Is(Ops[j], "create") /\ Is(Ops[k], "create") /\ Ops[j].id = Ops[k].id => j = k
           /\ \A j, k \in DOMAIN Ops : ~Is(Ops[j], "create") /\ Is(Ops[k], "create") /\ j < k =>
                 Ops[j].target.id # Ops[k].id /\ Ops[j].target.path # Ops[k].path
           /\ \A j, k \in DOMAIN Ops : Is(Ops[j], "connect") /\ Is(Ops[k], "create") /\ j < k =>
                 Ops[j].source.id # Ops[k].id /\ Ops[j].source.path # Ops[k].path
  <1>1. ValidChangeSet(req.cs) BY ExecutorAssumption DEF ValidRequest
  <1>2. WellFormed(Ops) BY <1>1 DEF ValidChangeSet, Ops
  <1>3. Len(Ops) \in Nat /\ DOMAIN Ops = 1 .. Len(Ops) BY <1>2 DEF WellFormed
  <1>4. \A j \in DOMAIN Ops : Ops[j] \in ToSet(req.cs.ops) BY DEF ToSet, Ops
  <1>5. \A j \in DOMAIN Ops : ~Is(Ops[j], "create") => Ops[j].target \in Targets BY <1>4 DEF Targets, ChangedTargets
  <1>6. \A j \in DOMAIN Ops : Is(Ops[j], "create") => Ops[j].id \in Ids BY <1>4 DEF Ids, CreatedIds, CreateOps
  <1>7. \A j \in DOMAIN Ops : Is(Ops[j], "create") => Ops[j].id # None
    BY <1>2, SceneAssumption DEF WellFormed
  <1>8. \A j \in DOMAIN Ops : Is(Ops[j], "set") => Ops[j].new \in Value BY <1>4, ExecutorAssumption
  <1>9. \A j, k \in DOMAIN Ops : Is(Ops[j], "create") /\ Is(Ops[k], "create") /\ Ops[j].id = Ops[k].id => j = k
    BY <1>1 DEF ValidChangeSet, UniqueCreates, Ops
  <1>10. \A j \in DOMAIN Ops : \A t \in OpRefs(Ops[j]) : CheckCreatedRef(t, j, Ops) BY <1>1 DEF ValidChangeSet, Ops
  <1>11. ASSUME NEW j \in DOMAIN Ops, NEW k \in DOMAIN Ops, NEW t, CheckCreatedRef(t, j, Ops), Is(Ops[k], "create"), j < k
         PROVE  t.id # Ops[k].id /\ t.path # Ops[k].path
    <2>1. ~(k < j) BY <1>3, <1>11
    <2>2. ~((t.id # None /\ t.id = Ops[k].id) \/ t.path = Ops[k].path) BY <1>11, <2>1 DEF CheckCreatedRef
    <2> QED BY <1>7, <1>11, <2>2
  <1>12. \A j \in DOMAIN Ops : /\ ~Is(Ops[j], "create") => Ops[j].target \in OpRefs(Ops[j])
                               /\ Is(Ops[j], "connect") => Ops[j].source \in OpRefs(Ops[j])
    <2> SUFFICES ASSUME NEW j \in DOMAIN Ops
                 PROVE  /\ ~Is(Ops[j], "create") => Ops[j].target \in OpRefs(Ops[j])
                        /\ Is(Ops[j], "connect") => Ops[j].source \in OpRefs(Ops[j])
      OBVIOUS
    <2>1. Ops[j].kind \in {"create", "set", "connect"} BY <1>2 DEF WellFormed
    <2>2. CASE Is(Ops[j], "set")
      <3>1. OpRefs(Ops[j]) = {Ops[j].target} BY <2>2 DEF OpRefs, Is
      <3> QED BY <2>2, <3>1 DEF Is
    <2>3. CASE Is(Ops[j], "connect")
      <3>1. OpRefs(Ops[j]) = {Ops[j].target, Ops[j].source} \cup ({Ops[j].old} \ {None}) BY <2>3 DEF OpRefs, Is
      <3> QED BY <3>1
    <2> QED BY <2>1, <2>2, <2>3 DEF Is
  <1>13. \A j, k \in DOMAIN Ops : ~Is(Ops[j], "create") /\ Is(Ops[k], "create") /\ j < k =>
                 Ops[j].target.id # Ops[k].id /\ Ops[j].target.path # Ops[k].path
    BY <1>10, <1>11, <1>12
  <1>14. \A j, k \in DOMAIN Ops : Is(Ops[j], "connect") /\ Is(Ops[k], "create") /\ j < k =>
                 Ops[j].source.id # Ops[k].id /\ Ops[j].source.path # Ops[k].path
    BY <1>10, <1>11, <1>12
  <1> QED BY <1>3, <1>5, <1>6, <1>7, <1>8, <1>9, <1>13, <1>14

\* What one more operation leaves of the last writes so far
LEMMA LastGoesOn ==
    ASSUME req \in Request, NEW k \in DOMAIN Ops, NEW j \in 1 .. k - 1, LastUpTo(j, k - 1),
           ~(Ops[k].kind = Ops[j].kind /\ Identity(Ops[k].target) = Identity(Ops[j].target))
    PROVE  LastUpTo(j, k) /\ j \in 1 .. k
  <1>1. Len(Ops) \in Nat /\ DOMAIN Ops = 1 .. Len(Ops) BY ChangeFacts
  <1>2. k \in Nat /\ j \in Nat BY <1>1
  <1>3. \A m \in j + 1 .. k : m \in j + 1 .. k - 1 \/ m = k BY <1>2
  <1> QED BY <1>2, <1>3 DEF LastUpTo

\* What a write of one slot leaves of the stage it is to reach: the slot is as it should be, or
\* it is known what it should be; the other slots and nodes are as before
LEMMA FollowsWrite ==
    ASSUME req \in Request, Assured, NEW k \in DOMAIN Ops, Is(Ops[k], "set") \/ Is(Ops[k], "connect"),
           NEW s, NEW f, Follows(s, f, k - 1), SceneOK(s),
           NEW o, Resolve(s, Ops[k].target) = {o},
           Is(Ops[k], "connect") => \E u : Resolve(s, Ops[k].source) = {u},
           NEW r, Live(r) = Live(s), \A q \in Obj : q # o => r[q] = s[q],
           SameNode(r[o], s[o]),
           Is(Ops[k], "set") => r[o].wire = s[o].wire,
           Is(Ops[k], "connect") => r[o].parm = s[o].parm
    PROVE  Follows(r, Effect(f, Ops[k]), k)
  <1> DEFINE g == Effect(f, Ops[k])
             op == Ops[k]
  <1>0. /\ Len(Ops) \in Nat /\ DOMAIN Ops = 1 .. Len(Ops) /\ k \in Nat \ {0} BY ChangeFacts
  <1>1. /\ f \in [Obj -> Node \cup {None}] /\ Live(f) = Live(s)
        /\ \A q \in Live(s) : SameNode(s[q], f[q]) /\ ParmTold(s, f, k - 1, q) /\ WireTold(s, f, k - 1, q)
    BY DEF Follows
  <1>2. o \in Live(s) /\ o \in Obj /\ Live(s) \subseteq Obj BY ResolvedIsLive DEF SceneOK, Live
  <1>3. f[o] \in Node /\ f[o] # None BY <1>1, <1>2 DEF Live
  <1>4. Resolve(f, op.target) = {o} BY <1>1, SameResolve
  <1>5. \A ref : Resolve(r, ref) = Resolve(s, ref)
    <2>1. \A q \in Live(s) : SameNode(s[q], r[q]) BY <1>2 DEF SameNode
    <2> QED BY <2>1, SameResolve
  <1>6. ~Is(op, "create") /\ (Is(op, "set") <=> ~Is(op, "connect")) BY DEF Is
  <1>7. PICK w : IF Is(op, "connect") THEN Resolve(s, op.source) = {w} ELSE w = f[o].wire OBVIOUS
  <1>8. Is(op, "connect") => /\ w \in Obj /\ (CHOOSE q \in Resolve(f, op.source) : TRUE) = w
    <2> SUFFICES ASSUME Is(op, "connect") PROVE w \in Obj /\ (CHOOSE q \in Resolve(f, op.source) : TRUE) = w
      OBVIOUS
    <2>1. Resolve(s, op.source) = {w} BY <1>7
    <2>2. w \in Obj BY <2>1, ResolvedIsLive
    <2>3. Resolve(f, op.source) = {w} BY <1>1, <2>1, SameResolve
    <2> QED BY <2>2, <2>3
  <1>9. PICK p : p = IF Is(op, "set") THEN op.new ELSE f[o].parm OBVIOUS
  <1>10. p \in Value
    <2>1. Is(op, "set") => op.new \in Value BY ChangeFacts
    <2> QED BY <1>3, <1>9, <2>1 DEF Node
  <1>11. PICK n : n = IF Is(op, "set") THEN [f[o] EXCEPT !.parm = op.new] ELSE [f[o] EXCEPT !.wire = w] OBVIOUS
  <1>12. n \in Node /\ n # None /\ SameNode(n, f[o]) /\ n.parm = p /\ (Is(op, "connect") => n.wire = w) /\ (Is(op, "set") => n.wire = f[o].wire)
    <2>1. CASE Is(op, "set")
      <3>1. n = [f[o] EXCEPT !.parm = p] BY <1>9, <1>11, <2>1
      <3>2. n \in Node /\ SameNode(n, f[o]) /\ n.parm = p /\ n.wire = f[o].wire BY <1>3, <1>10, <3>1 DEF Node, SameNode
      <3> QED BY <1>6, <2>1, <3>2, SceneAssumption
    <2>2. CASE Is(op, "connect")
      <3>1. n = [f[o] EXCEPT !.wire = w] /\ w \in Obj /\ p = f[o].parm BY <1>6, <1>8, <1>9, <1>11, <2>2
      <3>2. n \in Node /\ SameNode(n, f[o]) /\ n.parm = p /\ n.wire = w BY <1>3, <3>1 DEF Node, SameNode
      <3> QED BY <1>6, <2>2, <3>2, SceneAssumption
    <2> QED BY <2>1, <2>2
  <1>13. g = [q \in Obj |-> IF q = o THEN n ELSE f[q]]
    <2>1. g = [q \in Obj |-> IF q \notin Resolve(f, op.target) THEN f[q]
                             ELSE IF Is(op, "set") THEN [f[q] EXCEPT !.parm = op.new]
                             ELSE [f[q] EXCEPT !.wire = CHOOSE u \in Resolve(f, op.source) : TRUE]]
      BY <1>6 DEF Effect
    <2>2. ASSUME NEW q \in Obj
          PROVE  (IF q \notin Resolve(f, op.target) THEN f[q]
                             ELSE IF Is(op, "set") THEN [f[q] EXCEPT !.parm = op.new]
                             ELSE [f[q] EXCEPT !.wire = CHOOSE u \in Resolve(f, op.source) : TRUE])
                 = IF q = o THEN n ELSE f[q]
      <3>1. CASE q # o BY <1>4, <3>1
      <3>2. CASE q = o /\ Is(op, "set") BY <1>4, <1>11, <3>2
      <3>3. CASE q = o /\ ~Is(op, "set") BY <1>4, <1>6, <1>8, <1>11, <3>3
      <3> QED BY <3>1, <3>2, <3>3
    <2> HIDE DEF g
    <2> QED BY <2>1, <2>2
  <1> HIDE DEF g, op
  <1>14. /\ g \in [Obj -> Node \cup {None}] /\ g[o] = n /\ \A q \in Obj : q # o => g[q] = f[q]
    BY <1>1, <1>2, <1>12, <1>13
  <1>15. Live(g) = Live(r) BY <1>1, <1>2, <1>12, <1>14 DEF Live
  <1>16. ASSUME NEW q \in Live(r) PROVE SameNode(r[q], g[q])
    <2>1. CASE q = o BY <1>1, <1>2, <1>12, <1>14, <2>1 DEF SameNode
    <2>2. CASE q # o BY <1>1, <1>2, <1>14, <2>2
    <2> QED BY <2>1, <2>2
  <1>17. ASSUME NEW j \in 1 .. k - 1, NEW q, q # o, ~Is(Ops[j], "create"), Resolve(s, Ops[j].target) = {q}
         PROVE  Identity(op.target) # Identity(Ops[j].target)
    <2>1. j \in DOMAIN Ops BY <1>0
    <2>2. Ops[j].target \in Targets /\ op.target \in Targets BY <1>6, <1>17, <2>1, ChangeFacts DEF op
    <2>3. op.target # Ops[j].target BY <1>17 DEF op
    <2> QED BY <2>2, <2>3 DEF Assured
  <1>18. LastUpTo(k, k) /\ k \in 1 .. k BY <1>0 DEF LastUpTo
  <1>19. ASSUME NEW q \in Live(r) PROVE ParmTold(r, g, k, q)
    <2>0. q \in Live(s) /\ q \in Obj BY <1>2
    <2>1. CASE q = o /\ Is(op, "set")
      <3>1. g[o].parm = op.new BY <1>9, <1>12, <1>14, <2>1
      <3> QED BY <1>5, <1>18, <2>1, <3>1 DEF ParmTold, op
    <2>2. CASE ~(q = o /\ Is(op, "set"))
      <3>1. r[q].parm = s[q].parm /\ g[q].parm = f[q].parm
        BY <1>6, <1>9, <1>12, <1>14, <2>0, <2>2 DEF op
      <3>2. CASE s[q].parm = f[q].parm BY <3>1, <3>2 DEF ParmTold
      <3>3. CASE s[q].parm # f[q].parm
        <4>1. PICK j \in 1 .. k - 1 : /\ Is(Ops[j], "set") /\ LastUpTo(j, k - 1)
                                      /\ Resolve(s, Ops[j].target) = {q} /\ f[q].parm = Ops[j].new
          BY <1>1, <2>0, <3>3 DEF ParmTold
        <4>2. ~(op.kind = Ops[j].kind /\ Identity(op.target) = Identity(Ops[j].target))
          <5>1. CASE q = o BY <2>2, <4>1, <5>1 DEF Is
          <5>2. CASE q # o BY <1>17, <4>1, <5>2 DEF Is
          <5> QED BY <5>1, <5>2
        <4>3. LastUpTo(j, k) /\ j \in 1 .. k BY <4>1, <4>2, LastGoesOn DEF op
        <4> QED BY <1>5, <3>1, <4>1, <4>3 DEF ParmTold
      <3> QED BY <3>2, <3>3
    <2> QED BY <2>1, <2>2
  <1>20. ASSUME NEW q \in Live(r) PROVE WireTold(r, g, k, q)
    <2>0. q \in Live(s) /\ q \in Obj BY <1>2
    <2>1. CASE q = o /\ Is(op, "connect")
      <3>1. Resolve(s, op.source) = {g[o].wire} BY <1>7, <1>12, <1>14, <2>1
      <3> QED BY <1>5, <1>18, <2>1, <3>1 DEF WireTold, op
    <2>2. CASE ~(q = o /\ Is(op, "connect"))
      <3>1. r[q].wire = s[q].wire /\ g[q].wire = f[q].wire
        BY <1>6, <1>12, <1>14, <2>0, <2>2 DEF op
      <3>2. CASE s[q].wire = f[q].wire BY <3>1, <3>2 DEF WireTold
      <3>3. CASE s[q].wire # f[q].wire
        <4>1. PICK j \in 1 .. k - 1 : /\ Is(Ops[j], "connect") /\ LastUpTo(j, k - 1)
                                      /\ Resolve(s, Ops[j].target) = {q} /\ Resolve(s, Ops[j].source) = {f[q].wire}
          BY <1>1, <2>0, <3>3 DEF WireTold
        <4>2. ~(op.kind = Ops[j].kind /\ Identity(op.target) = Identity(Ops[j].target))
          <5>1. CASE q = o BY <2>2, <4>1, <5>1 DEF Is
          <5>2. CASE q # o BY <1>17, <4>1, <5>2 DEF Is
          <5> QED BY <5>1, <5>2
        <4>3. LastUpTo(j, k) /\ j \in 1 .. k BY <4>1, <4>2, LastGoesOn DEF op
        <4> QED BY <1>5, <3>1, <4>1, <4>3 DEF WireTold
      <3> QED BY <3>2, <3>3
    <2> QED BY <2>1, <2>2
  <1> QED BY <1>14, <1>15, <1>16, <1>19, <1>20 DEF Follows, g, op

\* A creation that was not renamed: the same free object gets the same node
LEMMA FollowsCreate ==
    ASSUME req \in Request, NEW k \in DOMAIN Ops, Is(Ops[k], "create"),
           NEW s, NEW f, Follows(s, f, k - 1), SceneOK(s),
           NEW o, o = NewObj(s), o \in Free(s),
           NEW n \in Node, n = NewNode(Ops[k].id, Ops[k].path, Ops[k].ws, "ok"),
           NEW r, Live(r) = Live(s) \cup {o}, r[o] = n, \A q \in Live(s) : q # o /\ r[q] = s[q]
    PROVE  Follows(r, Effect(f, Ops[k]), k)
  <1> DEFINE g == Effect(f, Ops[k])
             op == Ops[k]
  <1>0. /\ Len(Ops) \in Nat /\ DOMAIN Ops = 1 .. Len(Ops) /\ k \in Nat \ {0} BY ChangeFacts
  <1>1. /\ f \in [Obj -> Node \cup {None}] /\ Live(f) = Live(s)
        /\ \A q \in Live(s) : SameNode(s[q], f[q]) /\ ParmTold(s, f, k - 1, q) /\ WireTold(s, f, k - 1, q)
    BY DEF Follows
  <1>2. s \in [Obj -> Node \cup {None}] /\ o \in Obj /\ Live(s) \subseteq Obj BY DEF SceneOK, Free, Live
  <1>3. Free(f) = Free(s) BY <1>1, <1>2 DEF Free, Live
  <1>4. NewObj(f) = o BY <1>3 DEF NewObj
  <1>5. g = [f EXCEPT ![o] = n] BY <1>4 DEF Effect
  <1> HIDE DEF g
  <1>6. g \in [Obj -> Node \cup {None}] /\ g[o] = n /\ \A q \in Obj : q # o => g[q] = f[q] BY <1>1, <1>2, <1>5
  <1>7. n # None BY SceneAssumption
  <1>8. Live(g) = Live(r) BY <1>1, <1>2, <1>6, <1>7 DEF Live
  <1>9. ASSUME NEW j \in 1 .. k - 1, NEW t,
               \/ ~Is(Ops[j], "create") /\ t = Ops[j].target
               \/ Is(Ops[j], "connect") /\ t = Ops[j].source
        PROVE  Resolve(r, t) = Resolve(s, t)
    <2>1. j \in DOMAIN Ops /\ j < k BY <1>0
    <2>2. t.id # op.id /\ t.path # op.path BY <1>9, <2>1, ChangeFacts
    <2>3. r[o].id = op.id /\ r[o].path = op.path BY DEF NewNode
    <2> QED BY <2>2, <2>3, StillFound
  <1>10. ASSUME NEW j \in 1 .. k - 1, LastUpTo(j, k - 1), ~Is(Ops[j], "create")
         PROVE  LastUpTo(j, k) /\ j \in 1 .. k
    <2>1. op.kind # Ops[j].kind BY <1>10 DEF Is
    <2> QED BY <1>10, <2>1, LastGoesOn
  <1> HIDE DEF op
  <1>11. ASSUME NEW q \in Live(r), q # o
         PROVE  /\ SameNode(r[q], g[q])
                /\ ParmTold(r, g, k, q)
                /\ WireTold(r, g, k, q)
    <2>0. q \in Live(s) /\ q \in Obj /\ r[q] = s[q] /\ g[q] = f[q] BY <1>2, <1>6, <1>11
    <2>1. SameNode(r[q], g[q]) BY <1>1, <2>0
    <2>2. ParmTold(r, g, k, q)
      <3>1. CASE s[q].parm = f[q].parm BY <2>0, <3>1 DEF ParmTold
      <3>2. CASE s[q].parm # f[q].parm
        <4>1. PICK j \in 1 .. k - 1 : /\ Is(Ops[j], "set") /\ LastUpTo(j, k - 1)
                                      /\ Resolve(s, Ops[j].target) = {q} /\ f[q].parm = Ops[j].new
          BY <1>1, <2>0, <3>2 DEF ParmTold
        <4>2. ~Is(Ops[j], "create") BY <4>1 DEF Is
        <4>3. LastUpTo(j, k) /\ j \in 1 .. k BY <1>10, <4>1, <4>2
        <4>4. Resolve(r, Ops[j].target) = {q} BY <1>9, <4>1, <4>2
        <4> QED BY <2>0, <4>1, <4>3, <4>4 DEF ParmTold
      <3> QED BY <3>1, <3>2
    <2>3. WireTold(r, g, k, q)
      <3>1. CASE s[q].wire = f[q].wire BY <2>0, <3>1 DEF WireTold
      <3>2. CASE s[q].wire # f[q].wire
        <4>1. PICK j \in 1 .. k - 1 : /\ Is(Ops[j], "connect") /\ LastUpTo(j, k - 1)
                                      /\ Resolve(s, Ops[j].target) = {q} /\ Resolve(s, Ops[j].source) = {f[q].wire}
          BY <1>1, <2>0, <3>2 DEF WireTold
        <4>2. ~Is(Ops[j], "create") BY <4>1 DEF Is
        <4>3. LastUpTo(j, k) /\ j \in 1 .. k BY <1>10, <4>1, <4>2
        <4>4. Resolve(r, Ops[j].target) = {q} BY <1>9, <4>1, <4>2
        <4>5. Resolve(r, Ops[j].source) = {f[q].wire} BY <1>9, <4>1
        <4> QED BY <2>0, <4>1, <4>3, <4>4, <4>5 DEF WireTold
      <3> QED BY <3>1, <3>2
    <2> QED BY <2>1, <2>2, <2>3
  <1>12. SameNode(r[o], g[o]) /\ ParmTold(r, g, k, o) /\ WireTold(r, g, k, o)
    BY <1>6 DEF SameNode, ParmTold, WireTold
  <1> QED BY <1>6, <1>8, <1>11, <1>12 DEF Follows, g, op

\* What a step of the execution has to show
LEMMA FollowsOn ==
    ASSUME RefineInv, pc = "execute", req \in Request, UNCHANGED <<before, req, frozen, receipts>>,
           step \in DOMAIN Ops,
           Raise \/ (/\ Proceed /\ Born(scene', step)
                     /\ Placed(scene') => Follows(scene', Stages(req, before)[step], step))
    PROVE  RefineInv'
  <1>1. Answered /\ Following BY DEF RefineInv
  <1>2. Answered' BY <1>1 DEF Answered
  <1>3. Assured' /\ ~frozen' BY <1>1 DEF Following, Assured, Ids, Targets, Ops, Mirrors, Live
  <1>4. CASE Raise BY <1>2, <1>3, <1>4 DEF Raise, RefineInv, Following
  <1>5. CASE /\ Proceed /\ Born(scene', step)
             /\ Placed(scene') => Follows(scene', Stages(req, before)[step], step)
    <2>1. Ops' = Ops /\ before' = before /\ req' = req BY DEF Ops
    <2>3. \A k : Born(scene', k) <=> Born(scene, k)' BY <2>1 DEF Born, Newcomers, Live
    <2>4. Placed(scene)' <=> Placed(scene') BY <2>1 DEF Placed, Newcomers, Live
    <2>5. \A f, k : Follows(scene, f, k)' <=> Follows(scene', f, k)
      BY <2>1 DEF Follows, ParmTold, WireTold, LastUpTo, Resolve, At, Mirrors, Live, SameNode
    <2>6. Len(Ops) \in Nat /\ DOMAIN Ops = 1 .. Len(Ops) BY ChangeFacts
    <2>7. CASE step = Len(Ops)
      <3>1. pc' = "reconcile" BY <1>5, <2>7 DEF Proceed, Ops
      <3>2. FollowsAt(Len(Ops))' BY <1>5, <2>1, <2>3, <2>4, <2>5, <2>7 DEF FollowsAt
      <3> QED BY <1>2, <1>3, <2>1, <3>1, <3>2 DEF RefineInv, Following
    <2>8. CASE step # Len(Ops)
      <3>1. pc' = "execute" /\ step' = step + 1 BY <1>5, <2>8 DEF Proceed, Ops
      <3>2. step' - 1 = step BY <2>6, <3>1
      <3>3. FollowsAt(step - 1)' BY <1>5, <2>1, <2>3, <2>4, <2>5, <3>2 DEF FollowsAt
      <3> QED BY <1>2, <1>3, <2>1, <3>1, <3>3 DEF RefineInv, Following
    <2> QED BY <2>7, <2>8
  <1> QED BY <1>4, <1>5

\* Newcomers and their places do not change with a slot
LEMMA SameNewcomers ==
    ASSUME NEW s, NEW r, Live(r) = Live(s), \A q \in Live(s) : SameNode(r[q], s[q]), NEW k, NEW j \in Nat, k = j - 1
    PROVE  /\ Born(s, k) => Born(r, j)
           /\ Placed(r) => Placed(s)
  <1>1. \A q \in Newcomers(s) : r[q].id = s[q].id /\ r[q].path = s[q].path BY DEF Newcomers, SameNode
  <1>2. Newcomers(r) = Newcomers(s) BY DEF Newcomers
  <1>3. \A m \in 1 .. j - 1 : m \in 1 .. j OBVIOUS
  <1>4. Born(s, k) => Born(r, j) BY <1>1, <1>2, <1>3 DEF Born
  <1>5. Placed(r) => Placed(s) BY <1>1, <1>2 DEF Placed
  <1> QED BY <1>4, <1>5

\* set_parm and set_input, whatever the HOM makes of them
LEMMA WriteFollows ==
    ASSUME ExecutorInv, RefineInv, ExecuteSetParm \/ ExecuteConnect
    PROVE  RefineInv'
  <1> DEFINE t == Op.target
             f == Stages(req, before)[step - 1]
  <1>1. pc = "execute" /\ Transacting /\ SceneOK(scene) BY DEF ExecuteSetParm, ExecuteConnect, ExecutorInv
  <1>2. /\ SceneOK(before) /\ Checked /\ Kept(scene) /\ NewNodes(scene) /\ req \in Request
        /\ step \in DOMAIN Ops
    BY <1>1 DEF Transacting, Ops
  <1>3. UNCHANGED <<before, req, frozen, receipts>> BY DEF ExecuteSetParm, ExecuteConnect
  <1>4. t \in Targets BY <1>2, OpsFacts DEF ExecuteSetParm, ExecuteConnect, Is, Ops
  <1>5. Op = Ops[step] BY DEF Op, Ops
  <1>6. Assured /\ FollowsAt(step - 1) BY <1>1 DEF RefineInv, Following
  <1>7. Len(Ops) \in Nat /\ DOMAIN Ops = 1 .. Len(Ops) /\ step \in Nat BY <1>2, ChangeFacts
  <1>8. Stages(req, before)[step] = Effect(f, Op)
    BY <1>2, <1>5, <1>7, StagesUnfold DEF Ops
  <1> HIDE DEF f
  <1>9. CASE Raise BY <1>1, <1>2, <1>3, <1>9, FollowsOn
  <1>10. ASSUME NEW one, IsFiniteSet(one), Cardinality(one) = 1, NEW u \in one PROVE one = {u}
    <2>1. PICK v : one = {v} BY <1>10, FS_Singleton
    <2> QED BY <1>10, <2>1
  <1>11. \A ref : IsFiniteSet(Resolve(scene, ref))
    <2> TAKE ref
    <2>1. Resolve(scene, ref) \subseteq Obj BY <1>1, ResolvedIsLive
    <2> QED BY <2>1, SceneAssumption, FS_Subset
  <1>12. ASSUME NEW o \in Resolve(scene, t), Cardinality(Resolve(scene, t)) = 1,
                NEW slot \in {"parm", "wire"}, NEW v, slot = "parm" <=> Is(Op, "set"), slot = "wire" <=> Is(Op, "connect"),
                slot = "parm" => v \in Value,
                slot = "wire" => v \in Live(scene) \cup {None} /\ Cardinality(Resolve(scene, Op.source)) = 1,
                scene' = With(scene, o, slot, v), Proceed
         PROVE  RefineInv'
    <2>1. /\ Live(scene') = Live(scene)
          /\ \A q \in Obj : q # o => scene'[q] = scene[q]
          /\ SameNode(scene'[o], scene[o])
          /\ slot = "parm" => scene'[o].wire = scene[o].wire
          /\ slot = "wire" => scene'[o].parm = scene[o].parm
      BY <1>1, <1>2, <1>4, <1>12, SlotWritten
    <2>2. Resolve(scene, t) = {o} BY <1>10, <1>11, <1>12
    <2>3. Is(Op, "connect") => \E u : Resolve(scene, Op.source) = {u}
      <3> SUFFICES ASSUME Is(Op, "connect") PROVE \E u : Resolve(scene, Op.source) = {u} OBVIOUS
      <3>1. Cardinality(Resolve(scene, Op.source)) = 1 /\ IsFiniteSet(Resolve(scene, Op.source)) BY <1>11, <1>12
      <3> QED BY <3>1, FS_Singleton
    <2>4. \A q \in Live(scene) : SameNode(scene'[q], scene[q])
      <3>1. Live(scene) \subseteq Obj BY <1>1 DEF SceneOK, Live
      <3> QED BY <2>1, <3>1 DEF SameNode
    <2>5. Born(scene', step) /\ (Placed(scene') => Placed(scene))
      BY <1>6, <1>7, <2>1, <2>4, SameNewcomers DEF FollowsAt
    <2>6. ASSUME Placed(scene') PROVE Follows(scene', Effect(f, Op), step)
      <3>1. Follows(scene, f, step - 1) BY <1>6, <2>5, <2>6 DEF FollowsAt, f
      <3>2. Is(Op, "set") \/ Is(Op, "connect") BY <1>12
      <3> QED BY <1>1, <1>2, <1>5, <1>6, <1>12, <2>1, <2>2, <2>3, <3>1, <3>2, FollowsWrite
    <2> QED BY <1>1, <1>2, <1>3, <1>8, <1>12, <2>5, <2>6, FollowsOn
  <1>13. CASE ExecuteSetParm /\ ~Raise
    <2>1. PICK o \in Resolve(scene, t) :
             /\ Cardinality(Resolve(scene, t)) = 1
             /\ \E w \in HomWrite(scene, o, "parm", Value) :
                  /\ scene' = w.scene
                  /\ IF w.raised THEN Raise ELSE Proceed
      BY <1>13, Zenon DEF ExecuteSetParm
    <2>2. PICK v \in Value : scene' = With(scene, o, "parm", v) /\ Proceed
      BY <1>13, <2>1 DEF HomWrite, With
    <2>3. Is(Op, "set") /\ ~Is(Op, "connect") BY <1>13 DEF ExecuteSetParm, Is
    <2> QED BY <1>12, <2>1, <2>2, <2>3
  <1>14. CASE ExecuteConnect /\ ~Raise
    <2> DEFINE sources == Resolve(scene, Op.source)
    <2>1. PICK o \in Resolve(scene, t) :
             /\ Cardinality(Resolve(scene, t)) = 1 /\ Cardinality(sources) = 1
             /\ \E w \in HomWrite(scene, o, "wire", sources \cup {scene[o].wire, None}) :
                  /\ scene' = w.scene
                  /\ IF w.raised THEN Raise ELSE Proceed
      BY <1>14, Zenon DEF ExecuteConnect
    <2> HIDE DEF sources
    <2>2. PICK v \in sources \cup {scene[o].wire, None} : scene' = With(scene, o, "wire", v) /\ Proceed
      <3>1. PICK w \in HomWrite(scene, o, "wire", sources \cup {scene[o].wire, None}) :
               scene' = w.scene /\ IF w.raised THEN Raise ELSE Proceed
        BY <2>1
      <3>2. \E v \in sources \cup {scene[o].wire, None} : w.scene = With(scene, o, "wire", v)
        BY <3>1 DEF HomWrite, With
      <3> QED BY <1>14, <3>1, <3>2
    <2>3. v \in Live(scene) \cup {None}
      <3>1. \A q \in sources : q \in Live(scene) BY <1>1, ResolvedIsLive DEF sources
      <3>2. scene[o].wire \in Live(scene) \cup {None} BY <1>1, ResolvedIsLive DEF SceneOK
      <3> QED BY <2>2, <3>1, <3>2
    <2>4. Is(Op, "connect") /\ ~Is(Op, "set") BY <1>14 DEF ExecuteConnect, Is
    <2> QED BY <1>12, <2>1, <2>2, <2>3, <2>4 DEF sources
  <1> QED BY <1>9, <1>13, <1>14

\* createNode, wherever Houdini puts the node
LEMMA CreateFollows ==
    ASSUME ExecutorInv, RefineInv, ExecuteCreate
    PROVE  RefineInv'
  <1> DEFINE f == Stages(req, before)[step - 1]
             o == NewObj(scene)
  <1>1. pc = "execute" /\ Transacting /\ SceneOK(scene) /\ Is(Op, "create") BY DEF ExecuteCreate, ExecutorInv
  <1>2. SceneOK(before) /\ Kept(scene) /\ req \in Request /\ step \in DOMAIN Ops
    BY <1>1 DEF Transacting, Ops
  <1>3. UNCHANGED <<before, req, frozen, receipts>> BY DEF ExecuteCreate
  <1>4. Op = Ops[step] BY DEF Op, Ops
  <1>5. Assured /\ FollowsAt(step - 1) BY <1>1 DEF RefineInv, Following
  <1>6. Len(Ops) \in Nat /\ DOMAIN Ops = 1 .. Len(Ops) /\ step \in Nat BY <1>2, ChangeFacts
  <1>7. Stages(req, before)[step] = Effect(f, Op)
    BY <1>2, <1>4, <1>6, StagesUnfold DEF Ops
  <1> HIDE DEF f
  <1>8. CASE Raise BY <1>1, <1>2, <1>3, <1>8, FollowsOn
  <1>9. CASE ~Raise
    <2>1. PICK q \in {Op.path, StrayPath}, keys \in 0 .. 3 :
             /\ At(scene, q) = {} /\ Free(scene) # {}
             /\ scene' = [scene EXCEPT ![o] = NewNode(IF keys > 0 THEN Op.id ELSE None, q,
                                 IF keys > 1 THEN Op.ws ELSE None, IF keys > 2 THEN "ok" ELSE "unset")]
             /\ IF keys = 3 THEN Proceed ELSE Raise
      BY <1>9, Zenon DEF ExecuteCreate
    <2>2. keys = 3 /\ Proceed BY <1>9, <2>1
    <2>3. PICK n : n = NewNode(Op.id, q, Op.ws, "ok") OBVIOUS
    <2>4. scene' = Added(scene, o, n) BY <2>1, <2>2, <2>3 DEF Added
    <2>5. Op.id \in Ids /\ Op.id \in STRING /\ Op.path \in STRING /\ Op.ws \in STRING \cup {None}
      BY <1>1, <1>2, OpsFacts DEF Ops
    <2>6. n \in Node /\ n.wire = None /\ n.path = q /\ n.id = Op.id
      BY <2>3, <2>5, SceneAssumption DEF NewNode, Node
    <2>7. o \in Free(scene) BY <2>1 DEF NewObj
    <2>11. o = NewObj(scene) OBVIOUS
    <2> HIDE DEF o
    <2>8. /\ Live(scene') = Live(scene) \cup {o} /\ scene'[o] = n
          /\ \A u \in Live(scene) : u # o /\ scene'[u] = scene[u]
      <3>1. n.wire \in Live(scene) \cup {None} /\ At(scene, n.path) = {} BY <2>1, <2>6
      <3> QED BY <1>1, <2>4, <2>6, <2>7, <3>1, NodeAdded
    <2>9. o \notin Live(before) BY <1>2, <2>8 DEF Kept
    <2>10. Newcomers(scene') = Newcomers(scene) \cup {o} /\ \A u \in Newcomers(scene) : u # o /\ scene'[u] = scene[u]
      BY <2>8, <2>9 DEF Newcomers
    <2>12. Born(scene, step - 1) BY <1>5 DEF FollowsAt
    <2>13. \A u \in Newcomers(scene) : scene[u].id # Op.id
      <3> TAKE u \in Newcomers(scene)
      <3>1. PICK j \in 1 .. step - 1 : Is(Ops[j], "create") /\ scene[u].id = Ops[j].id BY <2>12 DEF Born
      <3>2. j \in DOMAIN Ops /\ j # step BY <1>2, <1>6
      <3> QED BY <1>1, <1>2, <1>4, <3>1, <3>2, ChangeFacts
    <2>14. Born(scene', step)
      <3>1. \A j \in 1 .. step - 1 : j \in 1 .. step BY <1>6
      <3>2. step \in 1 .. step BY <1>2, <1>6
      <3>3. ASSUME NEW u \in Newcomers(scene')
            PROVE  \E j \in 1 .. step : Is(Ops[j], "create") /\ scene'[u].id = Ops[j].id
        <4>1. CASE u = o BY <1>1, <1>4, <2>6, <2>8, <3>2, <4>1
        <4>2. CASE u # o BY <2>10, <2>12, <3>1, <3>3, <4>2 DEF Born
        <4> QED BY <4>1, <4>2
      <3>4. \A u, v \in Newcomers(scene') : scene'[u].id = scene'[v].id => u = v
        BY <2>6, <2>8, <2>10, <2>12, <2>13 DEF Born
      <3> QED BY <3>3, <3>4 DEF Born
    <2>15. ASSUME Placed(scene') PROVE Follows(scene', Effect(f, Op), step)
      <3>1. Placed(scene) BY <2>10, <2>15 DEF Placed
      <3>2. o \in Newcomers(scene') /\ scene'[o].id = Op.id /\ scene'[o].path = q BY <2>6, <2>8, <2>10
      <3>3. q = Op.path BY <1>1, <1>2, <1>4, <2>15, <3>2 DEF Placed
      <3>4. Follows(scene, f, step - 1) BY <1>5, <3>1 DEF FollowsAt, f
      <3>5. n = NewNode(Ops[step].id, Ops[step].path, Ops[step].ws, "ok") BY <1>4, <2>3, <3>3
      <3>6. Is(Ops[step], "create") BY <1>1, <1>4
      <3>7. Follows(scene', Effect(f, Ops[step]), step)
        BY <1>1, <1>2, <2>6, <2>7, <2>8, <2>11, <3>4, <3>5, <3>6, FollowsCreate
      <3> QED BY <1>4, <3>7
    <2> QED BY <1>1, <1>2, <1>3, <1>7, <2>2, <2>14, <2>15, FollowsOn
  <1> QED BY <1>8, <1>9

\* What is admitted leaves the change no room: its facts are all asked for, its new ids are free,
\* and two targets that are one node are one reference
LEMMA AdmittedIsAssured ==
    ASSUME SceneOK(scene), NEW r \in Request, Admissible(r)
    PROVE  LET ops == r.cs.ops
           IN /\ MandatoryPostconditions(ops) \subseteq r.cs.post
              /\ \A i \in CreatedIds(ops) : Mirrors(scene, i) = {}
              /\ \A t, u \in ChangedTargets(ops) : Identity(t) = Identity(u) => t = u
  <1> DEFINE cs == r.cs
             ops == cs.ops
             locked == LockedPaths(cs)
  <1>1. ValidChangeSet(cs) /\ WellFormed(ops) /\ UniqueNodeRefs(cs.affected)
    BY ExecutorAssumption DEF ValidRequest, ValidChangeSet
  <1>2. Preflight(r) /\ CoversMandatory(r) /\ Denials(cs, r.ws, locked) = {} BY DEF Admissible
  <1>3. MandatoryPostconditions(ops) \subseteq cs.post BY <1>2 DEF CoversMandatory
  <1>4. ChangedTargets(ops) \subseteq cs.affected /\ CreatedRefs(ops) \subseteq cs.affected
    <2> HIDE DEF locked
    <2> QED BY <1>2 DEF Denials
  <1>5. cs.affected \subseteq CollectedRefs(cs) BY Zenon DEF CollectedRefs
  <1>6. ASSUME NEW i \in CreatedIds(ops) PROVE Mirrors(scene, i) = {}
    <2>1. PICK op \in CreateOps(ops) : op.id = i BY DEF CreatedIds
    <2>2. CreatedRef(op) \in CreatedRefs(ops) BY <2>1 DEF CreatedRefs
    <2>3. CreatedRef(op).id = i BY <2>1 DEF CreatedRef, Ref
    <2>4. CreateTargetFree(CreatedRef(op)) BY <1>2, <1>4, <1>5, <2>2, <2>3 DEF Preflight
    <2>5. i # None
      <3>1. op.id \in STRING BY <1>1, <2>1 DEF CreateOps, ToSet, WellFormed
      <3> QED BY <2>1, <3>1, SceneAssumption
    <2> QED BY <2>3, <2>4, <2>5 DEF CreateTargetFree, PreflightNodes
  <1>7. ASSUME NEW t \in ChangedTargets(ops), NEW u \in ChangedTargets(ops), Identity(t) = Identity(u)
        PROVE  t = u
    <2>1. t \in cs.affected /\ u \in cs.affected BY <1>4
    <2>2. PICK j \in DOMAIN ops : ~Is(ops[j], "create") /\ ops[j].target = t BY DEF ChangedTargets, ToSet
    <2>3. PICK k \in DOMAIN ops : ~Is(ops[k], "create") /\ ops[k].target = u BY DEF ChangedTargets, ToSet
    <2>4. t.id # u.path /\ u.id # t.path BY <1>1, <2>2, <2>3 DEF WellFormed
    <2>5. (t.id # None /\ t.id = u.id) \/ t.path = u.path BY <1>7, <2>4 DEF Identity
    <2> QED BY <1>1, <2>1, <2>5 DEF UniqueNodeRefs
  <1> QED BY <1>3, <1>6, <1>7

\* A transaction begins at its first stage
LEMMA BeginFollows ==
    ASSUME ExecutorInv, RefineInv, NEW r \in Request, BeginTransaction(r)
    PROVE  RefineInv'
  <1>1. /\ SceneOK(scene) /\ Admissible(r) /\ pc' = "execute" /\ req' = r /\ before' = scene /\ scene' = scene
        /\ step' = 1 /\ ~frozen /\ frozen' = frozen /\ receipts' = receipts
    BY DEF BeginTransaction, ExecutorInv
  <1>2. Answered' BY <1>1 DEF RefineInv, Answered
  <1>3. Assured'
    <2>1. /\ MandatoryPostconditions(r.cs.ops) \subseteq r.cs.post
          /\ \A i \in CreatedIds(r.cs.ops) : Mirrors(scene, i) = {}
          /\ \A t, u \in ChangedTargets(r.cs.ops) : Identity(t) = Identity(u) => t = u
      BY <1>1, AdmittedIsAssured
    <2>2. Ops' = r.cs.ops /\ Ids' = CreatedIds(r.cs.ops) /\ Targets' = ChangedTargets(r.cs.ops)
      BY <1>1 DEF Ops, Ids, Targets
    <2>3. \A i : Mirrors(before, i)' = Mirrors(scene, i) BY <1>1 DEF Mirrors, Live
    <2> QED BY <1>1, <2>1, <2>2, <2>3 DEF Assured
  <1>4. Stages(req, before)'[0] = scene
    <2>1. Len(r.cs.ops) \in Nat BY ExecutorAssumption DEF ValidRequest, ValidChangeSet, WellFormed
    <2>2. Stages(r, scene)[0] = scene BY <2>1, StagesUnfold
    <2>3. Stages(req, before)' = Stages(r, scene) BY <1>1
    <2> QED BY <2>2, <2>3
  <1>5. Born(scene, 0)' BY <1>1 DEF Born, Newcomers, Live
  <1>6. Follows(scene, scene, 0)'
    <2>1. scene \in [Obj -> Node \cup {None}] BY <1>1 DEF SceneOK
    <2> QED BY <1>1, <2>1 DEF Follows, ParmTold, WireTold, SameNode, Live
  <1>7. FollowsAt(step - 1)' BY <1>1, <1>4, <1>5, <1>6 DEF FollowsAt
  <1> QED BY <1>1, <1>2, <1>3, <1>7 DEF RefineInv, Following

\* A receipt goes into the cache, and the oldest one out of it when it is full
LEMMA ReceiptKept ==
    ASSUME Answered, req \in Request, NEW status \in {"Applied", "RolledBack", "Partial", "CriticalRecovery"},
           Cache(status), frozen' \in BOOLEAN, frozen => frozen',
           status \in {"Partial", "CriticalRecovery"} => frozen'
    PROVE  Answered'
  <1> DEFINE new == [cs |-> req.cs, status |-> status]
             all == Append(receipts, new)
  <1>1. receipts \in Seq(Receipt) BY DEF Answered
  <1>2. new \in Receipt BY DEF Receipt
  <1>3. new.status = status OBVIOUS
  <1> HIDE DEF new
  <1>4. all \in Seq(Receipt) /\ all # <<>> /\ \A i \in DOMAIN all : all[i].status \in {"Partial", "CriticalRecovery"} => frozen'
    <2>1. /\ all \in Seq(Receipt) /\ all # <<>> /\ Len(receipts) \in Nat /\ DOMAIN receipts = 1 .. Len(receipts)
          /\ DOMAIN all = 1 .. Len(receipts) + 1 /\ all[Len(receipts) + 1] = new
          /\ \A i \in 1 .. Len(receipts) : all[i] = receipts[i]
      BY <1>1, <1>2
    <2> HIDE DEF all
    <2>2. \A i \in 1 .. Len(receipts) + 1 : i \in 1 .. Len(receipts) \/ i = Len(receipts) + 1 BY <2>1
    <2> QED BY <1>3, <2>1, <2>2 DEF Answered
  <1>5. receipts' = all \/ receipts' = Tail(all) BY DEF Cache, new
  <1> HIDE DEF all
  <1>6. Tail(all) \in Seq(Receipt) /\ \A i \in DOMAIN Tail(all) : Tail(all)[i].status \in {"Partial", "CriticalRecovery"} => frozen'
    <2>1. /\ Tail(all) \in Seq(Receipt) /\ Len(all) \in Nat \ {0} /\ DOMAIN all = 1 .. Len(all)
          /\ DOMAIN Tail(all) = 1 .. Len(all) - 1 /\ \A i \in 1 .. Len(all) - 1 : Tail(all)[i] = all[i + 1]
      BY <1>4
    <2>2. \A i \in 1 .. Len(all) - 1 : i + 1 \in 1 .. Len(all) BY <2>1
    <2> QED BY <1>4, <2>1, <2>2
  <1>7. receipts' \in Seq(Receipt) /\ \A i \in DOMAIN receipts' : receipts'[i].status \in {"Partial", "CriticalRecovery"} => frozen'
    BY <1>4, <1>5, <1>6
  <1>8. Receipt' = Receipt BY DEF Receipt
  <1> QED BY <1>7, <1>8 DEF Answered

\* The steps that write no operation
LEMMA OtherFollows ==
    ASSUME ExecutorInv, RefineInv,
           (\E r \in Request : ApplyWithoutWrite(r)) \/ Reconcile \/ RollbackOne \/ FinishRollback \/ UserEdits
    PROVE  RefineInv'
  <1>1. Answered BY DEF RefineInv
  <1>2. CASE (\E r \in Request : ApplyWithoutWrite(r)) \/ UserEdits
    <2>1. pc' = "idle" /\ UNCHANGED <<receipts, frozen>> BY <1>2 DEF ApplyWithoutWrite, Answer, UserEdits
    <2> QED BY <1>1, <2>1 DEF RefineInv, Answered
  <1>3. CASE pc \in {"reconcile", "rollback"} /\ pc' = "rollback" /\ UNCHANGED <<receipts, frozen, req, before>>
    <2>1. Answered' BY <1>1, <1>3 DEF Answered
    <2>2. Assured' /\ ~frozen' BY <1>3 DEF RefineInv, Following, Assured, Ids, Targets, Ops, Mirrors, Live
    <2> QED BY <1>3, <2>1, <2>2 DEF RefineInv, Following
  <1>4. CASE RollbackOne BY <1>3, <1>4 DEF RollbackOne
  <1>5. CASE Reconcile
    <2>1. CASE pc' = "rollback" /\ receipts' = receipts BY <1>3, <1>5, <2>1 DEF Reconcile, call
    <2>2. CASE Cache("Applied") /\ pc' = "idle"
      <3>1. req \in Request BY <1>5 DEF Reconcile, ExecutorInv, Transacting
      <3>2. frozen' = frozen /\ frozen \in BOOLEAN BY <1>1, <1>5 DEF Reconcile, Answered
      <3>3. Answered' BY <1>1, <2>2, <3>1, <3>2, ReceiptKept
      <3> QED BY <2>2, <3>3 DEF RefineInv
    <2> QED BY <1>5, <2>1, <2>2 DEF Reconcile
  <1>6. CASE FinishRollback
    <2>1. PICK ok \in {TRUE, FALSE} :
             /\ frozen' = (frozen \/ Classify(results, ok) # "RolledBack")
             /\ Cache(Classify(results, ok))
      BY <1>6, Zenon DEF FinishRollback
    <2>2. req \in Request /\ pc' = "idle" BY <1>6 DEF FinishRollback, ExecutorInv, Transacting
    <2>3. Classify(results, ok) \in {"RolledBack", "Partial", "CriticalRecovery"} BY Zenon DEF Classify
    <2>4. PICK status : status = Classify(results, ok) OBVIOUS
    <2>5. /\ frozen' = (frozen \/ status # "RolledBack") /\ Cache(status)
          /\ status \in {"Applied", "RolledBack", "Partial", "CriticalRecovery"}
      BY <2>1, <2>3, <2>4
    <2>6. frozen' \in BOOLEAN /\ (frozen => frozen') /\ (status \in {"Partial", "CriticalRecovery"} => frozen')
      BY <2>5
    <2>7. Answered' BY <1>1, <2>2, <2>5, <2>6, ReceiptKept
    <2> QED BY <2>2, <2>7 DEF RefineInv
  <1> QED BY <1>2, <1>4, <1>5, <1>6

\* What every change asks for of what it leaves
LEMMA AskedFor ==
    ASSUME req \in Request, NEW j \in DOMAIN Ops
    PROVE  /\ Is(Ops[j], "create") => NodeIdentityEquals(CreatedRef(Ops[j])) \in MandatoryPostconditions(Ops)
           /\ Is(Ops[j], "set") /\ LastWrite(Ops, j) =>
                 ParmValueEquals(Ops[j].target, Ops[j].new) \in MandatoryPostconditions(Ops)
           /\ Is(Ops[j], "connect") /\ LastWrite(Ops, j) =>
                 WireInputEquals(Ops[j].target, Ops[j].source) \in MandatoryPostconditions(Ops)
  <1> DEFINE after(k) == LET op == Ops[k] IN
                CASE Is(op, "create")  -> {NodeIdentityEquals(CreatedRef(op))}
                  [] Is(op, "set")     -> IF LastWrite(Ops, k) THEN {ParmValueEquals(op.target, op.new)} ELSE {}
                  [] Is(op, "connect") -> IF LastWrite(Ops, k) THEN {WireInputEquals(op.target, op.source)} ELSE {}
  <1>1. after(j) \subseteq MandatoryPostconditions(Ops) BY Zenon DEF MandatoryPostconditions
  <1>2. "create" # "set" /\ "create" # "connect" /\ "set" # "connect" OBVIOUS
  <1>3. Is(Ops[j], "create") => after(j) = {NodeIdentityEquals(CreatedRef(Ops[j]))} BY <1>2, Zenon DEF Is
  <1>4. Is(Ops[j], "set") => after(j) = IF LastWrite(Ops, j) THEN {ParmValueEquals(Ops[j].target, Ops[j].new)} ELSE {}
    BY <1>2, Zenon DEF Is
  <1>5. Is(Ops[j], "connect") => after(j) = IF LastWrite(Ops, j) THEN {WireInputEquals(Ops[j].target, Ops[j].source)} ELSE {}
    BY <1>2, Zenon DEF Is
  <1> HIDE DEF after
  <1> QED BY <1>1, <1>3, <1>4, <1>5

\* When everything the change asks for is found, the scene is the one it was to become: no node
\* was renamed, and the last write of every slot did what it was asked
LEMMA CommitIsTarget ==
    ASSUME ExecutorInv, RefineInv, pc = "reconcile", PostconditionsHold
    PROVE  scene = TargetScene(req, before)
  <1> DEFINE n == Len(Ops)
             f == Stages(req, before)[n]
  <1>1. Transacting /\ SceneOK(scene) BY DEF ExecutorInv
  <1>2. SceneOK(before) /\ Kept(scene) /\ req \in Request BY <1>1 DEF Transacting
  <1>3. Assured /\ FollowsAt(n) BY DEF RefineInv, Following
  <1>4. Len(Ops) \in Nat /\ DOMAIN Ops = 1 .. Len(Ops) BY <1>2, ChangeFacts
  <1>5. \A c \in MandatoryPostconditions(Ops) : ConditionHolds(c, scene, req.ws)
    BY <1>3 DEF Assured, PostconditionsHold
  <1>6. scene \in [Obj -> Node \cup {None}] /\ Live(scene) \subseteq Obj BY <1>1 DEF SceneOK, Live
  <1> HIDE DEF f
  <1>7. Placed(scene)
    <2> SUFFICES ASSUME NEW o \in Newcomers(scene), NEW j \in DOMAIN Ops,
                        Is(Ops[j], "create"), Ops[j].id = scene[o].id
                 PROVE  scene[o].path = Ops[j].path
      BY DEF Placed
    <2> DEFINE ref == CreatedRef(Ops[j])
    <2>1. ref.id = Ops[j].id /\ ref.path = Ops[j].path BY DEF CreatedRef, Ref
    <2>2. ref.id # None /\ ref.id \in Ids BY <1>2, <2>1, ChangeFacts
    <2>3. NodeIdentityEquals(ref) \in MandatoryPostconditions(Ops) BY <1>2, AskedFor
    <2> HIDE DEF ref
    <2>4. ConditionHolds(NodeIdentityEquals(ref), scene, req.ws) BY <1>5, <2>3
    <2>5. PICK u \in Resolve(scene, ref) : IdentityHolds(scene, u, ref)
      BY <2>4 DEF ConditionHolds, NodeIdentityEquals, Is
    <2>6. scene[u].path = ref.path /\ scene[u].id = ref.id BY <2>2, <2>5 DEF IdentityHolds
    <2>7. u \in Live(scene) BY <1>1, <2>5, ResolvedIsLive
    <2>8. u \notin Live(before)
      <3>1. Mirrors(before, ref.id) = {} BY <1>3, <2>2 DEF Assured
      <3> QED BY <1>2, <2>6, <3>1 DEF Mirrors, Kept, SameNode
    <2>9. u = o BY <1>3, <2>1, <2>6, <2>7, <2>8 DEF FollowsAt, Born, Newcomers
    <2> QED BY <2>1, <2>6, <2>9
  <1>8. Follows(scene, f, n) BY <1>3, <1>7 DEF FollowsAt, f
  <1>9. \A j \in DOMAIN Ops : LastUpTo(j, n) => LastWrite(Ops, j) BY DEF LastUpTo, LastWrite
  <1>10. ASSUME NEW o \in Live(scene) PROVE scene[o].parm = f[o].parm
    <2> SUFFICES ASSUME scene[o].parm # f[o].parm PROVE FALSE OBVIOUS
    <2>1. PICK j \in 1 .. n : /\ Is(Ops[j], "set") /\ LastUpTo(j, n)
                              /\ Resolve(scene, Ops[j].target) = {o} /\ f[o].parm = Ops[j].new
      BY <1>8 DEF Follows, ParmTold
    <2>2. ParmValueEquals(Ops[j].target, Ops[j].new) \in MandatoryPostconditions(Ops)
      BY <1>2, <1>4, <1>9, <2>1, AskedFor
    <2>3. ConditionHolds(ParmValueEquals(Ops[j].target, Ops[j].new), scene, req.ws) BY <1>5, <2>2
    <2>4. Ops[j].new \in ParmFacts(scene, Ops[j].target) BY <2>3 DEF ConditionHolds, ParmValueEquals, Is
    <2> QED BY <2>1, <2>4 DEF ParmFacts
  <1>11. ASSUME NEW o \in Live(scene) PROVE scene[o].wire = f[o].wire
    <2> SUFFICES ASSUME scene[o].wire # f[o].wire PROVE FALSE OBVIOUS
    <2> DEFINE v == scene[o].wire
    <2>1. PICK j \in 1 .. n : /\ Is(Ops[j], "connect") /\ LastUpTo(j, n)
                              /\ Resolve(scene, Ops[j].target) = {o} /\ Resolve(scene, Ops[j].source) = {f[o].wire}
      BY <1>8 DEF Follows, WireTold
    <2> DEFINE src == Ops[j].source
    <2>2. WireInputEquals(Ops[j].target, src) \in MandatoryPostconditions(Ops)
      BY <1>2, <1>4, <1>9, <2>1, AskedFor
    <2>3. src # None BY <1>2, <1>4, <2>1, ExecutorAssumption DEF ValidRequest, ValidChangeSet, WellFormed, Ops
    <2>4. ConditionHolds(WireInputEquals(Ops[j].target, src), scene, req.ws) BY <1>5, <2>2
    <2>5. PICK fact \in WireFacts(scene, Ops[j].target) : WireEqual(fact, src)
      BY <2>4 DEF ConditionHolds, WireInputEquals, Is
    <2>6. fact = SourceRef(scene, v) BY <2>1, <2>5 DEF WireFacts
    <2>7. WireEqual(SourceRef(scene, v), src) BY <2>5, <2>6
    <2>8. v \in Live(scene)
      <3>1. v # None BY <2>3, <2>7 DEF SourceRef, WireEqual
      <3> QED BY <1>1, <3>1 DEF SceneOK
    <2> HIDE DEF v, src
    <2>9. SourceRef(scene, v) = Ref(scene[v].id, scene[v].path, scene[v].ws) /\ SourceRef(scene, v) # None
      BY <1>1, <1>2, <2>8, SourceFacts
    <2>10. scene[v].path = src.path /\ (src.id # None => scene[v].id = src.id)
      BY <2>3, <2>7, <2>9 DEF WireEqual, Ref
    <2>11. v \in Resolve(scene, src) BY <2>8, <2>10 DEF Resolve, At, Mirrors
    <2> QED BY <2>1, <2>11 DEF v, src
  <1>12. f \in [Obj -> Node \cup {None}] /\ Live(f) = Live(scene) /\ \A o \in Live(scene) : SameNode(scene[o], f[o])
    BY <1>8 DEF Follows
  <1>13. ASSUME NEW o \in Obj PROVE scene[o] = f[o]
    <2>1. CASE o \notin Live(scene) BY <1>6, <1>12, <2>1 DEF Live
    <2>2. CASE o \in Live(scene)
      <3>1. scene[o] \in Node /\ f[o] \in Node BY <1>6, <1>12, <2>2 DEF Live
      <3>2. \A m \in Node : m = [path |-> m.path, id |-> m.id, ws |-> m.ws, facts |-> m.facts,
                                 locked |-> m.locked, parm |-> m.parm, wire |-> m.wire]
        BY DEF Node
      <3> QED BY <1>10, <1>11, <1>12, <2>2, <3>1, <3>2 DEF SameNode
    <2> QED BY <2>1, <2>2
  <1>14. scene = f BY <1>6, <1>12, <1>13
  <1> QED BY <1>14 DEF TargetScene, f, Ops

\* Nothing has been written yet
LEMMA RefineStarts == Init => RefineInv
  <1> SUFFICES ASSUME Init PROVE RefineInv OBVIOUS
  <1>1. receipts = <<>> /\ frozen = FALSE /\ pc = "idle" BY DEF Init
  <1>2. receipts \in Seq(Receipt) /\ DOMAIN receipts = {} BY <1>1
  <1> QED BY <1>1, <1>2 DEF RefineInv, Answered

\* Every step of the executor keeps it
LEMMA RefineStep ==
    ASSUME ExecutorInv, RefineInv, Next
    PROVE  RefineInv'
  BY WriteFollows, CreateFollows, BeginFollows, OtherFollows DEF Next

\* Every step of the executor is a step of the transaction, or none
LEMMA StepRefines ==
    ASSUME ExecutorInv, RefineInv, Next
    PROVE  [Transaction!Next]_(Transaction!vars)
  <1> DEFINE abs == IF pc = "idle" THEN scene ELSE before
  <1>1. ASSUME NEW r \in Request, ApplyWithoutWrite(r) PROVE Transaction!Decline
    <2>1. /\ pc = "idle" /\ pc' = "idle" /\ UNCHANGED <<scene, frozen, req, edits>>
      BY <1>1 DEF ApplyWithoutWrite, Answer, call
    <2>2. /\ said' \in {"refused", "AlreadyApplied", "RolledBack", "Partial", "CriticalRecovery"}
          /\ said' \in {"Partial", "CriticalRecovery"} => frozen
      <3>1. CASE said' = "refused" BY <3>1
      <3>2. CASE \E i \in Cached(r.cs) : Answer(IF receipts[i].status = "Applied" THEN "AlreadyApplied" ELSE receipts[i].status)
        <4>1. PICK i \in Cached(r.cs) : said' = IF receipts[i].status = "Applied" THEN "AlreadyApplied" ELSE receipts[i].status
          BY <3>2 DEF Answer
        <4>2. i \in DOMAIN receipts BY <4>1 DEF Cached
        <4>3. receipts[i].status \in {"Applied", "RolledBack", "Partial", "CriticalRecovery"}
          <5>1. receipts[i] \in Receipt BY <4>2 DEF RefineInv, Answered
          <5> QED BY <5>1 DEF Receipt
        <4>4. receipts[i].status \in {"Partial", "CriticalRecovery"} => frozen BY <4>2 DEF RefineInv, Answered
        <4> QED BY <4>1, <4>3, <4>4
      <3> QED BY <1>1, <3>1, <3>2 DEF ApplyWithoutWrite, Answer
    <2> QED BY <2>1, <2>2 DEF Transaction!Decline
  <1>2. ASSUME NEW r \in Request, BeginTransaction(r)
        PROVE  Transaction!Ask \/ UNCHANGED Transaction!vars
    <2>1. /\ pc = "idle" /\ pc' = "execute" /\ before' = scene /\ ~frozen /\ req' = r
          /\ UNCHANGED <<frozen, said, edits>>
      BY <1>2 DEF BeginTransaction
    <2>2. abs' = abs BY <2>1
    <2> QED BY <2>1, <2>2 DEF Transaction!Ask, Transaction!vars
  <1>3. ASSUME pc # "idle", pc' # "idle", UNCHANGED <<before, req, frozen, said, edits>>
        PROVE  UNCHANGED Transaction!vars
    BY <1>3 DEF Transaction!vars
  <1>4. CASE ExecuteCreate \/ ExecuteSetParm \/ ExecuteConnect
    <2>1. pc' # "idle"
      BY <1>4 DEF ExecuteCreate, ExecuteSetParm, ExecuteConnect, Raise, Proceed
    <2>2. pc # "idle" /\ UNCHANGED <<before, req, frozen, said, edits>>
      BY <1>4 DEF ExecuteCreate, ExecuteSetParm, ExecuteConnect
    <2> QED BY <1>3, <2>1, <2>2
  <1>5. CASE RollbackOne BY <1>3, <1>5 DEF RollbackOne
  <1>6. CASE Reconcile
    <2>1. CASE pc' = "rollback" /\ said' = said BY <1>3, <1>6, <2>1 DEF Reconcile, call
    <2>2. CASE PostconditionsHold /\ said' = "Applied" /\ pc' = "idle"
      <3>1. pc = "reconcile" /\ UNCHANGED <<scene, frozen, req, edits>> BY <1>6 DEF Reconcile, call
      <3>2. scene' = TargetScene(req, before) BY <2>2, <3>1, CommitIsTarget
      <3>3. ~frozen BY <3>1 DEF RefineInv, Following
      <3>4. abs = before /\ abs' = scene' BY <2>2, <3>1
      <3>5. Transaction!Commit BY <2>2, <3>1, <3>2, <3>3, <3>4 DEF Transaction!Commit
      <3> QED BY <3>5 DEF Transaction!Next
    <2> QED BY <1>6, <2>1, <2>2 DEF Reconcile
  <1>7. CASE FinishRollback
    <2>1. PICK ok \in {TRUE, FALSE} :
             /\ ok => journal = <<>>
             /\ frozen' = (frozen \/ Classify(results, ok) # "RolledBack")
             /\ said' = Classify(results, ok)
      BY <1>7, Zenon DEF FinishRollback
    <2>2. pc = "rollback" /\ pc' = "idle" /\ UNCHANGED <<scene, req, edits>> BY <1>7 DEF FinishRollback, call
    <2>3. ~frozen BY <2>2 DEF RefineInv, Following
    <2>4. Classify(results, ok) \in {"RolledBack", "Partial", "CriticalRecovery"} BY Zenon DEF Classify
    <2>5. CASE Classify(results, ok) = "RolledBack"
      <3>1. ok /\ Undone BY <2>5 DEF Classify, Undone
      <3>2. scene = before BY <2>1, <2>2, <3>1, NothingLeft
      <3>3. frozen' = frozen BY <2>1, <2>3, <2>5 DEF RefineInv, Answered
      <3>4. Transaction!Decline BY <2>1, <2>2, <2>5, <3>2, <3>3 DEF Transaction!Decline
      <3> QED BY <3>4 DEF Transaction!Next
    <2>6. CASE Classify(results, ok) # "RolledBack"
      <3>1. frozen' = TRUE BY <2>1, <2>6
      <3>2. Transaction!Abandon BY <2>1, <2>2, <2>3, <2>4, <2>6, <3>1 DEF Transaction!Abandon
      <3> QED BY <3>2 DEF Transaction!Next
    <2> QED BY <2>5, <2>6
  <1>8. CASE UserEdits
    <2>1. Transaction!Edit BY <1>8 DEF UserEdits, call, Transaction!Edit
    <2> QED BY <2>1 DEF Transaction!Next
  <1> QED BY <1>1, <1>2, <1>4, <1>5, <1>6, <1>7, <1>8 DEF Next, Transaction!Next

\* apply implements SceneTransaction: for any scene, any valid requests and any misbehaviour of
\* the HOM, a change that is said to be applied has made of the scene exactly what its
\* operations say, one that is said to be rolled back has left nothing, and after any other
\* outcome the executor is frozen (_apply_transaction, _reconcile, _rollback, _classify_failure).
THEOREM ApplyIsATransaction == SceneSpec => ImplementsTransaction
  <1>1. SceneInit => Transaction!Init
    BY DEF SceneInit, Init, Transaction!Init
  <1>2. SceneInit => RefineInv BY RefineStarts DEF SceneInit
  <1>3. ExecutorInv /\ RefineInv /\ [SceneNext]_sceneVars => RefineInv'
    <2> SUFFICES ASSUME ExecutorInv, RefineInv, [SceneNext]_sceneVars PROVE RefineInv' OBVIOUS
    <2>1. CASE Next BY <2>1, RefineStep
    <2>2. CASE UNCHANGED vars
      <3>1. Answered' BY <2>2 DEF RefineInv, Answered, vars
      <3>2. ASSUME pc # "idle" PROVE Following'
        <4>1. UNCHANGED <<scene, frozen, pc, req, before, step>> BY <2>2 DEF vars
        <4>2. Following BY <3>2 DEF RefineInv
        <4>3. Ops' = Ops BY <4>1 DEF Ops
        <4>4. Assured' BY <4>1, <4>2 DEF Following, Assured, Ids, Targets, Ops, Mirrors, Live
        <4>5. \A k : Born(scene, k)' <=> Born(scene, k) BY <4>1, <4>3 DEF Born, Newcomers, Live
        <4>6. Placed(scene)' <=> Placed(scene) BY <4>1, <4>3 DEF Placed, Newcomers, Live
        <4>7. \A f, k : Follows(scene, f, k)' <=> Follows(scene, f, k)
          BY <4>1, <4>3 DEF Follows, ParmTold, WireTold, LastUpTo, Resolve, At, Mirrors, Live, SameNode
        <4>8. \A k : FollowsAt(k)' <=> FollowsAt(k) BY <4>1, <4>5, <4>6, <4>7 DEF FollowsAt
        <4> QED BY <4>1, <4>2, <4>3, <4>4, <4>8 DEF Following
      <3>3. pc' = pc BY <2>2 DEF vars
      <3> QED BY <3>1, <3>2, <3>3 DEF RefineInv
    <2> QED BY <2>1, <2>2 DEF SceneNext, sceneVars
  <1>4. ExecutorInv /\ RefineInv /\ [SceneNext]_sceneVars => [Transaction!Next]_(Transaction!vars)
    <2> SUFFICES ASSUME ExecutorInv, RefineInv, [SceneNext]_sceneVars
                 PROVE  [Transaction!Next]_(Transaction!vars)
      OBVIOUS
    <2>1. CASE Next BY <2>1, StepRefines
    <2>2. CASE UNCHANGED vars BY <2>2 DEF vars, Transaction!vars
    <2> QED BY <2>1, <2>2 DEF SceneNext, sceneVars
  <1> QED BY <1>1, <1>2, <1>3, <1>4, ExecutorHolds, PTL DEF SceneSpec, sceneVars, ImplementsTransaction, Transaction!Spec
==============================================================================
