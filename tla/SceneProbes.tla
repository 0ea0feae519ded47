---------------------------- MODULE SceneProbes -----------------------------
(***************************************************************************)
(* The two operations that change the scene only to look at it             *)
(* (houdini_side/changeset_executor.py): sample_sensitivity writes sample  *)
(* values into parameters and restores them, capture builds a temporary    *)
(* camera and render node, renders one picture and destroys both.          *)
(*                                                                         *)
(* Each is one callable on the main thread.  Any HOM call may raise,       *)
(* before or after its effect; a parameter may come to hold another value  *)
(* than the one that was set.                                              *)
(***************************************************************************)
EXTENDS Naturals, Sequences, SequencesExt

CONSTANTS Parm, ParmValue, Original,  \* parameters, their values, what the artist had set
          Sample,                     \* the sample requests: sequences of [parm, value]
          MaxProbes

VARIABLES parm,                       \* the parameters as they are
          probeFrozen,                \* _write_frozen
          temp,                       \* temporary nodes in the scene
          files,                      \* of the target directory: "dir", "tmp", "final"
          at, probe, answer, probes,
          found,                      \* history: the parameters as the last probe found them
          slip                        \* history: the parameter it set by a call that raised

history == <<found, slip>>
probeVars == <<parm, probeFrozen, temp, files, at, probe, answer, probes, history>>
NoProbe == [kind |-> "none"]

Report(a) == at' = "idle" /\ answer' = a /\ probe' = NoProbe
Begin == /\ at = "idle" /\ probes < MaxProbes /\ probes' = probes + 1
         /\ found' = parm /\ slip' = {}

-----------------------------------------------------------------------------
(* sensitivity.sample *)

(* Frozen, stale, a target or its parameter not found, or the baseline not readable: no write *)
BeginSample(s) ==
    /\ Begin
    /\ \/ Report("refused")
       \/ ~probeFrozen /\ at' = "write" /\ answer' = answer
          /\ probe' = [kind |-> "sample", todo |-> s, written |-> <<>>, failed |-> FALSE,
                       original |-> parm]
    /\ UNCHANGED <<parm, probeFrozen, temp, files>>

Wrote(p, v) == parm' = [parm EXCEPT ![p] = v]
Recorded(p) == Append(probe.written, p)

(* Write, note what was written, cook, capture *)
WriteSample ==
    /\ at = "write" /\ probe.todo # <<>>
    /\ LET p == Head(probe.todo).parm IN
       \/ /\ \/ UNCHANGED <<parm, slip>>                     \* the write raised
             \/ Wrote(p, Head(probe.todo).value) /\ slip' = {p}   \* ... after it had set
          /\ at' = "restore" /\ probe' = [probe EXCEPT !.failed = TRUE]
       \/ \E v \in ParmValue, cooked \in BOOLEAN :
             /\ Wrote(p, v)
             /\ at' = IF cooked THEN "write" ELSE "restore"
             /\ probe' = [probe EXCEPT !.todo = Tail(@), !.written = Recorded(p), !.failed = ~cooked]
             /\ UNCHANGED slip
    /\ UNCHANGED <<probeFrozen, temp, files, answer, probes, found>>

EndWrites ==
    /\ at = "write" /\ probe.todo = <<>> /\ at' = "restore"
    /\ UNCHANGED <<parm, probeFrozen, temp, files, probe, answer, probes, history>>

(* mutant: what the restore wrote is not read back *)
RestoredUnchecked(p, v) == TRUE

(* The value read back is the original one *)
Restored(p, v) == v = probe.original[p]

(* What was noted, in reverse order, each write read back; the first that is not proven freezes all writes *)
RestoreSample ==
    /\ at = "restore" /\ probe.written # <<>>
    /\ LET p == Last(probe.written) IN
       \/ \E v \in ParmValue :
             /\ Wrote(p, v)
             /\ IF Restored(p, v)
                THEN probe' = [probe EXCEPT !.written = Front(@)] /\ UNCHANGED <<at, answer, probeFrozen>>
                ELSE Report("restore_failed") /\ probeFrozen' = TRUE
       \/ UNCHANGED parm /\ Report("restore_failed") /\ probeFrozen' = TRUE
    /\ UNCHANGED <<temp, files, probes, history>>

EndSample ==
    /\ at = "restore" /\ probe.written = <<>>
    /\ \/ Report("aborted")                                  \* a write, a cook or the last capture failed
       \/ ~probe.failed /\ Report("sampled")
    /\ UNCHANGED <<parm, probeFrozen, temp, files, probes, history>>

-----------------------------------------------------------------------------
(* capture.capture *)

(* Stale or no directory; or the temporary directory is there and the subject cannot be framed *)
BeginCapture ==
    /\ Begin
    /\ \/ Report("refused") /\ UNCHANGED files
       \/ Report("refused") /\ files' = files \cup {"dir"}
       \/ /\ files' = files \cup {"dir"} /\ at' = "camera" /\ UNCHANGED answer
          /\ probe' = [kind |-> "capture", scope |-> <<>>, failed |-> FALSE]
    /\ UNCHANGED <<parm, probeFrozen, temp>>

InScope(n, ready) == Append(probe.scope, n)

(* A node is created and listed at once; setting it up may still fail *)
CreateTemp(n, next) ==
    \/ \E ready \in BOOLEAN :
          /\ temp' = temp \cup {n}
          /\ probe' = [probe EXCEPT !.scope = InScope(n, ready), !.failed = ~ready]
          /\ at' = IF ready THEN next ELSE "destroy"
    \/ temp' = temp /\ probe' = [probe EXCEPT !.failed = TRUE] /\ at' = "destroy"

CreateCamera == /\ at = "camera" /\ CreateTemp("camera", "rop")
                /\ UNCHANGED <<parm, probeFrozen, files, answer, probes, history>>
CreateRop == /\ at = "rop" /\ CreateTemp("rop", "render")
             /\ UNCHANGED <<parm, probeFrozen, files, answer, probes, history>>

Render ==
    /\ at = "render" /\ at' = "destroy"
    /\ \E rendered \in BOOLEAN : probe' = [probe EXCEPT !.failed = ~rendered]
    /\ files' \in {files, files \cup {"tmp"}}
    /\ UNCHANGED <<parm, probeFrozen, temp, answer, probes, history>>

(* Every temporary node is tried, last first; a failure is kept and reported *)
DestroyScope ==
    /\ at = "destroy"
    /\ \E gone \in SUBSET ToSet(probe.scope) :
         /\ temp' = temp \ gone
         /\ IF gone # ToSet(probe.scope)
            THEN Report("cleanup_failed") /\ files' = files \ {"tmp", "final", "dir"}
            ELSE IF probe.failed THEN Report("render_failed") /\ files' = files \ {"tmp", "final", "dir"}
            ELSE at' = "verify" /\ UNCHANGED <<probe, answer, files>>
    /\ UNCHANGED <<parm, probeFrozen, probes, history>>

(* The picture is verified and renamed into place in one step *)
VerifyFile ==
    /\ at = "verify"
    /\ \/ "tmp" \in files /\ Report("captured") /\ files' = (files \ {"tmp", "dir"}) \cup {"final"}
       \/ Report("render_failed") /\ files' = files \ {"tmp", "dir"}
    /\ UNCHANGED <<parm, probeFrozen, temp, probes, history>>

ProbesInit ==
    /\ parm = Original /\ probeFrozen = FALSE /\ temp = {} /\ files = {}
    /\ at = "idle" /\ probe = NoProbe /\ answer = "nothing" /\ probes = 0
    /\ found = Original /\ slip = {}

ProbesNext ==
    \/ \E s \in Sample : BeginSample(s)
    \/ WriteSample \/ EndWrites \/ RestoreSample \/ EndSample
    \/ BeginCapture \/ CreateCamera \/ CreateRop \/ Render \/ DestroyScope \/ VerifyFile

-----------------------------------------------------------------------------
(* A probe that is over has left every parameter as it found it, or        *)
(* further writes are frozen.  The one parameter it can leave changed is   *)
(* the one whose own set raised after it had set: it was never noted as    *)
(* written, is not restored and freezes nothing, and the caller is told    *)
(* that the probe was aborted.                                             *)
ParmsRestored ==
    at = "idle" =>
        \/ probeFrozen
        \/ \A p \in Parm : parm[p] = found[p] \/ (p \in slip /\ answer = "aborted")

(* Between two probes the scene is the artist's: the parameters are        *)
(* restored; no temporary node is left unless some probe reported that; a  *)
(* picture is there only for a capture that succeeded.                     *)
ProbesLeaveNoTrace ==
    /\ ParmsRestored
    /\ (at = "idle" /\ answer \in {"captured", "render_failed"} /\ probes = 1) => temp = {}
    /\ (at = "idle" /\ answer = "captured") => "final" \in files
    /\ (at = "idle" /\ probes = 1 /\ answer # "captured") => "final" \notin files
=============================================================================
