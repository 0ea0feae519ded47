-------------------------- MODULE SceneTransaction --------------------------
(***************************************************************************)
(* What a write to the Houdini scene promises, whatever steps lie behind   *)
(* it: it happens as a whole, or it leaves the scene as it found it, or it *)
(* says that the scene is uncertain, and then no change is written again.  *)
(* Between writes the artist edits the scene at will.                      *)
(***************************************************************************)
EXTENDS Naturals

CONSTANTS Request, None,   \* the writes that may be asked for, and none yet
          Target(_, _),    \* Target(r, s): what request r makes of scene s
          FirstScene

VARIABLES scene,
          asked,           \* the write in hand
          frozen,          \* an earlier write left the scene uncertain
          said,            \* the last answer
          edits            \* how often somebody else changed the scene

vars == <<scene, asked, frozen, said, edits>>

Init == scene = FirstScene /\ asked = None /\ frozen = FALSE /\ said = "nothing" /\ edits = 0

Edit ==
    /\ edits' = edits + 1
    /\ UNCHANGED <<asked, frozen, said>>

Ask ==
    /\ ~frozen
    /\ asked' # asked /\ asked' \in Request
    /\ UNCHANGED <<scene, frozen, said, edits>>

Commit ==
    /\ ~frozen
    /\ said' = "Applied"
    /\ scene' = Target(asked, scene)
    /\ UNCHANGED <<asked, frozen, edits>>

Decline ==
    /\ said' \in {"refused", "AlreadyApplied", "RolledBack", "Partial", "CriticalRecovery"}
    /\ said' \in {"Partial", "CriticalRecovery"} => frozen
    /\ UNCHANGED <<scene, asked, frozen, edits>>

Abandon ==
    /\ ~frozen
    /\ frozen' = TRUE
    /\ said' \in {"Partial", "CriticalRecovery"}
    /\ UNCHANGED <<asked, edits>>

Next == Edit \/ Ask \/ Commit \/ Decline \/ Abandon

Spec == Init /\ [][Next]_vars
=============================================================================
