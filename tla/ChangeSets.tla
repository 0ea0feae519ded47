----------------------------- MODULE ChangeSets -----------------------------
(***************************************************************************)
(* The life of the scene changes a user approves: proposal, approval, the  *)
(* two-phase Apply across the bridge and its recovery                      *)
(* (eee_agent/changesets/service.py, the transactions of                   *)
(* eee_agent/changesets/repository.py, and their callers in                *)
(* eee_agent/runtime/service.py), together with what Houdini does with the *)
(* requests (houdini_side/changeset_executor.py behind the FIFO of         *)
(* houdini_side/secure_bridge.py; see MainThreadQueue).                    *)
(*                                                                         *)
(* A step of the Runtime ends where its coroutine awaits a transaction or  *)
(* the bridge; a bridge operation is one step of Houdini's main thread.    *)
(* The content of a change is what its preflight can tell of it: whether   *)
(* the scene it is bound to is before it, after it, half way or edited     *)
(* into something else.  Requests reach Houdini in the order in which they *)
(* are sent: a call sends its frame only after the bridge has answered its *)
(* authentication, and it sends the next after the last has ended.         *)
(***************************************************************************)
EXTENDS Naturals, Sequences, FiniteSets, SequencesExt

CONSTANTS
    Change,          \* the changes that may be proposed
    Creates,         \* those with a CreateNode operation
    Capacity,        \* entries the bridge queue holds
    CacheMax,        \* receipt_cache_max
    MaxIncidents,    \* bound: incidents, restarts, scene loads and edits together
    HardErrors       \* calls may fail with a code that is not transient

ASSUME ChangeAssumption == IsFiniteSet(Change) /\ Creates \subseteq Change
ASSUME BoundAssumption ==
    {Capacity, CacheMax} \subseteq Nat \ {0} /\ MaxIncidents \in Nat
ASSUME FlagAssumption == HardErrors \in BOOLEAN

VARIABLES
    state,      \* changesets.state ("None": no row)
    decision,   \* approvals.decision
    bound,      \* the scene binding in the changeset
    approvedIn, \* approved_instance_id and approved_scene_epoch
    receipt,    \* the status of the changeset's row of receipts
    late,       \* has approvals.expires_at passed
    phase,      \* is the Runtime starting (_reconcile) or up
    todo,       \* Applying changes recover_applying has still to visit
    asked,      \* approve calls that have read a binding: <<change, binding>>
    pc,         \* where the change's task is
    retry,      \* does the task apply when recover_one finds nothing written
    wire,       \* its bridge call: unsent, sent, or the answer
    incidents,  \* bound: incidents so far
    scene,      \* Houdini: the live binding
    queue,      \* Houdini: the main-thread queue
    cache,      \* Houdini: the executor's receipts
    frozen,     \* Houdini: _write_frozen
    effect,     \* what the change has left in the scene it is bound to
    writes      \* history: transactions that were not rolled back

durable == <<state, decision, bound, approvedIn, receipt>>
tasks == <<phase, todo, asked, pc, retry, wire>>
houdini == <<scene, queue, cache, frozen, effect, writes>>
vars == <<durable, late, tasks, incidents, houdini>>

Binding == [instance : 1..MaxIncidents + 1, epoch : 1..MaxIncidents + 1]
NoBinding == [instance |-> 0, epoch |-> 0]
States == {"None", "AwaitingApproval", "Approved", "Applying", "Applied", "RolledBack",
           "CriticalRecovery", "Recovered", "Rejected", "Expired"}
Decisions == {"None", "Pending", "Approved", "Consumed", "Rejected", "Expired"}
Statuses == {"Applied", "AlreadyApplied", "RolledBack", "CriticalRecovery"}
\* (a Partial receipt freezes, is cached and is recorded like CriticalRecovery)
Calls == {"apply", "receipt", "preflight", "critical"}
Effects == {"before", "half", "after", "foreign"}

\* Answers of a call: a receipt, the facts of a preflight, or an error.
\* _TRANSIENT_RECOVERY_CODES are one answer; all other codes but
\* changeset.receipt_unavailable are permanent.
Facts == {"pre", "post", "neither", "elsewhere"}
Permanent == {"stale", "refused", "failed"}
Answers == Statuses \cup Facts \cup Permanent \cup {"unavailable", "transient"}

TypeOK ==
    /\ state \in [Change -> States]
    /\ decision \in [Change -> Decisions]
    /\ bound \in [Change -> Binding \cup {NoBinding}]
    /\ approvedIn \in [Change -> Binding \cup {NoBinding}]
    /\ receipt \in [Change -> Statuses \cup {"None"}]
    /\ late \in [Change -> BOOLEAN]
    /\ phase \in {"starting", "up"}
    /\ todo \subseteq Change
    /\ asked \subseteq Change \X Binding
    /\ pc \in [Change -> {"idle", "check", "begin"} \cup Calls]
    /\ retry \in [Change -> BOOLEAN]
    /\ wire \in [Change -> Answers \cup {"unsent", "sent"}]
    /\ incidents \in 0..MaxIncidents
    /\ scene \in Binding
    /\ queue \in Seq([change : Change, op : Calls, awaited : BOOLEAN])
    /\ Len(queue) <= Capacity
    /\ cache \in Seq([change : Change, status : Statuses])
    /\ Len(cache) <= CacheMax
    /\ frozen \in BOOLEAN
    /\ effect \in [Change -> Effects]
    /\ writes \in [Change -> Nat]

Init ==
    /\ state = [c \in Change |-> "None"]
    /\ decision = [c \in Change |-> "None"]
    /\ bound = [c \in Change |-> NoBinding]
    /\ approvedIn = [c \in Change |-> NoBinding]
    /\ receipt = [c \in Change |-> "None"]
    /\ late = [c \in Change |-> FALSE]
    /\ phase = "up" /\ todo = {} /\ asked = {}
    /\ pc = [c \in Change |-> "idle"]
    /\ retry = [c \in Change |-> FALSE]
    /\ wire = [c \in Change |-> "unsent"]
    /\ incidents = 0
    /\ scene = [instance |-> 1, epoch |-> 1]
    /\ queue = <<>> /\ cache = <<>> /\ frozen = FALSE
    /\ effect = [c \in Change |-> "before"]
    /\ writes = [c \in Change |-> 0]

-----------------------------------------------------------------------------
Incident == incidents < MaxIncidents /\ incidents' = incidents + 1

(* Proposal and decision *)

\* propose: the row, the Pending approval and AwaitingApproval in one transaction
Propose(c) ==
    /\ phase = "up" /\ state[c] = "None"
    /\ state' = [state EXCEPT ![c] = "AwaitingApproval"]
    /\ decision' = [decision EXCEPT ![c] = "Pending"]
    /\ bound' = [bound EXCEPT ![c] = scene]
    /\ UNCHANGED <<approvedIn, receipt, late, tasks, incidents, houdini>>

\* The clock passes approvals.expires_at
Expire(c) ==
    /\ decision[c] \in {"Pending", "Approved"} /\ ~late[c]
    /\ late' = [late EXCEPT ![c] = TRUE]
    /\ UNCHANGED <<durable, tasks, incidents, houdini>>

\* approve up to its await of current_binding
ApproveRead(c) ==
    /\ phase = "up" /\ decision[c] = "Pending"
    /\ asked' = asked \cup {<<c, scene>>}
    /\ UNCHANGED <<durable, late, phase, todo, pc, retry, wire, incidents, houdini>>

\* The approval and the change move together; only an approval keeps its binding
RecordDecision(c, outcome, binding) ==
    /\ decision' = [decision EXCEPT ![c] = outcome]
    /\ state' = [state EXCEPT ![c] = outcome]
    /\ approvedIn' = [approvedIn EXCEPT ![c] = IF outcome = "Approved" THEN binding ELSE @]

\* The transaction of decide.  A decided approval refuses; a late one expires.
Decide(c, verdict, binding) ==
    /\ decision[c] = "Pending"
    /\ RecordDecision(c, IF late[c] THEN "Expired" ELSE verdict, binding)
    /\ asked' = {ask \in asked : ask[1] # c}
    /\ UNCHANGED <<bound, receipt>>

\* apply up to its first decision: a settled change returns its receipt, an
\* interrupted one is recovered first
StartApply(c) ==
    /\ pc' = [pc EXCEPT ![c] =
            CASE state'[c] \in {"Applied", "RolledBack", "CriticalRecovery"} -> "idle"
              [] state'[c] = "Applying" -> "receipt"
              [] OTHER -> "check"]
    /\ retry' = [retry EXCEPT ![c] = pc'[c] = "receipt"]
    /\ wire' = [wire EXCEPT ![c] = "unsent"]

\* approve_changeset: decide and, if approved, join or start the apply task.
\* Calls that lose the race are refused (approval.already_consumed).
Approve(c) ==
    /\ phase = "up"
    /\ \E ask \in asked : ask[1] = c /\ Decide(c, "Approved", ask[2])
    /\ IF decision'[c] = "Approved" /\ pc[c] = "idle"
       THEN StartApply(c) ELSE UNCHANGED <<pc, retry, wire>>
    /\ UNCHANGED <<late, phase, todo, incidents, houdini>>

\* reject_changeset
Reject(c) ==
    /\ phase = "up"
    /\ Decide(c, "Rejected", NoBinding)
    /\ UNCHANGED <<late, phase, todo, pc, retry, wire, incidents, houdini>>

-----------------------------------------------------------------------------
(* Apply and recovery in the Runtime *)

\* apply_changeset_trusted, one task per change
TrustedApply(c) ==
    /\ phase = "up" /\ pc[c] = "idle" /\ state[c] # "None"
    /\ UNCHANGED durable
    /\ StartApply(c)
    /\ UNCHANGED <<late, phase, todo, asked, incidents, houdini>>

\* _ensure_write_available
EnsureWriteAvailable(c) ==
    /\ pc[c] = "check"
    /\ pc' = [pc EXCEPT ![c] =
            IF \E d \in Change \ {c} : state[d] \in {"Applying", "CriticalRecovery"}
            THEN "idle" ELSE "begin"]
    /\ UNCHANGED <<durable, late, phase, todo, asked, retry, wire, incidents, houdini>>

\* Mutant: begin_apply does not compare the bindings
MutBeginAnywhere(c) ==
    /\ state[c] = "Approved"
    /\ decision[c] = "Consumed" \/ (decision[c] = "Approved" /\ ~late[c])

\* May begin_apply cross the boundary.  A consumed approval is used again.
MayBegin(c) ==
    /\ state[c] = "Approved"
    /\ approvedIn[c] = bound[c]
    /\ decision[c] = "Consumed" \/ (decision[c] = "Approved" /\ ~late[c])

\* begin_apply: consume the approval and persist Applying before bridge I/O
BeginApply(c) ==
    /\ pc[c] = "begin"
    /\ IF MayBegin(c)
       THEN /\ state' = [state EXCEPT ![c] = "Applying"]
            /\ decision' = [decision EXCEPT ![c] = "Consumed"]
            /\ pc' = [pc EXCEPT ![c] = "apply"]
       ELSE pc' = [pc EXCEPT ![c] = "idle"] /\ UNCHANGED <<state, decision>>
    /\ wire' = [wire EXCEPT ![c] = "unsent"]
    /\ UNCHANGED <<bound, approvedIn, receipt, late, phase, todo, asked, retry, incidents, houdini>>

\* The request of a call enters the bridge queue
Send(c) ==
    /\ pc[c] \in Calls /\ wire[c] = "unsent" /\ Len(queue) < Capacity
    /\ queue' = Append(queue, [change |-> c, op |-> pc[c], awaited |-> TRUE])
    /\ wire' = [wire EXCEPT ![c] = "sent"]
    /\ UNCHANGED <<durable, late, phase, todo, asked, pc, retry, incidents,
                   scene, cache, frozen, effect, writes>>

Orphan(entry) == [change |-> entry.change, op |-> entry.op, awaited |-> FALSE]

\* c's caller no longer waits for its entry of the queue, if there is one: an
\* apply may still run; the other operations change nothing and are left out
Abandon(c) ==
    LET entry == {i \in 1..Len(queue) : queue[i].change = c /\ queue[i].awaited}
    IN \/ entry = {} /\ UNCHANGED queue
       \/ \E i \in entry :
            queue' = IF queue[i].op = "apply" THEN [queue EXCEPT ![i] = Orphan(queue[i])]
                                             ELSE RemoveAt(queue, i)

\* A call ends without the answer of its operation: no bridge, connection
\* lost, queue full, deadline; or, not transient, failed authentication or an
\* internal failure.
CallFails(c) ==
    /\ pc[c] \in Calls /\ wire[c] \in {"unsent", "sent"}
    /\ \E error \in {"transient"} \cup (IF HardErrors THEN {"failed"} ELSE {}) :
        wire' = [wire EXCEPT ![c] = error]
    /\ Abandon(c)
    /\ UNCHANGED <<durable, late, phase, todo, asked, pc, retry, incidents,
                   scene, cache, frozen, effect, writes>>

\* _state_for_receipt
StateForReceipt(status) ==
    CASE status \in {"Applied", "AlreadyApplied"} -> "Applied"
      [] status = "RolledBack" -> "RolledBack"
      [] OTHER -> "CriticalRecovery"

\* complete_apply: receipt and state in one transaction
Complete(c, status) ==
    /\ state[c] = "Applying"
    /\ receipt' = [receipt EXCEPT ![c] = status]
    /\ state' = [state EXCEPT ![c] = StateForReceipt(status)]

\* The task goes on with another call, or ends
Goto(c, next) ==
    /\ pc' = [pc EXCEPT ![c] = next]
    /\ retry' = [retry EXCEPT ![c] = @ /\ next = "preflight"]
    /\ wire' = [wire EXCEPT ![c] = "unsent"]

\* apply with the answer of bridge.apply: the receipt, or an exception that
\* goes to recover_one and is raised if nothing was written
ApplyReturns(c) ==
    /\ pc[c] = "apply" /\ wire[c] \in Answers
    /\ IF wire[c] \in Statuses
       THEN Complete(c, wire[c]) /\ Goto(c, "idle")
       ELSE Goto(c, "receipt") /\ UNCHANGED <<state, receipt>>
    /\ UNCHANGED <<decision, bound, approvedIn, late, phase, todo, asked, incidents, houdini>>

\* Mutant: without a receipt the change is taken as not written
MutNoReceiptNoWrite(c) ==
    /\ pc[c] = "receipt" /\ wire[c] \in Answers
    /\ IF wire[c] \in Statuses THEN Complete(c, wire[c])
       ELSE state' = [state EXCEPT ![c] = "Approved"] /\ UNCHANGED receipt
    /\ Goto(c, "idle")
    /\ UNCHANGED <<decision, bound, approvedIn, late, phase, todo, asked, incidents, houdini>>

\* recover_one with the answer of bridge.receipt
ReceiptReturns(c) ==
    /\ pc[c] = "receipt" /\ wire[c] \in Answers
    /\ \/ /\ wire[c] = "transient"
          /\ Goto(c, "idle") /\ UNCHANGED <<state, receipt>>
       \/ /\ wire[c] = "unavailable"
          /\ Goto(c, "preflight") /\ UNCHANGED <<state, receipt>>
       \/ /\ wire[c] \in Statuses
          /\ Complete(c, wire[c]) /\ Goto(c, "idle")
       \/ /\ wire[c] \in Permanent
          /\ Complete(c, "CriticalRecovery") /\ Goto(c, "idle")
    /\ UNCHANGED <<decision, bound, approvedIn, late, phase, todo, asked, incidents, houdini>>

\* recover_to_approved: the consumed approval stays consumed
RecoverToApproved(c) ==
    /\ state[c] = "Applying" /\ decision[c] = "Consumed"
    /\ state' = [state EXCEPT ![c] = "Approved"]

\* recover_one with the facts: nothing was written (recover_to_approved), all
\* of it was, or it cannot be told (_commit_critical)
PreflightReturns(c) ==
    /\ pc[c] = "preflight" /\ wire[c] \in Answers
    /\ \/ /\ wire[c] = "transient"
          /\ Goto(c, "idle") /\ UNCHANGED <<state, receipt>>
       \/ /\ wire[c] = "pre"
          /\ RecoverToApproved(c)
          /\ Goto(c, IF retry[c] THEN "check" ELSE "idle")
          /\ UNCHANGED receipt
       \/ /\ wire[c] = "post"
          /\ Complete(c, "AlreadyApplied") /\ Goto(c, "idle")
       \/ /\ wire[c] \in Permanent \cup {"neither", "elsewhere"}
          /\ Complete(c, "CriticalRecovery") /\ Goto(c, "idle")
    /\ UNCHANGED <<decision, bound, approvedIn, late, phase, todo, asked, incidents, houdini>>

\* recover_changeset: the manual exit from CriticalRecovery
RecoverCritical(c) ==
    /\ phase = "up" /\ pc[c] = "idle" /\ state[c] = "CriticalRecovery"
    /\ Goto(c, "critical")
    /\ UNCHANGED <<durable, late, phase, todo, asked, incidents, houdini>>

\* recover_critical_to_recovered
ToRecovered(c) ==
    /\ state[c] = "CriticalRecovery" /\ decision[c] = "Consumed"
    /\ state' = [state EXCEPT ![c] = "Recovered"]

\* recover_critical with the facts: Recovered unless the call was transient
\* or the live scene is the change's and its postconditions do not hold
CriticalReturns(c) ==
    /\ pc[c] = "critical" /\ wire[c] \in Answers
    /\ IF wire[c] \in {"transient", "pre", "neither"}
       THEN UNCHANGED state
       ELSE ToRecovered(c)
    /\ Goto(c, "idle")
    /\ UNCHANGED <<decision, bound, approvedIn, receipt, late, phase, todo, asked,
                   incidents, houdini>>

-----------------------------------------------------------------------------
(* Death and start of the Runtime *)

\* The process dies (or shutdown cancels the apply tasks) and starts again
Crash ==
    /\ Incident
    /\ phase' = "starting"
    /\ todo' = {c \in Change : state[c] = "Applying"}
    /\ asked' = {}
    /\ pc' = [c \in Change |-> "idle"]
    /\ retry' = [c \in Change |-> FALSE]
    /\ wire' = [c \in Change |-> "unsent"]
    /\ queue' = [i \in 1..Len(queue) |-> Orphan(queue[i])]
    /\ UNCHANGED <<durable, late, scene, cache, frozen, effect, writes>>

Idle == \A c \in Change : pc[c] = "idle"

\* recover_applying visits its changes one after another
StartupRecover(c) ==
    /\ phase = "starting" /\ Idle /\ c \in todo
    /\ todo' = todo \ {c}
    /\ Goto(c, "receipt")
    /\ UNCHANGED <<durable, late, phase, asked, incidents, houdini>>

StartupDone ==
    /\ phase = "starting" /\ Idle /\ todo = {}
    /\ phase' = "up"
    /\ UNCHANGED <<durable, late, todo, asked, pc, retry, wire, incidents, houdini>>

-----------------------------------------------------------------------------
(* Houdini *)

\* Cached receipt of a change, as a set of at most one
CachedStatus(c) == {cache[i].status : i \in {j \in 1..Len(cache) : cache[j].change = c}}

\* _cache: the oldest receipts go
Cache(c, status) ==
    LET longer == Append(cache, [change |-> c, status |-> status])
    IN IF Len(longer) > CacheMax THEN Tail(longer) ELSE longer

\* Mutant: preflight looks at the binding only
MutPreflightBlind(c) ==
    IF scene.epoch # bound[c].epoch THEN {"stale"}
    ELSE IF scene # bound[c] THEN {"elsewhere", "stale"} ELSE {"pre"}

\* What the Runtime concludes of the facts of a preflight: they are of another
\* scene, the preconditions hold, every postcondition does, or neither
FactsOf(c) ==
    IF scene # bound[c] THEN "elsewhere"
    ELSE CASE effect[c] = "before" -> "pre" [] effect[c] = "after" -> "post" [] OTHER -> "neither"

\* What preflight can answer.  It is changeset.stale when a node to be created
\* is there, as it may be once the change is half or wholly written, and when
\* an edited node is no longer the one referred to.
PreflightAnswers(c) ==
    IF scene.epoch # bound[c].epoch \/ (FactsOf(c) = "post" /\ c \in Creates) THEN {"stale"}
    ELSE {FactsOf(c)} \cup
         (IF FactsOf(c) = "elsewhere" \/ effect[c] = "foreign" \/ (FactsOf(c) = "neither" /\ c \in Creates)
          THEN {"stale"} ELSE {})

\* The head of the queue has run and, if its caller waits, answers
Answer(answer) ==
    /\ wire' = IF Head(queue).awaited THEN [wire EXCEPT ![Head(queue).change] = answer] ELSE wire
    /\ queue' = Tail(queue)

\* executor.apply without a transaction: frozen, replayed or refused
ApplyRefused(c) ==
    /\ \/ frozen /\ Answer("refused")
       \/ /\ ~frozen
          /\ \E status \in CachedStatus(c) :
                Answer(IF status \in {"Applied", "AlreadyApplied"} THEN "AlreadyApplied" ELSE status)
       \/ /\ ~frozen /\ CachedStatus(c) = {}
          /\ PreflightAnswers(c) # {"pre"}
          /\ Answer("refused")
    /\ UNCHANGED <<cache, frozen, effect, writes>>

\* What a transaction may leave for the status it reports
EffectsOf(status) ==
    CASE status = "Applied" -> {"after"}
      [] status = "RolledBack" -> {"before"}
      [] OTHER -> {"before", "half", "after"}

\* executor.apply with a transaction: all of it is written and verified, a
\* failure is rolled back and verified, or neither can be told
ApplyTransaction(c) ==
    /\ ~frozen /\ CachedStatus(c) = {} /\ PreflightAnswers(c) = {"pre"}
    /\ \E status \in Statuses \ {"AlreadyApplied"}, e \in Effects :
        /\ e \in EffectsOf(status)
        /\ effect' = [effect EXCEPT ![c] = e]
        /\ writes' = [writes EXCEPT ![c] = IF e = "before" THEN @ ELSE @ + 1]
        /\ frozen' = (status = "CriticalRecovery")
        /\ cache' = Cache(c, status)
        /\ Answer(status)

\* executor.receipt; the tracked epoch is checked before the cache
ReceiptQuery(c) ==
    /\ IF scene.epoch # bound[c].epoch THEN Answer("stale")
       ELSE IF CachedStatus(c) = {} THEN Answer("unavailable")
       ELSE \E status \in CachedStatus(c) : Answer(status)
    /\ UNCHANGED <<cache, frozen, effect, writes>>

\* The main thread runs the head of the queue
Pump ==
    /\ queue # <<>>
    /\ LET c == Head(queue).change
           op == Head(queue).op
       IN \/ op = "apply" /\ ApplyRefused(c)
          \/ op = "apply" /\ ApplyTransaction(c)
          \/ op = "receipt" /\ ReceiptQuery(c)
          \/ /\ op \in {"preflight", "critical"}
             /\ \E answer \in PreflightAnswers(c) : Answer(answer)
             /\ UNCHANGED <<cache, frozen, effect, writes>>
    /\ UNCHANGED <<durable, late, phase, todo, asked, pc, retry, incidents, scene>>

\* An entry whose caller is gone expires or is cancelled
DropAbandoned ==
    /\ \E i \in 1..Len(queue) : ~queue[i].awaited /\ queue' = RemoveAt(queue, i)
    /\ UNCHANGED <<durable, late, tasks, incidents, scene, cache, frozen, effect, writes>>

\* The user loads or clears the scene: _on_scene_event
LoadScene ==
    /\ Incident
    /\ scene' = [instance |-> scene.instance, epoch |-> scene.epoch + 1]
    /\ UNCHANGED <<durable, late, tasks, queue, cache, frozen, effect, writes>>

\* The user edits what the change touches
EditScene(c) ==
    /\ scene = bound[c] /\ effect[c] # "foreign" /\ Incident
    /\ effect' = [effect EXCEPT ![c] = "foreign"]
    /\ UNCHANGED <<durable, late, tasks, scene, queue, cache, frozen, writes>>

\* A new Houdini process, or a new bridge in the same one, which forgets the
\* receipts, the freeze and the queue and counts epochs from 1.  In the same
\* process it is taken before any scene is loaded: later the binding of the
\* first scene would name another.
RestartHoudini ==
    /\ Incident
    /\ \/ scene' = [instance |-> scene.instance + 1, epoch |-> 1]
       \/ /\ scene.epoch = 1
          /\ <<queue, cache, frozen>> # <<<<>>, <<>>, FALSE>>
          /\ UNCHANGED scene
    /\ queue' = <<>> /\ cache' = <<>> /\ frozen' = FALSE
    /\ UNCHANGED <<durable, late, tasks, effect, writes>>

-----------------------------------------------------------------------------
Task(c) == \/ EnsureWriteAvailable(c) \/ BeginApply(c) \/ Send(c) \/ CallFails(c)
           \/ ApplyReturns(c) \/ ReceiptReturns(c) \/ PreflightReturns(c) \/ CriticalReturns(c)
User(c) == Propose(c) \/ ApproveRead(c) \/ Approve(c) \/ Reject(c) \/ TrustedApply(c) \/ RecoverCritical(c)

Next ==
    \/ \E c \in Change : Task(c) \/ User(c) \/ Expire(c) \/ StartupRecover(c) \/ EditScene(c)
    \/ StartupDone \/ Crash \/ Pump \/ DropAbandoned \/ LoadScene \/ RestartHoudini

Spec == Init /\ [][Next]_vars

-----------------------------------------------------------------------------
(* Properties *)

Settled == {"Applied", "RolledBack", "CriticalRecovery", "Recovered"}
NotWritten == {"None", "AwaitingApproval", "Approved", "Rejected", "Expired", "RolledBack"}
Pending(c) == \E i \in 1..Len(queue) : queue[i].change = c /\ queue[i].op = "apply"

\* begin_apply (repository.py) is the only door to the scene: whatever has
\* been written, may still be written or is recorded as applied rests on an
\* approval that was consumed and that was given in the scene the change is
\* bound to, however approvals, expiry, retries and restarts interleave.
ConsentCoversWrite ==
    \A c \in Change :
        writes[c] > 0 \/ Pending(c) \/ state[c] \in {"Applying"} \cup Settled =>
            decision[c] = "Consumed" /\ approvedIn[c] = bound[c]

\* recover_one and the executor's cache together never write a change twice,
\* although calls time out while their transaction runs, receipts are evicted
\* and either process may be restarted between any two steps.
WrittenAtMostOnce == \A c \in Change : writes[c] <= 1

\* What complete_apply and recover_to_approved record is true of the scene: an
\* applied change was written, and one recorded as not written neither was
\* nor has a request left in the bridge queue that could still write it.
OutcomeIsTruth ==
    \A c \in Change :
        /\ state[c] = "Applied" => writes[c] = 1
        /\ state[c] \in NotWritten => writes[c] = 0
        /\ state[c] \in NotWritten \cup {"Applied"} => ~Pending(c)

\* The three rows of a change agree (changesets, approvals, receipts): there
\* is a receipt exactly when the change is settled and it is of its state, and
\* an undecided, rejected or expired approval has its own state.
RecordsAgree ==
    \A c \in Change :
        /\ receipt[c] # "None" <=> state[c] \in Settled
        /\ state[c] \in Settled =>
             StateForReceipt(receipt[c]) =
               (IF state[c] = "Recovered" THEN "CriticalRecovery" ELSE state[c])
        /\ decision[c] = "Pending" <=> state[c] = "AwaitingApproval"
        /\ decision[c] \in {"Rejected", "Expired"} => state[c] = decision[c]
        /\ decision[c] = "Approved" => state[c] = "Approved"

\* What is on record of a change is true: of the scene, and of one another's rows.
RecordsAreTrue == OutcomeIsTruth /\ RecordsAgree

\* recover_critical gives a change up only on "positive evidence the outcome
\* no longer affects any live scene" (service.py): a recovered change is not
\* half written in the scene that is open.
RecoveredIsSafe ==
    \A c \in Change :
        state[c] = "Recovered" => ~(scene = bound[c] /\ effect[c] = "half")
=============================================================================
