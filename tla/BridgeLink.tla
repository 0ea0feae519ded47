----------------------------- MODULE BridgeLink -----------------------------
(***************************************************************************)
(* The link between the Runtime and the Houdini bridges: identity files    *)
(* published and removed by every bridge host (houdini_bridge/auth.py,     *)
(* houdini_side/secure_bridge_host.py), the short-lived authenticated      *)
(* client of each provider call (houdini_bridge/client.py,                 *)
(* changeset_provider.py, read_only_provider.py) and the server's typed    *)
(* dispatch to the main thread (houdini_side/secure_bridge.py).            *)
(*                                                                         *)
(* A bridge is one run of SecureBridgeHost: its token, fingerprint, nonce  *)
(* and port are fresh, so the bridge itself stands for all four.  What the *)
(* main-thread queue does with an item is modelled in MainThreadQueue;     *)
(* here an item is run, cancelled, expired or dropped in one step.         *)
(***************************************************************************)
EXTENDS Naturals, Sequences, FiniteSets, SequencesExt, BridgeOperations

CONSTANTS
    Bridges,        \* host runs, each started at most once
    Processes,      \* Houdini processes
    Calls,          \* provider calls
    Setups,         \* [runs, ask, caps, proc]: the host runs and the calls of one
                    \* instance, ask[c] the operation call c is for, caps[b]
                    \* the capabilities of bridge b and proc[b] its process
    MaxLoads,       \* bound: scenes loaded or cleared in one process
    None

ASSUME LinkAssumption ==
    /\ \A u \in Setups :
        /\ u.runs \subseteq Bridges
        /\ u.ask \in [Calls -> Operations \cup {None}]
        /\ u.proc \in [Bridges -> Processes]
        /\ u.caps \in [Bridges -> SUBSET {Serve[op].needs : op \in Operations}]
    /\ MaxLoads \in Nat
    /\ None \notin Bridges

VARIABLES
    kind,           \* kind[c]: the operation call c asks for
    caps,           \* caps[b]: BridgeServer._capabilities
    proc,           \* proc[b]: the Houdini process that runs bridge b
    host,           \* host[b]: where the host's lifecycle is
    tokenFile,      \* whose token bridge.token holds
    discFile,       \* whose fingerprint and port the discovery file holds
    loads,          \* loads[p]: scenes opened so far; <<p, loads[p]>> is the scene
    epoch,          \* epoch[b]: the adapter's _scene_epoch
    frozen,         \* frozen[b]: the executor's _write_frozen
    queue,          \* queue[b]: calls whose request waits for the main thread
    call,           \* call[c]: the provider's and the client's locals
    link,           \* link[c]: the connection as both ends see it
    writes          \* writes[c]: history of the writes made for call c

hosts == <<kind, caps, proc, host, tokenFile, discFile, loads, epoch>>
vars == <<hosts, frozen, queue, call, link, writes>>

Listening == {"bound", "tokened", "serving"}
\* and where it does not, "kept" and "littered" with a file that could not be removed
Shut == {"off", "closing", "untokened", "kept", "gone", "littered", "crashed"}
Scene(p) == <<p, loads[p]>>

\* what the call asks of the bridge now: every call first reads the binding
Operation(c) == IF call[c].leg = "binding" THEN "inspect" ELSE kind[c]
Writes(c) == Serve[Operation(c)].writes
MayChange(c) == Client[Operation(c)].may

Scenes == (Processes \X Nat) \cup {None}
\* an envelope without a result
Refusal(code) == [code |-> code, epoch |-> 0, scene |-> None]
Linked(to, up) == [to |-> to, up |-> up, req |-> "none", ans |-> Refusal("none")]

\* a client that has read nothing yet, with the binding its provider gives it
Fresh(at, leg, attempt, known, seen) ==
    [at |-> at, leg |-> leg, attempt |-> attempt, port |-> None, print |-> None,
     token |-> None, epoch |-> known, seen |-> seen, code |-> "none", may |-> FALSE]

Codes == {"none", "ok", "not_available", "auth_failed", "unauthorized", "write_frozen",
          "capability_unavailable", "deadline_exceeded", "stale_scene"}
CallTypes ==
    [at : {"idle", "look", "port", "print", "token", "dial", "hello", "ready", "wait", "done"},
     leg : {"binding", "op"}, attempt : {1, 2}, port : Bridges \cup {None},
     print : Bridges \cup {None}, token : Bridges \cup {None}, epoch : Nat,
     seen : Scenes, code : Codes, may : BOOLEAN]
LinkTypes ==
    [to : Bridges \cup {None}, up : BOOLEAN, req : {"none", "sent", "queued", "answered"},
     ans : [code : Codes, epoch : Nat, scene : Scenes]]

TypeOK ==
    /\ kind \in [Calls -> Operations \cup {None}]
    /\ proc \in [Bridges -> Processes]
    /\ host \in [Bridges -> Listening \cup Shut]
    /\ {tokenFile, discFile} \subseteq Bridges \cup {None}
    /\ loads \in [Processes -> 0 .. MaxLoads]
    /\ epoch \in [Bridges -> 1 .. MaxLoads + 1]
    /\ frozen \in [Bridges -> BOOLEAN]
    /\ queue \in [Bridges -> Seq(Calls)]
    /\ call \in [Calls -> CallTypes]
    /\ link \in [Calls -> LinkTypes]
    /\ writes \in [Calls -> Seq([by : Bridges, scene : Scenes, frozen : BOOLEAN])]

Init ==
    /\ \E u \in Setups :
        /\ kind = u.ask
        /\ caps = u.caps
        /\ proc = u.proc
        /\ host = [b \in Bridges |-> IF b \in u.runs THEN "off" ELSE "gone"]
    /\ tokenFile = None /\ discFile = None
    /\ loads = [p \in Processes |-> 0]
    /\ epoch = [b \in Bridges |-> 1]
    /\ frozen = [b \in Bridges |-> FALSE]
    /\ queue = [b \in Bridges |-> <<>>]
    /\ call = [c \in Calls |-> Fresh("idle", "binding", 1, 0, None)]
    /\ link = [c \in Calls |-> Linked(None, FALSE)]
    /\ writes = [c \in Calls |-> <<>>]

-----------------------------------------------------------------------------
(* The hosts and the scenes *)

\* SecureBridgeHost.start: one running host per process; the listener is bound
\* before anything is published
Bind(b) ==
    /\ host[b] = "off"
    /\ \A o \in Bridges : proc[o] = proc[b] => host[o] \in {"off", "gone", "littered"}
    /\ host' = [host EXCEPT ![b] = "bound"]
    /\ UNCHANGED <<kind, caps, proc, tokenFile, discFile, loads, epoch, frozen, queue, call, link, writes>>

\* write_bridge_identity_files: the token first, the discovery file second; a
\* failure of either removes both, as far as they can be, and the server closes
PublishToken(b) ==
    /\ host[b] = "bound"
    /\ \/ host' = [host EXCEPT ![b] = "tokened"] /\ tokenFile' = b /\ UNCHANGED discFile
       \/ /\ host' = [host EXCEPT ![b] = "closing"]
          /\ \/ tokenFile' = None /\ discFile' = None
             \/ UNCHANGED <<tokenFile, discFile>>
    /\ UNCHANGED <<kind, caps, proc, loads, epoch, frozen, queue, call, link, writes>>

PublishDiscovery(b) ==
    /\ host[b] = "tokened"
    /\ \/ host' = [host EXCEPT ![b] = "serving"] /\ discFile' = b /\ UNCHANGED tokenFile
       \/ /\ host' = [host EXCEPT ![b] = "closing"]
          /\ \/ tokenFile' = None /\ discFile' = None
             \/ UNCHANGED <<tokenFile, discFile>>
    /\ UNCHANGED <<kind, caps, proc, loads, epoch, frozen, queue, call, link, writes>>

\* SecureBridgeHost.stop and BridgeServer.close: queued items are rejected and
\* the writers closed (what the clients see is Lost), then the files go
CloseServer(b) ==
    /\ host[b] = "serving"
    /\ host' = [host EXCEPT ![b] = "closing"]
    /\ queue' = [queue EXCEPT ![b] = <<>>]
    /\ UNCHANGED <<kind, caps, proc, tokenFile, discFile, loads, epoch, frozen, call, link, writes>>

\* remove_bridge_identity_files: both files go, whoever published them; an unlink that
\* fails is passed over
RemoveToken(b) ==
    /\ host[b] = "closing"
    /\ \/ host' = [host EXCEPT ![b] = "untokened"] /\ tokenFile' = None
       \/ host' = [host EXCEPT ![b] = "kept"] /\ UNCHANGED tokenFile
    /\ UNCHANGED <<kind, caps, proc, discFile, loads, epoch, frozen, queue, call, link, writes>>

RemoveDiscovery(b) ==
    /\ \/ /\ host[b] = "untokened"
          /\ host' = [host EXCEPT ![b] = "gone"] /\ discFile' = None
       \/ /\ host[b] \in {"untokened", "kept"}
          /\ host' = [host EXCEPT ![b] = "littered"] /\ discFile' \in {discFile, None}
    /\ UNCHANGED <<kind, caps, proc, tokenFile, loads, epoch, frozen, queue, call, link, writes>>

\* a Houdini process dies: its files stay behind
Crash(b) ==
    /\ host[b] \in Listening
    /\ host' = [host EXCEPT ![b] = "crashed"]
    /\ queue' = [queue EXCEPT ![b] = <<>>]
    /\ UNCHANGED <<kind, caps, proc, tokenFile, discFile, loads, epoch, frozen, call, link, writes>>

\* _on_scene_event: the epoch moves only while the adapter's callback is installed
LoadScene(p) ==
    /\ loads[p] < MaxLoads
    /\ \A b \in Bridges : proc[b] = p => host[b] \notin {"bound", "tokened", "crashed"}
    /\ loads' = [loads EXCEPT ![p] = @ + 1]
    /\ epoch' = [b \in Bridges |->
                    IF proc[b] = p /\ host[b] = "serving" THEN epoch[b] + 1 ELSE epoch[b]]
    /\ UNCHANGED <<kind, caps, proc, host, tokenFile, discFile, frozen, queue, call, link, writes>>

-----------------------------------------------------------------------------
(* The client's side of a call *)

\* the call ends; its connection, if any, is closed by _abort or __aexit__
Ended(c, code, may) ==
    [at |-> "done", leg |-> call[c].leg, attempt |-> 1, port |-> None, print |-> None,
     token |-> call[c].token, epoch |-> call[c].epoch, seen |-> call[c].seen,
     code |-> code, may |-> may]
End(c, code, may) ==
    /\ call' = [call EXCEPT ![c] = Ended(c, code, may)]
    /\ link' = [link EXCEPT ![c].up = FALSE]

Goto(c, at) == call' = [call EXCEPT ![c].at = at]

Start(c) ==
    /\ call[c].at = "idle" /\ kind[c] # None
    /\ Goto(c, "look")
    /\ UNCHANGED <<hosts, frozen, queue, link, writes>>

\* _call: without both files the bridge is not available, and nothing was sent
CheckHandoff(c) ==
    /\ call[c].at = "look"
    /\ IF None \in {tokenFile, discFile}
       THEN End(c, "not_available", FALSE)
       ELSE Goto(c, "port") /\ UNCHANGED link
    /\ UNCHANGED <<hosts, frozen, queue, writes>>

\* a file is missing or does not match: the handler looks at the files once more
HandoffFailed(c) ==
    End(c, IF None \in {tokenFile, discFile} THEN "not_available" ELSE "auth_failed", FALSE)

\* from_state_dir reads the port, load_bridge_identity then reads the discovery
\* file again for the fingerprint, and the token file last
ReadPort(c) ==
    /\ call[c].at = "port"
    /\ IF discFile = None
       THEN HandoffFailed(c)
       ELSE call' = [call EXCEPT ![c].at = "print", ![c].port = discFile] /\ UNCHANGED link
    /\ UNCHANGED <<hosts, frozen, queue, writes>>

ReadFingerprint(c) ==
    /\ call[c].at = "print"
    /\ IF discFile = None
       THEN HandoffFailed(c)
       ELSE call' = [call EXCEPT ![c].at = "token", ![c].print = discFile] /\ UNCHANGED link
    /\ UNCHANGED <<hosts, frozen, queue, writes>>

ReadToken(c) ==
    /\ call[c].at = "token"
    /\ IF tokenFile # call[c].print
       THEN HandoffFailed(c)
       ELSE call' = [call EXCEPT ![c].at = "dial", ![c].token = tokenFile] /\ UNCHANGED link
    /\ UNCHANGED <<hosts, frozen, queue, writes>>

\* open_connection on the port that was read first
Dial(c) ==
    /\ call[c].at = "dial"
    /\ IF host[call[c].port] \in Listening
       THEN /\ Goto(c, "hello")
            /\ link' = [link EXCEPT ![c] = Linked(call[c].port, TRUE)]
       ELSE End(c, "not_available", MayChange(c))
    /\ UNCHANGED <<hosts, frozen, queue, writes>>

\* mutant: the hello checks the protocol and the kind, not the token
ValidHelloAny(b, token) == token \in Bridges

\* _validate_hello
ValidHello(b, token) == token = b

Capable(b, party) == party.needs \in caps[b] \cup {"none"}

\* _handshake on both sides, and the capability check before the first frame
Handshake(c) ==
    /\ call[c].at = "hello"
    /\ host[link[c].to] \in Listening
    /\ IF ~ValidHello(link[c].to, call[c].token)
       THEN End(c, "unauthorized", MayChange(c))
       ELSE IF ~Capable(link[c].to, Client[Operation(c)])
       THEN End(c, "capability_unavailable", MayChange(c))
       ELSE Goto(c, "ready") /\ UNCHANGED link
    /\ UNCHANGED <<hosts, frozen, queue, writes>>

Send(c) ==
    /\ call[c].at = "ready"
    /\ Goto(c, "wait")
    /\ link' = [link EXCEPT ![c].req = "sent", ![c].ans = Refusal("none")]
    /\ UNCHANGED <<hosts, frozen, queue, writes>>

\* the bridge closed the connection or died: IncompleteRead, or OSError
Lost(c) ==
    /\ call[c].at \in {"hello", "ready", "wait"}
    /\ host[link[c].to] \notin Listening
    /\ End(c, "not_available", MayChange(c))
    /\ UNCHANGED <<hosts, frozen, queue, writes>>

\* mutant: a timed-out binding read and a timed-out write are reported alike
TimeoutCertain(c) ==
    /\ call[c].at \in {"dial", "hello", "ready", "wait"}
    /\ End(c, "deadline_exceeded", FALSE)
    /\ UNCHANGED <<hosts, frozen, queue, writes>>

\* mutant: the deadline covers connecting only
TimeoutConnecting(c) ==
    /\ call[c].at \in {"dial", "hello"}
    /\ End(c, "deadline_exceeded", MayChange(c))
    /\ UNCHANGED <<hosts, frozen, queue, writes>>

\* asyncio.timeout of _exchange or of the provider: close, and never wait longer
Timeout(c) ==
    /\ call[c].at \in {"dial", "hello", "ready", "wait"}
    /\ End(c, "deadline_exceeded", MayChange(c))
    /\ UNCHANGED <<hosts, frozen, queue, writes>>

\* what a later leg or attempt starts from
Reconnect(c, leg, attempt, known, seen) ==
    /\ call' = [call EXCEPT ![c] = Fresh("look", leg, attempt, known, seen)]
    /\ link' = [link EXCEPT ![c].up = FALSE]

\* the binding arrived: a query goes on over the same connection, a write opens
\* another one
TakeBinding(c) ==
    /\ call[c].leg = "binding" /\ link[c].ans.code = "ok"
    /\ IF Client[kind[c]].reuses
       THEN /\ call' = [call EXCEPT ![c].at = "ready", ![c].leg = "op",
                            ![c].epoch = link[c].ans.epoch, ![c].seen = link[c].ans.scene]
            /\ link' = [link EXCEPT ![c].req = "none"]
       ELSE Reconnect(c, "op", 1, link[c].ans.epoch, link[c].ans.scene)

\* a stale query is repeated once, from the files on
RetryStale(c) ==
    /\ kind[c] = "query" /\ call[c].leg = "op" /\ call[c].attempt = 1
    /\ link[c].ans.code = "stale_scene"
    /\ Reconnect(c, "binding", 2, 0, None)

TakeAnswer(c) ==
    /\ call[c].at = "wait" /\ link[c].req = "answered"
    /\ \/ TakeBinding(c)
       \/ RetryStale(c)
       \/ /\ call[c].leg = "op" \/ link[c].ans.code # "ok"
          /\ ~(kind[c] = "query" /\ call[c].attempt = 1 /\ link[c].ans.code = "stale_scene")
          /\ End(c, link[c].ans.code, link[c].ans.code # "ok" /\ MayChange(c))
    /\ UNCHANGED <<hosts, frozen, queue, writes>>

-----------------------------------------------------------------------------
(* The server's side *)

Answer(c, ans) == link' = [link EXCEPT ![c].req = "answered", ![c].ans = ans]

\* _serve and the handler: an unadvertised operation is refused, and so, here on
\* the network thread, is a gated one while writes are frozen; the rest goes to
\* the main-thread queue
Receive(c) ==
    /\ link[c].req = "sent"
    /\ host[link[c].to] \in Listening
    /\ IF ~Capable(link[c].to, Serve[Operation(c)])
       THEN Answer(c, Refusal("capability_unavailable")) /\ UNCHANGED queue
       ELSE IF Serve[Operation(c)].gated /\ frozen[link[c].to]
       THEN Answer(c, Refusal("write_frozen")) /\ UNCHANGED queue
       ELSE /\ queue' = [queue EXCEPT ![link[c].to] = Append(@, c)]
            /\ link' = [link EXCEPT ![c].req = "queued"]
    /\ UNCHANGED <<hosts, frozen, call, writes>>

Unqueue(c) ==
    \E i \in DOMAIN queue[link[c].to] :
        /\ queue[link[c].to][i] = c
        /\ queue' = [queue EXCEPT ![link[c].to] = RemoveAt(@, i)]

\* _await_queued: the client is gone, the queued item is cancelled
Cancel(c) ==
    /\ link[c].req = "queued" /\ ~link[c].up
    /\ Unqueue(c)
    /\ link' = [link EXCEPT ![c].req = "none"]
    /\ UNCHANGED <<hosts, frozen, call, writes>>

\* the item's own deadline passes in the queue
Expire(c) ==
    /\ link[c].req = "queued"
    /\ Unqueue(c)
    /\ Answer(c, Refusal("deadline_exceeded"))
    /\ UNCHANGED <<hosts, frozen, call, writes>>

\* the first test of a main-thread operation
Stale(b, c) ==
    \/ "epoch" \in Serve[Operation(c)].checks /\ call[c].epoch # epoch[b]
    \/ "instance" \in Serve[Operation(c)].checks /\ call[c].seen[1] # proc[b]

Result(b) == [code |-> "ok", epoch |-> epoch[b], scene |-> Scene(proc[b])]

\* pump_one with the operation it runs: a bounded read, or a write; an apply
\* freezes further writes when its recovery is uncertain.  Only some operations
\* look at the freeze again before they write.
Pump(b) ==
    /\ host[b] \in Listening /\ queue[b] # <<>>
    /\ queue' = [queue EXCEPT ![b] = Tail(@)]
    /\ LET c == Head(queue[b]) IN
        \/ /\ Stale(b, c)
           /\ Answer(c, Refusal("stale_scene"))
           /\ UNCHANGED <<writes, frozen>>
        \/ /\ ~Stale(b, c) /\ Serve[Operation(c)].again /\ frozen[b]
           /\ Answer(c, Refusal("write_frozen"))
           /\ UNCHANGED <<writes, frozen>>
        \/ /\ ~Stale(b, c) /\ ~Writes(c)
           /\ Answer(c, Result(b))
           /\ UNCHANGED <<writes, frozen>>
        \/ /\ ~Stale(b, c) /\ Writes(c) /\ ~(Serve[Operation(c)].again /\ frozen[b])
           /\ Answer(c, Result(b))
           /\ writes' = [writes EXCEPT ![c] =
                            Append(@, [by |-> b, scene |-> Scene(proc[b]), frozen |-> frozen[b]])]
           /\ \E critical \in IF kind[c] = "apply" THEN BOOLEAN ELSE {FALSE} :
                frozen' = [frozen EXCEPT ![b] = @ \/ critical]
    /\ UNCHANGED <<hosts, call>>

-----------------------------------------------------------------------------
ClientStep(c) ==
    \/ CheckHandoff(c) \/ ReadPort(c) \/ ReadFingerprint(c) \/ ReadToken(c)
    \/ Dial(c) \/ Handshake(c) \/ Send(c) \/ TakeAnswer(c) \/ Lost(c) \/ Timeout(c)

Next ==
    \/ \E b \in Bridges :
        \/ Bind(b) \/ PublishToken(b) \/ PublishDiscovery(b) \/ CloseServer(b)
        \/ RemoveToken(b) \/ RemoveDiscovery(b) \/ Crash(b) \/ Pump(b)
    \/ \E p \in Processes : LoadScene(p)
    \/ \E c \in Calls : Start(c) \/ ClientStep(c) \/ Receive(c) \/ Cancel(c) \/ Expire(c)

\* The client's own steps are asyncio callbacks of a live Runtime and its timers
\* fire; nothing is assumed of the bridges, of Houdini or of the network.
Fairness == \A c \in Calls : WF_vars(ClientStep(c))

Spec == Init /\ [][Next]_vars /\ Fairness

-----------------------------------------------------------------------------
(* Properties *)

Pending(c) ==
    /\ link[c].req \in {"sent", "queued"} /\ host[link[c].to] \in Listening
    /\ Writes(c)

\* A call that fails with scene_may_have_changed = False has written nothing and
\* will write nothing: no request of it is on its way to a bridge or waits in a
\* main-thread queue (_bridge_error, _not_available and _auth_failed of the provider).
HonestCertainty ==
    \A c \in Calls : call[c].at = "done" /\ ~call[c].may /\ call[c].code # "ok" =>
        writes[c] = <<>> /\ ~Pending(c)

\* A write whose call returned normally was made exactly once, by the bridge
\* whose token the call presented; and whatever happens to the connection, no
\* request is executed twice.
AnswerIsOwn ==
    \A c \in Calls :
        /\ Len(writes[c]) <= 1
        /\ call[c].at = "done" /\ call[c].code = "ok" /\ Serve[kind[c]].writes =>
            Len(writes[c]) = 1 /\ writes[c][1].by = call[c].token

\* The two reads of _scene_query saw one scene: what the query returns belongs
\* to the binding it is returned with, through reloads, restarts and the retry.
ReadsAgree ==
    \A c \in Calls : call[c].at = "done" /\ call[c].code = "ok" /\ Client[kind[c]].reuses =>
        link[c].ans.scene = call[c].seen

\* When every bridge that ran has been closed and could remove the files, none is left, however
\* their publications and removals overlapped: a call is told "not available"
\* rather than dialling a dead port.
NothingLeftBehind ==
    (\A b \in Bridges : host[b] \in {"off", "gone"}) => tokenFile = None /\ discFile = None

\* What a client is told is its own: the answer is that of the bridge and the scene it
\* asked about, executed once, and no ended bridge leaves a file that leads it astray.
AnswersAreOwn == AnswerIsOwn /\ ReadsAgree /\ NothingLeftBehind

\* Every call returns, even if the bridge hangs, restarts or dies
EveryCallReturns ==
    (\E c \in Calls : call[c].at # "idle") ~> (\A c \in Calls : call[c].at \in {"idle", "done"})

\* "A frozen bridge refuses the sandbox op before any HOM access"
\* (_serve_scratch_exec): no sandbox write starts while writes are frozen
FrozenRefusesSandbox ==
    \A c \in Calls : kind[c] \in {"exec", "commit"} =>
        \A i \in DOMAIN writes[c] : ~writes[c][i].frozen

\* "A request with an older epoch fails with bridge.stale_scene": a write lands
\* in the scene its binding was read from
LandsWhereObserved ==
    \A c \in Calls : \A i \in DOMAIN writes[c] : writes[c][i].scene = call[c].seen
=============================================================================
