-------------------------- MODULE BridgeLinkProofs --------------------------
(***************************************************************************)
(* What a provider may say of a call, proved for any number of bridges,    *)
(* processes, calls and scene loads.  The invariant follows one call from  *)
(* the identity files to its answer (Journey, a predicate of that call's   *)
(* own state), the main-thread queues (Queued), the binding a query holds  *)
(* (Observed) and the identity files (Files).                              *)
(***************************************************************************)
EXTENDS BridgeLink, SequencesExt, SequenceTheorems, TLAPS

\* RemoveAt takes out one element and keeps the order of the others
LEMMA RemoveAtProperties ==
    ASSUME NEW S, NEW s \in Seq(S), NEW k \in 1..Len(s)
    PROVE  /\ RemoveAt(s, k) \in Seq(S)
           /\ Len(RemoveAt(s, k)) = Len(s) - 1
           /\ \A i \in 1..Len(s) - 1 : RemoveAt(s, k)[i] = s[IF i < k THEN i ELSE i + 1]
  <1>1. PICK l, r : l = SubSeq(s, 1, k - 1) /\ r = SubSeq(s, k + 1, Len(s)) OBVIOUS
  <1>2. l \in Seq(S) /\ Len(l) = k - 1 /\ \A i \in 1..k - 1 : l[i] = s[i] BY <1>1
  <1>3. r \in Seq(S) /\ Len(r) = Len(s) - k /\ \A i \in 1..Len(s) - k : r[i] = s[k + i] BY <1>1
  <1>4. PICK q : /\ q = RemoveAt(s, k) /\ q \in Seq(S) /\ Len(q) = Len(l) + Len(r)
                 /\ \A i \in 1..Len(l) + Len(r) : q[i] = IF i <= Len(l) THEN l[i] ELSE r[i - Len(l)]
    <2>1. /\ l \o r \in Seq(S) /\ Len(l \o r) = Len(l) + Len(r)
          /\ \A i \in 1..Len(l) + Len(r) : (l \o r)[i] = IF i <= Len(l) THEN l[i] ELSE r[i - Len(l)]
      BY <1>2, <1>3, ConcatProperties
    <2>2. RemoveAt(s, k) = l \o r BY <1>1 DEF RemoveAt
    <2> QED BY <2>1, <2>2, Zenon
  <1>5. Len(s) \in Nat /\ Len(q) = Len(s) - 1 BY <1>2, <1>3, <1>4
  <1>6. ASSUME NEW i \in 1..Len(s) - 1 PROVE q[i] = s[IF i < k THEN i ELSE i + 1]
    <2>1. q[i] = IF i <= k - 1 THEN l[i] ELSE r[i - (k - 1)] BY <1>2, <1>3, <1>4
    <2>2. CASE i < k BY <1>2, <2>1, <2>2
    <2>3. CASE ~(i < k)
      <3>1. i - (k - 1) \in 1..Len(s) - k /\ k + (i - (k - 1)) = i + 1 /\ ~(i <= k - 1) BY <1>5, <2>3
      <3> QED BY <1>3, <2>1, <2>3, <3>1
    <2> QED BY <2>2, <2>3
  <1> QED BY <1>4, <1>5, <1>6

\* what a call in this leg asks of the bridge
Asked(k, leg) == IF leg = "binding" THEN "inspect" ELSE k

NotSent == {"idle", "look", "port", "print", "token", "dial", "hello", "ready"}
InFlight == {"sent", "queued"}

\* the parts a call has learnt when it needs them
Equipped(k, cl, lk) ==
    /\ cl.at # "idle" => k \in Operations
    /\ cl.at \in {"print", "token", "dial"} => cl.port \in Bridges
    /\ cl.at = "token" => cl.print \in Bridges
    /\ cl.at \in {"hello", "ready", "wait"} => lk.to \in Bridges
    /\ cl.at \in {"ready", "wait"} => cl.token = lk.to
    /\ cl.leg = "op" /\ Client[k].reuses => cl.at \in {"ready", "wait", "done"}

\* a request is under way only for a call that waits or has given up
Requested(cl, lk, ws) ==
    /\ cl.at \in NotSent => lk.req \notin InFlight /\ ws = <<>>
    /\ lk.req \in InFlight => lk.to \in Bridges /\ cl.token = lk.to /\ ws = <<>>

\* a write leaves its answer behind, and an answered write was made
Written(k, cl, lk, ws) ==
    /\ ws # <<>> => /\ Len(ws) = 1 /\ ws[1].by = cl.token
                    /\ lk.req = "answered" /\ lk.ans.code = "ok"
                    /\ cl.leg = "op" /\ Serve[k].writes
    /\ cl.at = "wait" /\ cl.leg = "op" /\ lk.req = "answered" /\ lk.ans.code = "ok"
       /\ Serve[k].writes => ws # <<>>
    /\ cl.at = "done" /\ cl.code = "ok" =>
        /\ cl.leg = "op" /\ lk.req = "answered" /\ lk.ans.code = "ok"
        /\ Serve[k].writes => ws # <<>>

\* who reports certainty has no write behind it or ahead of it
Certain(k, cl, lk, ws) ==
    cl.at = "done" /\ ~cl.may /\ cl.code # "ok" =>
        /\ ws = <<>>
        /\ lk.req \in InFlight => ~Serve[Asked(k, cl.leg)].writes

\* an answered query belongs to the binding it was sent with
Agreed(k, cl, lk) ==
    cl.leg = "op" /\ Client[k].reuses /\ lk.req = "answered" /\ lk.ans.code = "ok" =>
        lk.ans.scene = cl.seen

Journey(k, cl, lk, ws) ==
    /\ Equipped(k, cl, lk)
    /\ Requested(cl, lk, ws)
    /\ Written(k, cl, lk, ws)
    /\ Certain(k, cl, lk, ws)
    /\ Agreed(k, cl, lk)

Journeys == \A c \in Calls : Journey(kind[c], call[c], link[c], writes[c])

\* an epoch a bridge once gave out: while it is the bridge's epoch and the bridge
\* listens, the scene it was read from is still loaded
Current(b, known, scene) ==
    /\ known <= epoch[b]
    /\ known = epoch[b] /\ host[b] \in Listening => scene = Scene(proc[b])

Binding(k, cl, lk) ==
    /\ cl.at = "wait" /\ cl.leg = "binding" /\ lk.req = "answered" /\ lk.ans.code = "ok" =>
        Current(lk.to, lk.ans.epoch, lk.ans.scene)
    /\ cl.leg = "op" /\ Client[k].reuses /\ (cl.at \in {"ready", "wait"} \/ lk.req \in InFlight) =>
        Current(lk.to, cl.epoch, cl.seen)

Observed ==
    /\ \A c \in Calls : link[c].to \in Bridges => host[link[c].to] # "off"
    /\ \A c \in Calls : Binding(kind[c], call[c], link[c])
    /\ \A b \in Bridges : epoch[b] <= loads[proc[b]] + 1

\* a main-thread queue holds the requests of its own connections, each once
Queued ==
    /\ \A b \in Bridges : \A i \in 1 .. Len(queue[b]) :
        link[queue[b][i]].req = "queued" /\ link[queue[b][i]].to = b
    /\ \A b \in Bridges : \A i, j \in 1 .. Len(queue[b]) :
        queue[b][i] = queue[b][j] => i = j

\* an identity file names a bridge whose own removal is still to come
Files ==
    /\ \A b \in Bridges : tokenFile = b => host[b] \in {"tokened", "serving", "closing", "kept", "littered",
                                                  "crashed"}
    /\ \A b \in Bridges : discFile = b => host[b] \in {"serving", "closing", "untokened", "kept",
                                                 "littered", "crashed"}

IInv == TypeOK /\ Journeys /\ Observed /\ Queued /\ Files

-----------------------------------------------------------------------------
(* The table of operations *)

\* The twelve operations of the bridge
LEMMA OperationNames ==
    Operations = {"inspect", "query", "preflight", "apply", "receipt", "sample",
                  "capture", "exec", "commit", "destroy", "delete", "topology"}
  BY DEF Operations, Serve

\* What the client's table and the server's table owe each other: a method that
\* reports certainty is served without a write, the binding is read without one,
\* and an operation that goes on over the connection of its binding compares the
\* epoch and writes nothing.
LEMMA TablesAgree ==
    /\ "inspect" \in Operations
    /\ ~Serve["inspect"].writes
    /\ \A op \in Operations : Client[op].may \in BOOLEAN
    /\ \A op \in Operations : Serve[op].writes => Client[op].may
    /\ \A op \in Operations : Client[op].reuses =>
          "epoch" \in Serve[op].checks /\ ~Serve[op].writes
  <1> USE DEF Serve, Client, Handler, Method, ServeInspect, ServeQuery, ServePreflight,
        ServeApply, ServeReceipt, ServeSample, ServeCapture, ServeExec, ServeCommit,
        ServeDestroy, ServeDelete, ServeTopology, ClientInspect, ClientQuery,
        ClientPreflight, ClientApply, ClientReceipt, ClientSample, ClientCapture,
        ClientExec, ClientCommit, ClientDestroy, ClientDelete, ClientTopology
  <1>1. "inspect" \in Operations BY OperationNames
  <1>2. ~Serve["inspect"].writes OBVIOUS
  <1>3. \A op \in Operations : Client[op].may \in BOOLEAN
    <2>1. \A op \in Operations : Client[op].may = TRUE \/ Client[op].may = FALSE
      BY OperationNames
    <2> QED BY <2>1, Zenon
  <1>4. \A op \in Operations : Serve[op].writes => Client[op].may
    BY OperationNames
  <1>5. \A op \in Operations : Client[op].reuses =>
          "epoch" \in Serve[op].checks /\ ~Serve[op].writes
    BY OperationNames
  <1> QED BY <1>1, <1>2, <1>3, <1>4, <1>5

-----------------------------------------------------------------------------
(* One call's journey, step by step: m and l are what the step makes of the *)
(* call cl and of its connection lk.                                        *)

\* what an ended call keeps
Ends(cl, lk, m, l) ==
    /\ m.at = "done" /\ m.leg = cl.leg /\ m.token = cl.token /\ m.seen = cl.seen
    /\ l.to = lk.to /\ l.req = lk.req /\ l.ans = lk.ans

\* a failure: certain only before the frame is sent, or if the method never writes
LEMMA JourneyFails ==
    ASSUME NEW k, NEW cl \in CallTypes, NEW lk \in LinkTypes, NEW ws, Journey(k, cl, lk, ws),
           cl.at \notin {"idle", "done"},
           NEW m \in CallTypes, NEW l \in LinkTypes, Ends(cl, lk, m, l),
           m.code # "ok", m.may = Client[Asked(k, cl.leg)].may \/ cl.at \in NotSent
    PROVE  Journey(k, m, l, ws)
  <1> USE DEF Ends
  <1>1. Equipped(k, m, l) BY DEF Journey, Equipped
  <1>2. Requested(m, l, ws) BY DEF Journey, Requested, NotSent
  <1>3. Written(k, m, l, ws) BY DEF Journey, Written
  <1>4. Agreed(k, m, l) BY DEF Journey, Agreed
  <1>5. Certain(k, m, l, ws)
    <2>1. CASE cl.at \in NotSent BY <2>1 DEF Journey, Requested, Certain
    <2>2. CASE cl.at \notin NotSent
      <3>1. k \in Operations /\ Asked(k, cl.leg) \in Operations
        BY TablesAgree DEF Journey, Equipped, Asked
      <3>2. ~m.may => ~Serve[Asked(k, cl.leg)].writes BY <2>2, <3>1, TablesAgree
      <3>3. ~m.may => ws = <<>> BY <3>2 DEF Journey, Written, Asked
      <3> QED BY <3>2, <3>3 DEF Certain
    <2> QED BY <2>1, <2>2
  <1> QED BY <1>1, <1>2, <1>3, <1>4, <1>5 DEF Journey

\* the answer is returned to the provider's caller
LEMMA JourneyReturns ==
    ASSUME NEW k, NEW cl \in CallTypes, NEW lk \in LinkTypes, NEW ws, Journey(k, cl, lk, ws),
           cl.at = "wait", cl.leg = "op", lk.req = "answered", lk.ans.code = "ok",
           NEW m \in CallTypes, NEW l \in LinkTypes, Ends(cl, lk, m, l), m.code = "ok"
    PROVE  Journey(k, m, l, ws)
  <1> USE DEF Ends
  <1>1. Equipped(k, m, l) BY DEF Journey, Equipped
  <1>2. Requested(m, l, ws) BY DEF Journey, Requested, NotSent, InFlight
  <1>3. Written(k, m, l, ws) BY DEF Journey, Written
  <1>4. Agreed(k, m, l) BY DEF Journey, Agreed
  <1>5. Certain(k, m, l, ws) BY DEF Certain
  <1> QED BY <1>1, <1>2, <1>3, <1>4, <1>5 DEF Journey

\* a step towards the frame that leaves the connection as it is
LEMMA JourneyGoesOn ==
    ASSUME NEW k, NEW cl \in CallTypes, NEW lk \in LinkTypes, NEW ws, Journey(k, cl, lk, ws),
           cl.at \in NotSent,
           NEW m \in CallTypes, m.at \in NotSent, m.leg = cl.leg, m.seen = cl.seen,
           Equipped(k, m, lk)
    PROVE  Journey(k, m, lk, ws)
  <1>1. Requested(m, lk, ws) BY DEF Journey, Requested
  <1>2. Written(k, m, lk, ws) BY DEF Journey, Requested, Written, NotSent
  <1>3. Agreed(k, m, lk) BY DEF Journey, Agreed
  <1>4. Certain(k, m, lk, ws) BY DEF Certain, NotSent
  <1> QED BY <1>1, <1>2, <1>3, <1>4 DEF Journey

\* a new connection, or the same one with no answer of the operation on it
LEMMA JourneyConnects ==
    ASSUME NEW k, NEW cl \in CallTypes, NEW lk \in LinkTypes, NEW ws,
           NEW m \in CallTypes, NEW l \in LinkTypes,
           ws = <<>>, m.at \in NotSent, l.req \notin InFlight,
           l.req = "none" \/ ~(m.leg = "op" /\ Client[k].reuses),
           Equipped(k, m, l)
    PROVE  Journey(k, m, l, ws)
  <1>1. Requested(m, l, ws) BY DEF Requested
  <1>2. Written(k, m, l, ws) BY DEF Written, NotSent
  <1>3. Agreed(k, m, l) BY DEF Agreed
  <1>4. Certain(k, m, l, ws) BY DEF Certain, NotSent
  <1> QED BY <1>1, <1>2, <1>3, <1>4 DEF Journey

\* the frame is sent
LEMMA JourneySends ==
    ASSUME NEW k, NEW cl \in CallTypes, NEW lk \in LinkTypes, NEW ws, Journey(k, cl, lk, ws),
           cl.at = "ready",
           NEW m \in CallTypes, NEW l \in LinkTypes,
           m.at = "wait", m.leg = cl.leg, m.token = cl.token, l.to = lk.to, l.req = "sent"
    PROVE  Journey(k, m, l, ws)
  <1>1. Equipped(k, m, l) BY DEF Journey, Equipped
  <1>2. Requested(m, l, ws) BY DEF Journey, Equipped, Requested, NotSent
  <1>3. Written(k, m, l, ws) BY DEF Journey, Requested, Written, NotSent
  <1>4. Agreed(k, m, l) BY DEF Agreed
  <1>5. Certain(k, m, l, ws) BY DEF Certain
  <1> QED BY <1>1, <1>2, <1>3, <1>4, <1>5 DEF Journey

\* the server moves the request on, or answers it without a write
LEMMA JourneyServed ==
    ASSUME NEW k, NEW cl \in CallTypes, NEW lk \in LinkTypes, NEW ws, Journey(k, cl, lk, ws),
           lk.req \in InFlight,
           NEW l \in LinkTypes, l.to = lk.to, l.req \in {"none", "queued", "answered"},
           l.req = "answered" /\ l.ans.code = "ok" =>
              /\ cl.leg = "op" => ~Serve[k].writes
              /\ cl.leg = "op" /\ Client[k].reuses => l.ans.scene = cl.seen
    PROVE  Journey(k, cl, l, ws)
  <1>1. Equipped(k, cl, l) BY DEF Journey, Equipped
  <1>2. Requested(cl, l, ws) BY DEF Journey, Requested
  <1>3. Written(k, cl, l, ws) BY DEF Journey, Requested, Written, InFlight
  <1>4. Agreed(k, cl, l) BY DEF Agreed
  <1>5. Certain(k, cl, l, ws) BY DEF Journey, Certain
  <1> QED BY <1>1, <1>2, <1>3, <1>4, <1>5 DEF Journey

\* the operation writes: once, for a call that waits or that said it may
LEMMA JourneyWrites ==
    ASSUME NEW k, NEW cl \in CallTypes, NEW lk \in LinkTypes, NEW ws, Journey(k, cl, lk, ws),
           lk.req \in InFlight, Serve[Asked(k, cl.leg)].writes,
           NEW l \in LinkTypes, l.to = lk.to, l.req = "answered", l.ans.code = "ok",
           NEW w, w.by = lk.to
    PROVE  Journey(k, cl, l, <<w>>)
  <1>0. cl.leg = "op" /\ Serve[k].writes
    BY TablesAgree DEF Asked, CallTypes
  <1>1. cl.at \notin NotSent BY DEF Journey, Requested
  <1>2. k \in Operations BY <1>1 DEF Journey, Equipped, NotSent
  <1>3. Equipped(k, cl, l) BY DEF Journey, Equipped
  <1>4. Requested(cl, l, <<w>>) BY <1>1 DEF Requested, InFlight
  <1>5. Written(k, cl, l, <<w>>) BY <1>0 DEF Journey, Requested, Written
  <1>6. Agreed(k, cl, l) BY <1>0, <1>2, TablesAgree DEF Agreed
  <1>7. Certain(k, cl, l, <<w>>) BY DEF Journey, Certain
  <1> QED BY <1>3, <1>4, <1>5, <1>6, <1>7 DEF Journey

-----------------------------------------------------------------------------
(* From one call to all of them *)

\* a step of c's client leaves the bridges and the other calls alone
LEMMA ClientLocal ==
    ASSUME IInv, NEW c \in Calls,
           UNCHANGED <<hosts, frozen, queue, writes>>,
           NEW m \in CallTypes, NEW l \in LinkTypes,
           call' = [call EXCEPT ![c] = m],
           link' = [link EXCEPT ![c] = l],
           link[c].req = "queued" => l.req = "queued" /\ l.to = link[c].to,
           l.to \in Bridges => host[l.to] # "off",
           Journey(kind[c], m, l, writes[c]),
           Binding(kind[c], m, l)
    PROVE  IInv'
  <1> USE DEF hosts
  <1>1. TypeOK' BY DEF IInv, TypeOK
  <1>2. /\ \A d \in Calls : d # c => call'[d] = call[d] /\ link'[d] = link[d]
        /\ call'[c] = m /\ link'[c] = l
    BY DEF IInv, TypeOK
  <1>3. Journeys' BY <1>2 DEF IInv, Journeys
  <1>4. Observed'
    <2>1. \A d \in Calls : (link[d].to \in Bridges => host[link[d].to] # "off")'
      BY <1>2 DEF IInv, Observed
    <2>2. \A d \in Calls : Binding(kind[d], call'[d], link'[d])
      BY <1>2 DEF IInv, Observed
    <2>3. \A d \in Calls : Binding(kind[d], call[d], link[d])'
      BY <2>2 DEF Binding, Current, Scene
    <2>4. \A b \in Bridges : (epoch[b] <= loads[proc[b]] + 1)'
      BY DEF IInv, Observed
    <2> QED BY <2>1, <2>3, <2>4 DEF Observed
  <1>5. Queued'
    <2>1. \A b \in Bridges : \A i \in 1 .. Len(queue[b]) : queue[b][i] \in Calls
      BY ElementOfSeq DEF IInv, TypeOK
    <2>2. \A d \in Calls : link[d].req = "queued" =>
             link'[d].req = "queued" /\ link'[d].to = link[d].to
      BY <1>2
    <2>3. \A b \in Bridges : \A i \in 1 .. Len(queue[b]) :
             link'[queue[b][i]].req = "queued" /\ link'[queue[b][i]].to = b
      BY <2>1, <2>2 DEF IInv, Queued
    <2> QED BY <2>3 DEF IInv, Queued
  <1>6. Files' BY DEF IInv, Files
  <1> QED BY <1>1, <1>3, <1>4, <1>5, <1>6 DEF IInv

\* a step of the server for c leaves the clients and the other connections alone
LEMMA ServerLocal ==
    ASSUME IInv, NEW c \in Calls,
           UNCHANGED <<hosts, call>>,
           frozen' \in [Bridges -> BOOLEAN],
           queue' \in [Bridges -> Seq(Calls)],
           NEW l \in LinkTypes, NEW ws \in Seq([by : Bridges, scene : Scenes, frozen : BOOLEAN]),
           link' = [link EXCEPT ![c] = l],
           writes' = [writes EXCEPT ![c] = ws],
           l.to = link[c].to,
           Journey(kind[c], call[c], l, ws),
           Binding(kind[c], call[c], l),
           Queued'
    PROVE  IInv'
  <1> USE DEF hosts
  <1>1. TypeOK' BY DEF IInv, TypeOK
  <1>2. /\ \A d \in Calls : d # c => writes'[d] = writes[d] /\ link'[d] = link[d]
        /\ writes'[c] = ws /\ link'[c] = l
    BY DEF IInv, TypeOK
  <1>3. Journeys' BY <1>2 DEF IInv, Journeys
  <1>4. Observed'
    <2>1. \A d \in Calls : (link[d].to \in Bridges => host[link[d].to] # "off")'
      BY <1>2 DEF IInv, Observed
    <2>2. \A d \in Calls : Binding(kind[d], call[d], link'[d])
      BY <1>2 DEF IInv, Observed
    <2>3. \A d \in Calls : Binding(kind[d], call[d], link[d])'
      BY <2>2 DEF Binding, Current, Scene
    <2>4. \A b \in Bridges : (epoch[b] <= loads[proc[b]] + 1)'
      BY DEF IInv, Observed
    <2> QED BY <2>1, <2>3, <2>4 DEF Observed
  <1>6. Files' BY DEF IInv, Files
  <1> QED BY <1>1, <1>3, <1>4, <1>6 DEF IInv

\* a step of a host leaves the calls and the connections alone
LEMMA HostLocal ==
    ASSUME IInv, UNCHANGED <<kind, call, link, writes>>, TypeOK', Observed', Queued', Files'
    PROVE  IInv'
  BY DEF IInv, Journeys

-----------------------------------------------------------------------------
(* The hosts *)

\* a host that goes on its way without a scene loaded: what was observed stays so,
\* since only a host that was off begins to listen
LEMMA HostMoves ==
    ASSUME IInv, NEW b \in Bridges, NEW h, h # "off",
           h \in Listening => host[b] \in Listening \cup {"off"},
           host' = [host EXCEPT ![b] = h],
           UNCHANGED <<kind, proc, loads, epoch, call, link>>
    PROVE  Observed'
  <1>1. \A d \in Bridges : d # b => host'[d] = host[d]
    BY DEF IInv, TypeOK
  <1>2. host'[b] = h BY DEF IInv, TypeOK
  <1>3. \A d \in Calls : (link[d].to \in Bridges => host[link[d].to] # "off")'
    BY <1>1, <1>2 DEF IInv, Observed
  <1>4. \A d \in Calls : Binding(kind[d], call[d], link[d])'
    <2> SUFFICES ASSUME NEW d \in Calls PROVE Binding(kind[d], call[d], link[d])'
      OBVIOUS
    <2>1. Binding(kind[d], call[d], link[d]) BY DEF IInv, Observed
    <2>2. Equipped(kind[d], call[d], link[d]) /\ Requested(call[d], link[d], writes[d])
      BY DEF IInv, Journeys, Journey
    <2>3. ASSUME NEW e, NEW s, link[d].to \in Bridges, Current(link[d].to, e, s)
          PROVE  Current(link[d].to, e, s)'
      BY <1>1, <1>2, <2>3 DEF Current, Scene, IInv, Observed
    <2> QED BY <2>1, <2>2, <2>3 DEF Binding, Equipped, Requested
  <1>5. \A d \in Bridges : (epoch[d] <= loads[proc[d]] + 1)'
    BY DEF IInv, Observed
  <1> QED BY <1>3, <1>4, <1>5 DEF Observed

\* What a host does on its own (bind, publish, close, remove, crash) keeps the invariant
LEMMA HostsKeep ==
    ASSUME IInv, NEW b \in Bridges,
           \/ Bind(b) \/ PublishToken(b) \/ PublishDiscovery(b)
           \/ CloseServer(b) \/ RemoveToken(b) \/ RemoveDiscovery(b) \/ Crash(b)
    PROVE  IInv'
  <1> USE LinkAssumption
  <1>a. PICK h : /\ host' = [host EXCEPT ![b] = h]
                 /\ h \in (Listening \cup Shut) \ {"off"}
                 /\ h \in Listening => host[b] \in Listening \cup {"off"}
    BY DEF Bind, PublishToken, PublishDiscovery, CloseServer, RemoveToken, RemoveDiscovery,
           Crash, Listening, Shut
  <1>b. UNCHANGED <<kind, caps, proc, loads, epoch, frozen, call, link, writes>>
    BY DEF Bind, PublishToken, PublishDiscovery, CloseServer, RemoveToken, RemoveDiscovery, Crash
  <1>c. queue' = queue \/ queue' = [queue EXCEPT ![b] = <<>>]
    BY DEF Bind, PublishToken, PublishDiscovery, CloseServer, RemoveToken, RemoveDiscovery, Crash
  <1>d. tokenFile' \in {tokenFile, b, None} /\ discFile' \in {discFile, b, None}
    BY DEF Bind, PublishToken, PublishDiscovery, CloseServer, RemoveToken, RemoveDiscovery, Crash
  <1>1. TypeOK'
    <2>0. <<>> \in Seq(Calls) OBVIOUS
    <2>1. queue' \in [Bridges -> Seq(Calls)] BY <1>c, <2>0 DEF IInv, TypeOK
    <2>2. host' \in [Bridges -> Listening \cup Shut]
      BY <1>a DEF IInv, TypeOK
    <2>3. {tokenFile, discFile}' \subseteq Bridges \cup {None} BY <1>d DEF IInv, TypeOK
    <2> QED BY <1>b, <2>1, <2>2, <2>3 DEF IInv, TypeOK
  <1>2. Observed' BY <1>a, <1>b, HostMoves DEF Listening, Shut
  <1>3. Queued'
    <2>1. \A d \in Bridges : queue'[d] = queue[d] \/ queue'[d] = <<>>
      BY <1>c DEF IInv, TypeOK
    <2> QED BY <1>b, <2>1 DEF IInv, Queued
  <1>4. Files'
    <2>0. host \in [Bridges -> Listening \cup Shut]
      BY DEF IInv, TypeOK
    <2>1. CASE Bind(b) \/ CloseServer(b) \/ Crash(b)
      BY <2>0, <2>1 DEF IInv, Files, Bind, CloseServer, Crash, Listening
    <2>2. CASE PublishToken(b)
      BY <2>0, <2>2 DEF IInv, Files, PublishToken
    <2>3. CASE PublishDiscovery(b)
      BY <2>0, <2>3 DEF IInv, Files, PublishDiscovery
    <2>4. CASE RemoveToken(b)
      BY <2>0, <2>4 DEF IInv, Files, RemoveToken
    <2>5. CASE RemoveDiscovery(b)
      BY <2>0, <2>5 DEF IInv, Files, RemoveDiscovery
    <2> QED BY <2>1, <2>2, <2>3, <2>4, <2>5
  <1> QED BY <1>b, <1>1, <1>2, <1>3, <1>4, HostLocal

\* a scene load moves the epoch of the bridge that listens in its process, so
\* a binding read before it is no longer current
LEMMA LoadKeeps ==
    ASSUME IInv, NEW p \in Processes, LoadScene(p)
    PROVE  IInv'
  <1> USE LinkAssumption
  <1>a. UNCHANGED <<kind, caps, proc, host, tokenFile, discFile, frozen, queue, call, link, writes>>
    BY DEF LoadScene
  <1>b. \A q \in Processes : loads'[q] = IF q = p THEN loads[q] + 1 ELSE loads[q]
    BY DEF LoadScene, IInv, TypeOK
  <1>c. \A b \in Bridges : epoch'[b] =
           IF proc[b] = p /\ host[b] = "serving" THEN epoch[b] + 1 ELSE epoch[b]
    BY DEF LoadScene, IInv, TypeOK
  <1>d. /\ \A b \in Bridges : epoch[b] \in Nat /\ proc[b] \in Processes
        /\ \A q \in Processes : loads[q] \in Nat
        /\ loads[p] < MaxLoads
    BY DEF LoadScene, IInv, TypeOK
  <1>e. \A b \in Bridges : epoch[b] <= loads[proc[b]] + 1 BY DEF IInv, Observed
  <1>1. TypeOK'
    <2>1. loads' \in [Processes -> 0 .. MaxLoads] BY <1>d DEF LoadScene, IInv, TypeOK
    <2>2. ASSUME NEW b \in Bridges PROVE epoch'[b] \in 1 .. MaxLoads + 1
      <3>1. epoch[b] \in 1 .. MaxLoads + 1 /\ MaxLoads \in Nat BY DEF IInv, TypeOK
      <3>2. CASE proc[b] = p /\ host[b] = "serving"
        <4>1. epoch[b] <= loads[p] + 1 BY <1>e, <3>2
        <4> QED BY <1>c, <1>d, <3>1, <3>2, <4>1
      <3>3. CASE ~(proc[b] = p /\ host[b] = "serving") BY <1>c, <3>1, <3>3
      <3> QED BY <3>2, <3>3
    <2>3. epoch' \in [Bridges -> 1 .. MaxLoads + 1] BY <2>2 DEF LoadScene
    <2> QED BY <1>a, <2>1, <2>3 DEF IInv, TypeOK
  <1>2. Observed'
    <2>1. \A d \in Calls : (link[d].to \in Bridges => host[link[d].to] # "off")'
      BY <1>a DEF IInv, Observed
    <2>2. \A b \in Bridges : (epoch[b] <= loads[proc[b]] + 1)'
      BY <1>a, <1>b, <1>c, <1>d, <1>e
    <2>3. ASSUME NEW b \in Bridges, NEW e \in Nat, NEW s, Current(b, e, s)
          PROVE  Current(b, e, s)'
      <3>1. CASE proc[b] = p /\ host[b] = "serving"
        BY <1>a, <1>c, <1>d, <2>3, <3>1 DEF Current
      <3>2. CASE proc[b] = p /\ host[b] # "serving"
        <4>1. host[b] \notin Listening BY <3>2 DEF LoadScene, Listening
        <4> QED BY <1>a, <1>c, <2>3, <3>2, <4>1 DEF Current
      <3>3. CASE proc[b] # p
        BY <1>a, <1>b, <1>c, <1>d, <2>3, <3>3 DEF Current, Scene
      <3> QED BY <3>1, <3>2, <3>3
    <2>4. \A d \in Calls : Binding(kind[d], call[d], link[d])'
      <3> SUFFICES ASSUME NEW d \in Calls PROVE Binding(kind[d], call[d], link[d])'
        OBVIOUS
      <3>1. Binding(kind[d], call[d], link[d]) BY DEF IInv, Observed
      <3>2. Equipped(kind[d], call[d], link[d]) /\ Requested(call[d], link[d], writes[d])
        BY DEF IInv, Journeys, Journey
      <3>3. link[d].ans.epoch \in Nat /\ call[d].epoch \in Nat
        BY DEF IInv, TypeOK, CallTypes, LinkTypes
      <3> QED BY <1>a, <2>3, <3>1, <3>2, <3>3 DEF Binding, Equipped, Requested
    <2> QED BY <2>1, <2>2, <2>4 DEF Observed
  <1>3. Queued' BY <1>a DEF IInv, Queued
  <1>4. Files' BY <1>a DEF IInv, Files
  <1> QED BY <1>a, <1>1, <1>2, <1>3, <1>4, HostLocal

-----------------------------------------------------------------------------
(* The client *)

\* What the invariant says of one call
LEMMA CallFacts ==
    ASSUME IInv, NEW c \in Calls
    PROVE  /\ call[c] \in CallTypes /\ link[c] \in LinkTypes
           /\ Journey(kind[c], call[c], link[c], writes[c])
           /\ Binding(kind[c], call[c], link[c])
           /\ link[c].to \in Bridges => host[link[c].to] # "off"
           /\ Asked(kind[c], call[c].leg) = Operation(c)
  BY DEF IInv, TypeOK, Journeys, Observed, Asked, Operation

\* the method's word on a failure is a Boolean
LEMMA MayIsBoolean ==
    ASSUME IInv, NEW c \in Calls, call[c].at # "idle"
    PROVE  MayChange(c) \in BOOLEAN
  <1>1. Operation(c) \in Operations
    BY CallFacts, TablesAgree DEF Journey, Equipped, Operation
  <1> QED BY <1>1, TablesAgree DEF MayChange

\* every way to end a call before or without an answer
LEMMA EndKeeps ==
    ASSUME IInv, NEW c \in Calls, call[c].at \notin {"idle", "done"},
           NEW code \in Codes, code # "ok", NEW may \in BOOLEAN,
           may = MayChange(c) \/ call[c].at \in NotSent,
           End(c, code, may),
           UNCHANGED <<hosts, frozen, queue, writes>>
    PROVE  IInv'
  <1> DEFINE m == Ended(c, code, may)
             l == [link[c] EXCEPT !.up = FALSE]
  <1>1. m \in CallTypes /\ l \in LinkTypes BY ZenonT(30), CallFacts DEF CallTypes, LinkTypes, Ended
  <1>2. Ends(call[c], link[c], m, l) /\ m.code = code /\ m.may = may
    BY CallFacts DEF CallTypes, LinkTypes, Ended, Ends
  <1>3. call' = [call EXCEPT ![c] = m] /\ link' = [link EXCEPT ![c] = l]
    BY DEF End
  <1> HIDE DEF m, l
  <1>4. Journey(kind[c], m, l, writes[c])
    BY <1>1, <1>2, JourneyFails, CallFacts DEF MayChange
  <1>5. Binding(kind[c], m, l)
    <2>1. m.at = "done" /\ m.leg = call[c].leg BY <1>2 DEF Ends
    <2>2. l.to = link[c].to /\ l.req = link[c].req BY <1>2 DEF Ends
    <2>3. call[c].leg = "op" /\ Client[kind[c]].reuses /\ link[c].req \in InFlight =>
             Current(link[c].to, call[c].epoch, call[c].seen)
      BY CallFacts DEF Binding
    <2>4. m.epoch = call[c].epoch /\ m.seen = call[c].seen
      BY CallFacts DEF m, Ended, CallTypes
    <2> QED BY <2>1, <2>2, <2>3, <2>4 DEF Binding
  <1>6. l.to = link[c].to /\ l.req = link[c].req BY <1>2 DEF Ends
  <1>7. l.to \in Bridges => host[l.to] # "off" BY <1>6, CallFacts
  <1> QED BY <1>1, <1>3, <1>4, <1>5, <1>6, <1>7, ClientLocal

\* A call that finds no usable identity files ends with certainty: it has sent nothing
LEMMA HandoffFailedKeeps ==
    ASSUME IInv, NEW c \in Calls, call[c].at \in NotSent \ {"idle"}, HandoffFailed(c),
           UNCHANGED <<hosts, frozen, queue, writes>>
    PROVE  IInv'
  <1>1. PICK code \in {"not_available", "auth_failed"} : End(c, code, FALSE)
    BY DEF HandoffFailed
  <1>2. code \in Codes /\ code # "ok" BY DEF Codes
  <1>3. call[c].at \notin {"idle", "done"} BY DEF NotSent
  <1>4. FALSE \in BOOLEAN BY Zenon
  <1> QED BY <1>1, <1>2, <1>3, <1>4, EndKeeps, Zenon

\* a step of the client before the frame is sent, over the same connection
LEMMA GoOnKeeps ==
    ASSUME IInv, NEW c \in Calls, call[c].at \in NotSent,
           NEW m \in CallTypes, m.at \in NotSent, m.leg = call[c].leg,
           m.seen = call[c].seen, m.epoch = call[c].epoch,
           m.at = "ready" => ~Client[kind[c]].reuses \/ m.leg = "binding",
           Equipped(kind[c], m, link[c]),
           call' = [call EXCEPT ![c] = m],
           UNCHANGED <<hosts, frozen, queue, link, writes>>
    PROVE  IInv'
  <1>1. Journey(kind[c], m, link[c], writes[c]) BY CallFacts, JourneyGoesOn
  <1>2. link[c].req \notin InFlight BY CallFacts DEF Journey, Requested
  <1>3. Binding(kind[c], m, link[c])
    BY <1>2 DEF Binding, NotSent, CallTypes
  <1>4. link' = [link EXCEPT ![c] = link[c]] BY DEF IInv, TypeOK
  <1>5. link[c].to \in Bridges => host[link[c].to] # "off" BY CallFacts
  <1>6. link[c] \in LinkTypes BY CallFacts
  <1> QED BY <1>1, <1>3, <1>4, <1>5, <1>6, ClientLocal

\* Starting a call
LEMMA StartKeeps == ASSUME IInv, NEW c \in Calls, Start(c) PROVE IInv'
  <1> DEFINE m == [call[c] EXCEPT !.at = "look"]
  <1>1. /\ m \in CallTypes /\ m.at = "look" /\ m.leg = call[c].leg
        /\ m.seen = call[c].seen /\ m.epoch = call[c].epoch
    BY CallFacts DEF CallTypes
  <1>2. call' = [call EXCEPT ![c] = m] BY DEF Start, Goto
  <1>3. kind[c] \in Operations /\ call[c].at = "idle"
    BY DEF Start, IInv, TypeOK
  <1>4. Equipped(kind[c], m, link[c])
    BY <1>1, <1>3, CallFacts DEF Journey, Equipped
  <1>5. UNCHANGED <<hosts, frozen, queue, link, writes>> BY DEF Start
  <1> HIDE DEF m
  <1> QED BY <1>1, <1>2, <1>3, <1>4, <1>5, GoOnKeeps DEF NotSent

\* Looking for the identity files
LEMMA CheckHandoffKeeps == ASSUME IInv, NEW c \in Calls, CheckHandoff(c) PROVE IInv'
  <1>0. UNCHANGED <<hosts, frozen, queue, writes>> /\ call[c].at = "look" BY DEF CheckHandoff
  <1>1. CASE End(c, "not_available", FALSE)
    <2>1. "not_available" \in Codes /\ "not_available" # "ok" BY DEF Codes
    <2>2. call[c].at \notin {"idle", "done"} /\ call[c].at \in NotSent BY <1>0 DEF NotSent
    <2>3. FALSE \in BOOLEAN BY Zenon
    <2> QED BY <1>0, <1>1, <2>1, <2>2, <2>3, EndKeeps, Zenon
  <1>2. CASE Goto(c, "port") /\ UNCHANGED link
    <2> DEFINE m == [call[c] EXCEPT !.at = "port"]
    <2>1. /\ m \in CallTypes /\ m.at = "port" /\ m.leg = call[c].leg
          /\ m.seen = call[c].seen /\ m.epoch = call[c].epoch
      BY CallFacts DEF CallTypes
    <2>2. call' = [call EXCEPT ![c] = m] BY <1>2 DEF Goto
    <2>3. Equipped(kind[c], m, link[c])
      BY <1>0, <2>1, CallFacts DEF Journey, Equipped
    <2> HIDE DEF m
    <2> QED BY <1>0, <1>2, <2>1, <2>2, <2>3, GoOnKeeps DEF NotSent
  <1> QED BY <1>1, <1>2 DEF CheckHandoff

\* Reading the discovery file, first for the port ...
LEMMA ReadPortKeeps == ASSUME IInv, NEW c \in Calls, ReadPort(c) PROVE IInv'
  <1>0. UNCHANGED <<hosts, frozen, queue, writes>> /\ call[c].at = "port" BY DEF ReadPort
  <1>1. CASE HandoffFailed(c) BY <1>0, <1>1, HandoffFailedKeeps DEF NotSent
  <1>2. CASE /\ discFile # None /\ UNCHANGED link
             /\ call' = [call EXCEPT ![c].at = "print", ![c].port = discFile]
    <2> DEFINE m == [call[c] EXCEPT !.at = "print", !.port = discFile]
    <2>0. discFile \in Bridges BY <1>2 DEF IInv, TypeOK
    <2>1. /\ m \in CallTypes /\ m.at = "print" /\ m.leg = call[c].leg
          /\ m.seen = call[c].seen /\ m.epoch = call[c].epoch /\ m.port = discFile
      BY <2>0, CallFacts DEF CallTypes
    <2>2. call' = [call EXCEPT ![c] = m] BY <1>2
    <2>3. Equipped(kind[c], m, link[c])
      BY <1>0, <2>0, <2>1, CallFacts DEF Journey, Equipped
    <2> HIDE DEF m
    <2> QED BY <1>0, <1>2, <2>1, <2>2, <2>3, GoOnKeeps DEF NotSent
  <1> QED BY <1>1, <1>2 DEF ReadPort

\* ... and again for the fingerprint
LEMMA ReadFingerprintKeeps == ASSUME IInv, NEW c \in Calls, ReadFingerprint(c) PROVE IInv'
  <1>0. UNCHANGED <<hosts, frozen, queue, writes>> /\ call[c].at = "print" BY DEF ReadFingerprint
  <1>1. CASE HandoffFailed(c) BY <1>0, <1>1, HandoffFailedKeeps DEF NotSent
  <1>2. CASE /\ discFile # None /\ UNCHANGED link
             /\ call' = [call EXCEPT ![c].at = "token", ![c].print = discFile]
    <2> DEFINE m == [call[c] EXCEPT !.at = "token", !.print = discFile]
    <2>0. discFile \in Bridges BY <1>2 DEF IInv, TypeOK
    <2>1. /\ m \in CallTypes /\ m.at = "token" /\ m.leg = call[c].leg /\ m.print = discFile
          /\ m.seen = call[c].seen /\ m.epoch = call[c].epoch /\ m.port = call[c].port
      BY <2>0, CallFacts DEF CallTypes
    <2>2. call' = [call EXCEPT ![c] = m] BY <1>2
    <2>3. Equipped(kind[c], m, link[c])
      BY <1>0, <2>0, <2>1, CallFacts DEF Journey, Equipped
    <2> HIDE DEF m
    <2> QED BY <1>0, <1>2, <2>1, <2>2, <2>3, GoOnKeeps DEF NotSent
  <1> QED BY <1>1, <1>2 DEF ReadFingerprint

\* Reading the token
LEMMA ReadTokenKeeps == ASSUME IInv, NEW c \in Calls, ReadToken(c) PROVE IInv'
  <1>0. UNCHANGED <<hosts, frozen, queue, writes>> /\ call[c].at = "token" BY DEF ReadToken
  <1>1. CASE HandoffFailed(c) BY <1>0, <1>1, HandoffFailedKeeps DEF NotSent
  <1>2. CASE /\ tokenFile = call[c].print /\ UNCHANGED link
             /\ call' = [call EXCEPT ![c].at = "dial", ![c].token = tokenFile]
    <2> DEFINE m == [call[c] EXCEPT !.at = "dial", !.token = tokenFile]
    <2>0. tokenFile \in Bridges BY <1>0, <1>2, CallFacts DEF Journey, Equipped
    <2>1. /\ m \in CallTypes /\ m.at = "dial" /\ m.leg = call[c].leg
          /\ m.seen = call[c].seen /\ m.epoch = call[c].epoch /\ m.port = call[c].port
      BY <2>0, CallFacts DEF CallTypes
    <2>2. call' = [call EXCEPT ![c] = m] BY <1>2
    <2>3. Equipped(kind[c], m, link[c])
      BY <1>0, <2>0, <2>1, CallFacts DEF Journey, Equipped
    <2> HIDE DEF m
    <2> QED BY <1>0, <1>2, <2>1, <2>2, <2>3, GoOnKeeps DEF NotSent
  <1> QED BY <1>1, <1>2 DEF ReadToken

\* the failures that are reported with the method's own word
LEMMA FailKeeps ==
    ASSUME IInv, NEW c \in Calls, call[c].at \notin {"idle", "done"},
           NEW code \in Codes, code # "ok", End(c, code, MayChange(c)),
           UNCHANGED <<hosts, frozen, queue, writes>>
    PROVE  IInv'
  <1>1. MayChange(c) \in BOOLEAN BY MayIsBoolean
  <1> QED BY <1>1, EndKeeps, Zenon

\* Connecting to whoever listens on the port
LEMMA DialKeeps == ASSUME IInv, NEW c \in Calls, Dial(c) PROVE IInv'
  <1>0. /\ UNCHANGED <<hosts, frozen, queue, writes>>
        /\ call[c].at = "dial" /\ call[c].at \in NotSent
    BY DEF Dial, NotSent
  <1>1. CASE End(c, "not_available", MayChange(c))
    BY <1>0, <1>1, FailKeeps DEF Codes
  <1>2. CASE /\ host[call[c].port] \in Listening
             /\ Goto(c, "hello")
             /\ link' = [link EXCEPT ![c] = Linked(call[c].port, TRUE)]
    <2> DEFINE m == [call[c] EXCEPT !.at = "hello"]
               l == Linked(call[c].port, TRUE)
    <2>0. call[c].port \in Bridges BY <1>0, CallFacts DEF Journey, Equipped
    <2>1. m \in CallTypes /\ m.at = "hello" /\ m.leg = call[c].leg BY CallFacts DEF CallTypes
    <2>2. /\ l \in LinkTypes /\ l.to = call[c].port /\ l.req = "none"
          /\ l.req \notin InFlight /\ m.at \in NotSent
      <3>1. TRUE \in BOOLEAN BY Zenon
      <3>2. Refusal("none") \in [code : Codes, epoch : Nat, scene : Scenes]
        BY DEF Refusal, Codes, Scenes
      <3> QED BY <2>0, <2>1, <3>1, <3>2 DEF Linked, LinkTypes, InFlight, NotSent
    <2>3. call' = [call EXCEPT ![c] = m] /\ link' = [link EXCEPT ![c] = l]
      BY <1>2 DEF Goto
    <2> HIDE DEF m, l
    <2>4. writes[c] = <<>> /\ link[c].req \notin InFlight
      BY <1>0, CallFacts DEF Journey, Requested
    <2>5. Equipped(kind[c], m, l)
      BY <1>0, <2>0, <2>1, <2>2, CallFacts DEF Journey, Equipped
    <2>6. Journey(kind[c], m, l, writes[c])
      BY <2>1, <2>2, <2>4, <2>5, JourneyConnects, CallFacts
    <2>7. Binding(kind[c], m, l) BY <2>1, <2>2 DEF Binding
    <2>8. host[l.to] # "off" BY <1>2, <2>2 DEF Listening
    <2>9. link[c].req # "queued" BY <2>4 DEF InFlight
    <2> QED BY <1>0, <2>1, <2>2, <2>3, <2>6, <2>7, <2>8, <2>9, ClientLocal
  <1> QED BY <1>1, <1>2 DEF Dial

\* Authenticating with the token that was read
LEMMA HandshakeKeeps == ASSUME IInv, NEW c \in Calls, Handshake(c) PROVE IInv'
  <1>0. UNCHANGED <<hosts, frozen, queue, writes>> /\ call[c].at = "hello" BY DEF Handshake
  <1>1. CASE End(c, "unauthorized", MayChange(c)) \/ End(c, "capability_unavailable", MayChange(c))
    BY <1>0, <1>1, FailKeeps DEF Codes
  <1>2. CASE ValidHello(link[c].to, call[c].token) /\ Goto(c, "ready") /\ UNCHANGED link
    <2> DEFINE m == [call[c] EXCEPT !.at = "ready"]
    <2>1. /\ m \in CallTypes /\ m.at = "ready" /\ m.leg = call[c].leg /\ m.token = call[c].token
          /\ m.seen = call[c].seen /\ m.epoch = call[c].epoch /\ m.port = call[c].port
      BY CallFacts DEF CallTypes
    <2>2. call' = [call EXCEPT ![c] = m] BY <1>2 DEF Goto
    <2>3. Equipped(kind[c], m, link[c])
      BY <1>0, <1>2, <2>1, CallFacts DEF Journey, Equipped, ValidHello
    <2>4. ~Client[kind[c]].reuses \/ m.leg = "binding"
      BY <1>0, <2>1, CallFacts DEF Journey, Equipped, CallTypes
    <2>5. call[c].at \in NotSent /\ m.at \in NotSent BY <1>0, <2>1 DEF NotSent
    <2> HIDE DEF m
    <2> QED BY <1>0, <1>2, <2>1, <2>2, <2>3, <2>4, <2>5, GoOnKeeps
  <1> QED BY <1>1, <1>2 DEF Handshake

\* Sending the frame: from here on certainty is lost for a write
LEMMA SendKeeps == ASSUME IInv, NEW c \in Calls, Send(c) PROVE IInv'
  <1> DEFINE m == [call[c] EXCEPT !.at = "wait"]
             l == [link[c] EXCEPT !.req = "sent", !.ans = Refusal("none")]
  <1>0. UNCHANGED <<hosts, frozen, queue, writes>> /\ call[c].at = "ready" BY DEF Send
  <1>1. /\ m \in CallTypes /\ m.at = "wait" /\ m.leg = call[c].leg /\ m.token = call[c].token
        /\ m.seen = call[c].seen /\ m.epoch = call[c].epoch
    BY CallFacts DEF CallTypes
  <1>2. l \in LinkTypes /\ l.to = link[c].to /\ l.req = "sent"
    <2>1. Refusal("none") \in [code : Codes, epoch : Nat, scene : Scenes]
      BY DEF Refusal, Codes, Scenes
    <2> QED BY <2>1, CallFacts DEF LinkTypes
  <1>3. call' = [call EXCEPT ![c] = m] /\ link' = [link EXCEPT ![c] = l]
    BY DEF Send, Goto
  <1> HIDE DEF m, l
  <1>4. Journey(kind[c], m, l, writes[c]) BY <1>0, <1>1, <1>2, JourneySends, CallFacts
  <1>5. Binding(kind[c], m, l) BY <1>0, <1>1, <1>2, CallFacts DEF Binding
  <1>6. link[c].req # "queued"
    BY <1>0, CallFacts DEF Journey, Requested, NotSent, InFlight
  <1>7. l.to \in Bridges => host[l.to] # "off" BY <1>2, CallFacts
  <1> QED BY <1>0, <1>1, <1>2, <1>3, <1>4, <1>5, <1>6, <1>7, ClientLocal

\* A connection lost or a deadline passed while waiting
LEMMA LostKeeps == ASSUME IInv, NEW c \in Calls, Lost(c) \/ Timeout(c) PROVE IInv'
  <1>1. call[c].at \notin {"idle", "done"} /\ UNCHANGED <<hosts, frozen, queue, writes>>
    BY DEF Lost, Timeout
  <1>2. \/ End(c, "not_available", MayChange(c))
        \/ End(c, "deadline_exceeded", MayChange(c))
    BY DEF Lost, Timeout
  <1> QED BY <1>1, <1>2, FailKeeps DEF Codes

\* the provider starts over: from the files on, with nothing under way
LEMMA ReconnectKeeps ==
    ASSUME IInv, NEW c \in Calls, call[c].at = "wait", link[c].req = "answered",
           writes[c] = <<>>,
           NEW leg \in {"binding", "op"}, leg = "op" => ~Client[kind[c]].reuses,
           NEW attempt \in {1, 2}, NEW known \in Nat, NEW seen \in Scenes,
           Reconnect(c, leg, attempt, known, seen),
           UNCHANGED <<hosts, frozen, queue, writes>>
    PROVE  IInv'
  <1> DEFINE m == Fresh("look", leg, attempt, known, seen)
             l == [link[c] EXCEPT !.up = FALSE]
  <1>1. m \in CallTypes /\ m.at = "look" /\ m.leg = leg
    <2>1. FALSE \in BOOLEAN BY Zenon
    <2>2. "none" \in Codes BY DEF Codes
    <2> QED BY <2>1, <2>2 DEF Fresh, CallTypes
  <1>2. l \in LinkTypes /\ l.to = link[c].to /\ l.req = "answered"
    BY CallFacts DEF LinkTypes
  <1>3. call' = [call EXCEPT ![c] = m] /\ link' = [link EXCEPT ![c] = l]
    BY DEF Reconnect
  <1> HIDE DEF m, l
  <1>4. Equipped(kind[c], m, l)
    BY <1>1, CallFacts DEF Journey, Equipped
  <1>5. m.at \in NotSent /\ l.req \notin InFlight BY <1>1, <1>2 DEF NotSent, InFlight
  <1>6. Journey(kind[c], m, l, writes[c])
    BY <1>1, <1>2, <1>4, <1>5, JourneyConnects, CallFacts
  <1>7. Binding(kind[c], m, l) BY <1>1, <1>5 DEF Binding
  <1>8. l.to \in Bridges => host[l.to] # "off" BY <1>2, CallFacts
  <1> QED BY <1>1, <1>2, <1>3, <1>6, <1>7, <1>8, ClientLocal

\* Taking the answer: the binding for the next leg, or the result
LEMMA TakeAnswerKeeps == ASSUME IInv, NEW c \in Calls, TakeAnswer(c) PROVE IInv'
  <1>0. /\ UNCHANGED <<hosts, frozen, queue, writes>>
        /\ call[c].at = "wait" /\ link[c].req = "answered"
    BY DEF TakeAnswer
  <1>a. /\ link[c].ans.epoch \in Nat /\ link[c].ans.scene \in Scenes
        /\ link[c].ans.code \in Codes
    BY CallFacts DEF LinkTypes
  <1>1. CASE TakeBinding(c)
    <2>0. writes[c] = <<>> BY <1>1, CallFacts DEF TakeBinding, Journey, Written
    <2>1. CASE Client[kind[c]].reuses
      <3> DEFINE m == [call[c] EXCEPT !.at = "ready", !.leg = "op",
                           !.epoch = link[c].ans.epoch, !.seen = link[c].ans.scene]
                 l == [link[c] EXCEPT !.req = "none"]
      <3>1. call' = [call EXCEPT ![c] = m] /\ link' = [link EXCEPT ![c] = l]
        BY <1>1, <2>1 DEF TakeBinding
      <3>2. /\ m \in CallTypes /\ m.at = "ready" /\ m.leg = "op" /\ m.token = call[c].token
            /\ m.epoch = link[c].ans.epoch /\ m.seen = link[c].ans.scene
        BY <1>a, CallFacts DEF CallTypes
      <3>3. l \in LinkTypes /\ l.to = link[c].to /\ l.req = "none"
        BY CallFacts DEF LinkTypes
      <3> HIDE DEF m, l
      <3>4. Equipped(kind[c], m, l)
        BY <1>0, <3>2, <3>3, CallFacts DEF Journey, Equipped
      <3>5. m.at \in NotSent /\ l.req \notin InFlight BY <3>2, <3>3 DEF NotSent, InFlight
      <3>6. Journey(kind[c], m, l, writes[c])
        BY <2>0, <3>2, <3>3, <3>4, <3>5, JourneyConnects, CallFacts
      <3>7. Current(link[c].to, link[c].ans.epoch, link[c].ans.scene)
        BY <1>0, <1>1, CallFacts DEF TakeBinding, Binding
      <3>8. Binding(kind[c], m, l) BY <3>2, <3>3, <3>7 DEF Binding
      <3>9. l.to \in Bridges => host[l.to] # "off" BY <3>3, CallFacts
      <3> QED BY <1>0, <3>1, <3>2, <3>3, <3>6, <3>8, <3>9, ClientLocal
    <2>2. CASE ~Client[kind[c]].reuses
      <3>1. Reconnect(c, "op", 1, link[c].ans.epoch, link[c].ans.scene)
        BY <1>1, <2>2 DEF TakeBinding
      <3> QED BY <1>0, <1>a, <2>0, <2>2, <3>1, ReconnectKeeps
    <2> QED BY <2>1, <2>2
  <1>2. CASE RetryStale(c)
    <2>1. writes[c] = <<>> BY <1>2, CallFacts DEF RetryStale, Journey, Written
    <2>2. Reconnect(c, "binding", 2, 0, None) BY <1>2 DEF RetryStale
    <2>3. None \in Scenes /\ 0 \in Nat BY DEF Scenes
    <2> QED BY <1>0, <2>1, <2>2, <2>3, ReconnectKeeps
  <1>3. CASE /\ call[c].leg = "op" \/ link[c].ans.code # "ok"
             /\ End(c, link[c].ans.code, link[c].ans.code # "ok" /\ MayChange(c))
    <2>1. CASE link[c].ans.code # "ok"
      <3>1. (link[c].ans.code # "ok" /\ MayChange(c)) = MayChange(c)
        BY <1>0, <2>1, MayIsBoolean
      <3>2. End(c, link[c].ans.code, MayChange(c)) BY <1>3, <3>1
      <3> QED BY <1>0, <1>a, <2>1, <3>2, FailKeeps
    <2>2. CASE link[c].ans.code = "ok"
      <3> DEFINE m == Ended(c, "ok", FALSE)
                 l == [link[c] EXCEPT !.up = FALSE]
      <3>1. (link[c].ans.code # "ok" /\ MayChange(c)) = FALSE BY <2>2
      <3>2. call' = [call EXCEPT ![c] = m] /\ link' = [link EXCEPT ![c] = l]
        BY <1>3, <2>2, <3>1 DEF End
      <3>3. m \in CallTypes
        <4>1. FALSE \in BOOLEAN BY Zenon
        <4>2. "ok" \in Codes BY DEF Codes
        <4> QED BY <4>1, <4>2, CallFacts DEF CallTypes, Ended
      <3>4. l \in LinkTypes BY CallFacts DEF LinkTypes
      <3>5. Ends(call[c], link[c], m, l) /\ m.code = "ok" /\ m.at = "done"
        BY CallFacts DEF Ends, Ended, LinkTypes
      <3> HIDE DEF m, l
      <3>6. Journey(kind[c], m, l, writes[c])
        BY <1>0, <1>3, <2>2, <3>3, <3>4, <3>5, JourneyReturns, CallFacts
      <3>7. l.to = link[c].to /\ l.req = "answered" BY <1>0, <3>5 DEF Ends
      <3>8. Binding(kind[c], m, l) BY <3>5, <3>7 DEF Binding, InFlight
      <3>9. l.to \in Bridges => host[l.to] # "off" BY <3>7, CallFacts
      <3> QED BY <1>0, <3>2, <3>3, <3>4, <3>6, <3>7, <3>8, <3>9, ClientLocal
    <2> QED BY <2>1, <2>2
  <1> QED BY <1>1, <1>2, <1>3 DEF TakeAnswer

-----------------------------------------------------------------------------
(* The server *)

\* q is s without its k-th element
Without(s, k, q) ==
    /\ Len(q) = Len(s) - 1
    /\ \A i \in 1 .. Len(s) - 1 : q[i] = s[IF i < k THEN i ELSE i + 1]

\* the k-th request leaves the queue of b, and its connection changes
LEMMA QueueDrops ==
    ASSUME IInv, NEW b \in Bridges, NEW k \in 1 .. Len(queue[b]), NEW q \in Seq(Calls),
           Without(queue[b], k, q),
           queue' = [queue EXCEPT ![b] = q],
           NEW c, c = queue[b][k], NEW l, link' = [link EXCEPT ![c] = l]
    PROVE  Queued'
  <1>0. queue[b] \in Seq(Calls) /\ Len(queue[b]) \in Nat /\ k \in Nat
    BY DEF IInv, TypeOK
  <1> DEFINE at(i) == IF i < k THEN i ELSE i + 1
  <1>1. c \in Calls BY <1>0, ElementOfSeq
  <1>2. \A d \in Calls : d # c => link'[d] = link[d] BY <1>1 DEF IInv, TypeOK
  <1>3. link[c].to = b BY DEF IInv, Queued
  <1>4. queue'[b] = q /\ \A d \in Bridges : d # b => queue'[d] = queue[d]
    BY DEF IInv, TypeOK
  <1>5. \A i \in 1 .. Len(q) : at(i) \in 1 .. Len(queue[b]) /\ at(i) # k /\ q[i] = queue[b][at(i)]
    BY <1>0 DEF Without
  <1>6. \A i, j \in 1 .. Len(q) : at(i) = at(j) => i = j
    BY <1>0
  <1> HIDE DEF at
  <1>7. \A i \in 1 .. Len(q) : q[i] \in Calls /\ q[i] # c
    <2>1. \A i \in 1 .. Len(queue[b]) : i # k => queue[b][i] # c BY DEF IInv, Queued
    <2>2. \A i \in 1 .. Len(q) : q[i] \in Calls BY ElementOfSeq
    <2> QED BY <1>5, <2>1, <2>2
  <1>8. ASSUME NEW d \in Bridges, NEW i \in 1 .. Len(queue'[d])
        PROVE  (link[queue[d][i]].req = "queued" /\ link[queue[d][i]].to = d)'
    <2>1. CASE d = b
      <3>1. link'[q[i]] = link[q[i]] BY <1>2, <1>4, <1>7, <2>1
      <3>2. link[q[i]].req = "queued" /\ link[q[i]].to = b
        BY SMTT(30), <1>4, <1>5, <2>1 DEF IInv, Queued
      <3> QED BY <1>4, <2>1, <3>1, <3>2
    <2>2. CASE d # b
      <3>1. link[queue[d][i]].req = "queued" /\ link[queue[d][i]].to = d
        BY <1>4, <2>2 DEF IInv, Queued
      <3>2. queue[d][i] \in Calls /\ queue[d][i] # c
        BY <1>3, <1>4, <2>2, <3>1, ElementOfSeq DEF IInv, TypeOK
      <3> QED BY <1>2, <1>4, <2>2, <3>1, <3>2
    <2> QED BY <2>1, <2>2
  <1>9. ASSUME NEW d \in Bridges, NEW i \in 1 .. Len(queue'[d]), NEW j \in 1 .. Len(queue'[d]),
               queue'[d][i] = queue'[d][j]
        PROVE  i = j
    <2>1. CASE d = b
      <3>1. at(i) \in 1 .. Len(queue[b]) /\ at(j) \in 1 .. Len(queue[b])
        BY <1>4, <1>5, <2>1
      <3>2. queue[b][at(i)] = queue[b][at(j)] BY <1>4, <1>5, <1>9, <2>1
      <3>3. at(i) = at(j) BY <3>1, <3>2 DEF IInv, Queued
      <3> QED BY <1>4, <1>6, <2>1, <3>3
    <2>2. CASE d # b BY <1>4, <1>9, <2>2 DEF IInv, Queued
    <2> QED BY <2>1, <2>2
  <1> QED BY <1>8, <1>9 DEF Queued

\* The form of a refusal
LEMMA RefusalTyped ==
    ASSUME NEW code \in Codes
    PROVE  /\ Refusal(code) \in [code : Codes, epoch : Nat, scene : Scenes]
           /\ Refusal(code).code = code
  BY DEF Refusal, Scenes

\* an unwritten answer of a call of which the server still has the request
LEMMA AnswerFacts ==
    ASSUME IInv, NEW c \in Calls, link[c].req \in InFlight,
           NEW ans \in [code : Codes, epoch : Nat, scene : Scenes],
           Answer(c, ans)
    PROVE  \E l \in LinkTypes :
              /\ link' = [link EXCEPT ![c] = l]
              /\ l.to = link[c].to /\ l.req = "answered" /\ l.ans = ans
  <1> DEFINE l == [link[c] EXCEPT !.req = "answered", !.ans = ans]
  <1>1. l \in LinkTypes /\ l.to = link[c].to /\ l.req = "answered" /\ l.ans = ans
    BY CallFacts DEF LinkTypes
  <1>2. link' = [link EXCEPT ![c] = l] BY DEF Answer
  <1> QED BY <1>1, <1>2

\* the request is refused, cancelled or moved on: nothing is written
LEMMA RefuseKeeps ==
    ASSUME IInv, NEW c \in Calls, link[c].req \in InFlight,
           NEW l \in LinkTypes, link' = [link EXCEPT ![c] = l],
           l.to = link[c].to, l.req \in {"none", "queued", "answered"},
           l.req = "answered" => l.ans.code # "ok",
           UNCHANGED <<hosts, frozen, call, writes>>,
           queue' \in [Bridges -> Seq(Calls)], Queued'
    PROVE  IInv'
  <1>1. Journey(kind[c], call[c], l, writes[c]) BY JourneyServed, CallFacts
  <1>2. Binding(kind[c], call[c], l)
    BY CallFacts DEF Binding
  <1>3. /\ frozen' \in [Bridges -> BOOLEAN]
        /\ writes' = [writes EXCEPT ![c] = writes[c]]
        /\ writes[c] \in Seq([by : Bridges, scene : Scenes, frozen : BOOLEAN])
    BY DEF IInv, TypeOK
  <1> QED BY <1>1, <1>2, <1>3, ServerLocal

\* The server reads a frame: refuses, answers or queues it
LEMMA ReceiveKeeps == ASSUME IInv, NEW c \in Calls, Receive(c) PROVE IInv'
  <1>0. /\ link[c].req = "sent" /\ link[c].req \in InFlight
        /\ UNCHANGED <<hosts, frozen, call, writes>>
    BY DEF Receive, InFlight
  <1>1. ASSUME NEW code \in {"capability_unavailable", "write_frozen"},
               Answer(c, Refusal(code)), UNCHANGED queue
        PROVE  IInv'
    <2>1. code \in Codes /\ code # "ok" BY DEF Codes
    <2>2. PICK l \in LinkTypes :
              /\ link' = [link EXCEPT ![c] = l]
              /\ l.to = link[c].to /\ l.req = "answered" /\ l.ans = Refusal(code)
      BY <1>0, <1>1, <2>1, RefusalTyped, AnswerFacts
    <2>3. Queued'
      <3>1. \A b \in Bridges : \A i \in 1 .. Len(queue[b]) : queue[b][i] \in Calls \ {c}
        BY <1>0, ElementOfSeq DEF IInv, TypeOK, Queued
      <3>2. \A d \in Calls \ {c} : link'[d] = link[d] BY <2>2 DEF IInv, TypeOK
      <3>3. \A b \in Bridges : \A i \in 1 .. Len(queue[b]) :
               link'[queue[b][i]] = link[queue[b][i]]
        BY <3>1, <3>2
      <3> QED BY <1>1, <3>3 DEF IInv, Queued
    <2>4. queue' \in [Bridges -> Seq(Calls)] BY <1>1 DEF IInv, TypeOK
    <2>5. l.ans.code # "ok" BY <2>1, <2>2, RefusalTyped
    <2> QED BY <1>0, <2>2, <2>3, <2>4, <2>5, RefuseKeeps
  <1>2. ASSUME queue' = [queue EXCEPT ![link[c].to] = Append(@, c)],
               link' = [link EXCEPT ![c].req = "queued"]
        PROVE  IInv'
    <2> DEFINE l == [link[c] EXCEPT !.req = "queued"]
               b == link[c].to
               q == queue[b]
    <2>1. l \in LinkTypes /\ l.to = link[c].to /\ l.req = "queued" BY CallFacts DEF LinkTypes
    <2>2. link' = [link EXCEPT ![c] = l] BY <1>2
    <2>3. b \in Bridges BY <1>0, CallFacts DEF Journey, Requested
    <2>4. q \in Seq(Calls) /\ Len(q) \in Nat BY <2>3 DEF IInv, TypeOK
    <2>5. /\ Append(q, c) \in Seq(Calls) /\ Len(Append(q, c)) = Len(q) + 1
          /\ \A i \in 1 .. Len(q) : Append(q, c)[i] = q[i]
          /\ Append(q, c)[Len(q) + 1] = c
      BY <2>4
    <2>6. /\ queue'[b] = Append(q, c) /\ \A d \in Bridges : d # b => queue'[d] = queue[d]
          /\ queue' \in [Bridges -> Seq(Calls)]
      BY <1>2, <2>3, <2>5 DEF IInv, TypeOK
    <2>7. link'[c] = l /\ \A d \in Calls : d # c => link'[d] = link[d]
      BY <2>2 DEF IInv, TypeOK
    <2>8. \A d \in Bridges : \A i \in 1 .. Len(queue[d]) : queue[d][i] \in Calls /\ queue[d][i] # c
      BY <1>0, ElementOfSeq DEF IInv, TypeOK, Queued
    <2> HIDE DEF l, b, q
    <2>9. Queued'
      <3>1. ASSUME NEW d \in Bridges, NEW i \in 1 .. Len(queue'[d])
            PROVE  (link[queue[d][i]].req = "queued" /\ link[queue[d][i]].to = d)'
        <4>1. CASE d = b /\ i = Len(q) + 1
          <5>1. queue'[d][i] = c BY <2>5, <2>6, <4>1
          <5>2. l.to = d BY <2>1, <4>1 DEF b
          <5> QED BY <2>1, <2>7, <5>1, <5>2
        <4>2. CASE i \in 1 .. Len(queue[d]) /\ queue'[d][i] = queue[d][i]
          BY <2>7, <2>8, <4>2 DEF IInv, Queued
        <4>3. \/ d = b /\ i = Len(q) + 1
              \/ i \in 1 .. Len(queue[d]) /\ queue'[d][i] = queue[d][i]
          BY <2>4, <2>5, <2>6 DEF q
        <4> QED BY <4>1, <4>2, <4>3
      <3>2. ASSUME NEW d \in Bridges, NEW i \in 1 .. Len(queue'[d]),
                   NEW j \in 1 .. Len(queue'[d]), queue'[d][i] = queue'[d][j]
            PROVE  i = j
        <4>1. CASE d # b BY <2>6, <3>2, <4>1 DEF IInv, Queued
        <4>2. CASE d = b
          <5>1. \A x \in 1 .. Len(q) + 1 : x = Len(q) + 1 \/ x \in 1 .. Len(q)
            BY <2>4
          <5>2. \A x, y \in 1 .. Len(q) : q[x] = q[y] => x = y
            BY <2>3 DEF IInv, Queued, q
          <5>3. \A x \in 1 .. Len(q) : q[x] # c BY <2>3, <2>8 DEF q
          <5> QED BY <2>5, <2>6, <3>2, <4>2, <5>1, <5>2, <5>3
        <4> QED BY <4>1, <4>2
      <3> QED BY <3>1, <3>2 DEF Queued
    <2> QED BY <1>0, <2>1, <2>2, <2>6, <2>9, RefuseKeeps
  <1> QED BY <1>1, <1>2 DEF Receive

\* A queued request is taken out unexecuted
LEMMA UnqueueKeeps ==
    ASSUME IInv, NEW c \in Calls, link[c].req = "queued", Unqueue(c),
           NEW l \in LinkTypes, link' = [link EXCEPT ![c] = l],
           l.to = link[c].to, l.req \in {"none", "answered"},
           l.req = "answered" => l.ans.code # "ok",
           UNCHANGED <<hosts, frozen, call, writes>>
    PROVE  IInv'
  <1>0. link[c].req \in InFlight BY DEF InFlight
  <1>1. PICK b \in Bridges : b = link[c].to BY <1>0, CallFacts DEF Journey, Requested
  <1>2. queue[b] \in Seq(Calls) /\ DOMAIN queue[b] = 1 .. Len(queue[b])
    BY <1>1 DEF IInv, TypeOK
  <1>3. PICK i \in 1 .. Len(queue[b]) :
           queue[b][i] = c /\ queue' = [queue EXCEPT ![b] = RemoveAt(queue[b], i)]
    BY <1>1, <1>2, Zenon DEF Unqueue
  <1>4. PICK q : q = RemoveAt(queue[b], i) OBVIOUS
  <1>5. q \in Seq(Calls) /\ Without(queue[b], i, q)
    BY <1>2, <1>4, RemoveAtProperties DEF Without
  <1>6. queue' = [queue EXCEPT ![b] = q] /\ c = queue[b][i] BY <1>3, <1>4
  <1>7. Queued' BY <1>5, <1>6, QueueDrops
  <1>8. queue' \in [Bridges -> Seq(Calls)] BY <1>5, <1>6 DEF IInv, TypeOK
  <1> QED BY <1>0, <1>7, <1>8, RefuseKeeps

\* The server notices that the client has gone
LEMMA CancelKeeps == ASSUME IInv, NEW c \in Calls, Cancel(c) PROVE IInv'
  <1> DEFINE l == [link[c] EXCEPT !.req = "none"]
  <1>1. l \in LinkTypes /\ l.to = link[c].to /\ l.req = "none" BY CallFacts DEF LinkTypes
  <1>2. link' = [link EXCEPT ![c] = l] BY DEF Cancel
  <1> HIDE DEF l
  <1> QED BY <1>1, <1>2, UnqueueKeeps DEF Cancel

\* A queued request outlives its deadline
LEMMA ExpireKeeps == ASSUME IInv, NEW c \in Calls, Expire(c) PROVE IInv'
  <1>1. "deadline_exceeded" \in Codes /\ "deadline_exceeded" # "ok" BY DEF Codes
  <1>2. link[c].req = "queued" /\ link[c].req \in InFlight BY DEF Expire, InFlight
  <1>3. PICK l \in LinkTypes :
            /\ link' = [link EXCEPT ![c] = l]
            /\ l.to = link[c].to /\ l.req = "answered" /\ l.ans = Refusal("deadline_exceeded")
    BY <1>1, <1>2, RefusalTyped, AnswerFacts DEF Expire
  <1>4. l.ans.code # "ok" BY <1>1, <1>3, RefusalTyped
  <1> QED BY <1>2, <1>3, <1>4, UnqueueKeeps DEF Expire

\* The main thread serves the request at the head of a queue
LEMMA PumpKeeps == ASSUME IInv, NEW b \in Bridges, Pump(b) PROVE IInv'
  <1> USE LinkAssumption
  <1> DEFINE c == Head(queue[b])
             q == Tail(queue[b])
  <1>0. host[b] \in Listening /\ UNCHANGED <<hosts, call>> BY DEF Pump
  <1>1. queue[b] \in Seq(Calls) /\ queue[b] # <<>> BY DEF Pump, IInv, TypeOK
  <1>2. /\ c = queue[b][1] /\ 1 \in 1 .. Len(queue[b]) /\ c \in Calls
        /\ q \in Seq(Calls) /\ Len(q) = Len(queue[b]) - 1
        /\ \A j \in 1 .. Len(queue[b]) - 1 : q[j] = queue[b][j + 1]
    BY <1>1
  <1>3. queue' = [queue EXCEPT ![b] = q] BY DEF Pump
  <1>4. link[c].req = "queued" /\ link[c].to = b BY <1>2 DEF IInv, Queued
  <1>5. link[c].req \in InFlight BY <1>4 DEF InFlight
  <1>6. queue' \in [Bridges -> Seq(Calls)] BY <1>2, <1>3 DEF IInv, TypeOK
  <1>7. ASSUME NEW l, link' = [link EXCEPT ![c] = l] PROVE Queued'
    <2>1. Without(queue[b], 1, q) BY <1>2 DEF Without
    <2> HIDE DEF c, q
    <2> QED BY <1>2, <1>3, <1>7, <2>1, QueueDrops
  <1>8. Result(b) \in [code : Codes, epoch : Nat, scene : Scenes] /\ Result(b).code = "ok"
        /\ Result(b).epoch = epoch[b] /\ Result(b).scene = Scene(proc[b])
    <2>1. epoch[b] \in Nat /\ proc[b] \in Processes /\ loads[proc[b]] \in Nat
      BY DEF IInv, TypeOK
    <2>2. Scene(proc[b]) \in Scenes BY <2>1 DEF Scene, Scenes
    <2> QED BY <2>1, <2>2 DEF Result, Codes
  <1>a. writes[c] \in Seq([by : Bridges, scene : Scenes, frozen : BOOLEAN])
        /\ frozen \in [Bridges -> BOOLEAN]
    BY <1>2 DEF IInv, TypeOK
  <1> HIDE DEF c, q
  <1>9. ASSUME NEW code \in {"stale_scene", "write_frozen"}, Answer(c, Refusal(code)),
               UNCHANGED <<writes, frozen>>
        PROVE  IInv'
    <2>1. code \in Codes /\ code # "ok" BY DEF Codes
    <2>2. PICK l \in LinkTypes :
              /\ link' = [link EXCEPT ![c] = l]
              /\ l.to = link[c].to /\ l.req = "answered" /\ l.ans = Refusal(code)
      BY SMTT(30), <1>2, <1>5, <1>9, <2>1, RefusalTyped, AnswerFacts
    <2>3. l.ans.code # "ok" BY <2>1, <2>2, RefusalTyped
    <2> QED BY <1>0, <1>2, <1>5, <1>6, <1>7, <1>9, <2>2, <2>3, RefuseKeeps
  <1>10. ASSUME ~Stale(b, c), Answer(c, Result(b))
         PROVE  \E l \in LinkTypes :
                   /\ link' = [link EXCEPT ![c] = l]
                   /\ l.to = link[c].to /\ l.req = "answered" /\ l.ans = Result(b)
                   /\ Binding(kind[c], call[c], l)
                   /\ call[c].leg = "op" /\ Client[kind[c]].reuses => l.ans.scene = call[c].seen
    <2>1. PICK l \in LinkTypes :
              /\ link' = [link EXCEPT ![c] = l]
              /\ l.to = link[c].to /\ l.req = "answered" /\ l.ans = Result(b)
      BY <1>2, <1>5, <1>8, <1>10, AnswerFacts
    <2>2. Current(b, l.ans.epoch, l.ans.scene)
      <3>1. epoch[b] \in Nat BY DEF IInv, TypeOK
      <3> QED BY <1>8, <2>1, <3>1 DEF Current
    <2>3. Binding(kind[c], call[c], l)
      BY <1>2, <1>4, <1>5, <2>1, <2>2, CallFacts DEF Binding
    <2>4. ASSUME call[c].leg = "op", Client[kind[c]].reuses PROVE l.ans.scene = call[c].seen
      <3>1. call[c].at \notin NotSent
        BY <1>2, <1>5, CallFacts DEF Journey, Requested
      <3>2. kind[c] \in Operations
        BY <1>2, <3>1, CallFacts DEF Journey, Equipped, NotSent
      <3>3. "epoch" \in Serve[Operation(c)].checks
        BY <2>4, <3>2, TablesAgree DEF Operation
      <3>4. call[c].epoch = epoch[b] BY <1>10, <3>3 DEF Stale
      <3>5. Current(b, call[c].epoch, call[c].seen)
        BY <1>2, <1>4, <1>5, <2>4, CallFacts DEF Binding
      <3>6. call[c].seen = Scene(proc[b]) BY <1>0, <3>4, <3>5 DEF Current
      <3> QED BY <1>8, <2>1, <3>6
    <2> QED BY <2>1, <2>3, <2>4
  <1>11. ASSUME ~Stale(b, c), ~Writes(c), Answer(c, Result(b)), UNCHANGED <<writes, frozen>>
         PROVE  IInv'
    <2>1. PICK l \in LinkTypes :
              /\ link' = [link EXCEPT ![c] = l]
              /\ l.to = link[c].to /\ l.req = "answered" /\ l.ans = Result(b)
              /\ Binding(kind[c], call[c], l)
              /\ call[c].leg = "op" /\ Client[kind[c]].reuses => l.ans.scene = call[c].seen
      BY <1>10, <1>11
    <2>2. call[c].leg = "op" => ~Serve[kind[c]].writes
      BY <1>11 DEF Writes, Operation
    <2>3. Journey(kind[c], call[c], l, writes[c])
      BY <1>2, <1>5, <2>1, <2>2, JourneyServed, CallFacts
    <2>4. writes' = [writes EXCEPT ![c] = writes[c]] BY <1>2, <1>11 DEF IInv, TypeOK
    <2>5. Queued' BY <1>7, <2>1
    <2>6. frozen' \in [Bridges -> BOOLEAN] BY <1>11, <1>a
    <2> QED BY <1>0, <1>2, <1>6, <1>a, <2>1, <2>3, <2>4, <2>5, <2>6, ServerLocal
  <1>12. ASSUME ~Stale(b, c), Writes(c), Answer(c, Result(b)),
                writes' = [writes EXCEPT ![c] =
                    Append(@, [by |-> b, scene |-> Scene(proc[b]), frozen |-> frozen[b]])],
                NEW critical \in BOOLEAN, frozen' = [frozen EXCEPT ![b] = @ \/ critical]
         PROVE  IInv'
    <2> DEFINE w == [by |-> b, scene |-> Scene(proc[b]), frozen |-> frozen[b]]
    <2>1. PICK l \in LinkTypes :
              /\ link' = [link EXCEPT ![c] = l]
              /\ l.to = link[c].to /\ l.req = "answered" /\ l.ans = Result(b)
              /\ Binding(kind[c], call[c], l)
      BY <1>10, <1>12
    <2>2. writes[c] = <<>> BY <1>2, <1>5, CallFacts DEF Journey, Requested
    <2>3. Append(writes[c], w) = <<w>> BY <2>2
    <2>4. w.by = link[c].to BY <1>4
    <2>5. <<w>> \in Seq([by : Bridges, scene : Scenes, frozen : BOOLEAN])
      <3>1. frozen[b] \in BOOLEAN BY <1>a
      <3>2. Scene(proc[b]) \in Scenes BY <1>8
      <3>3. w \in [by : Bridges, scene : Scenes, frozen : BOOLEAN] BY <3>1, <3>2
      <3> QED BY <3>3
    <2>6. writes' = [writes EXCEPT ![c] = <<w>>] BY <1>12, <2>3
    <2> HIDE DEF w
    <2>7. Journey(kind[c], call[c], l, <<w>>)
      <3>1. Serve[Asked(kind[c], call[c].leg)].writes
        BY <1>2, <1>12, CallFacts DEF Writes
      <3> QED BY <1>2, <1>5, <1>8, <2>1, <2>4, <3>1, JourneyWrites, CallFacts
    <2>8. Queued' BY <1>7, <2>1
    <2>9. frozen' \in [Bridges -> BOOLEAN] BY <1>12, <1>a
    <2> QED BY <1>0, <1>2, <1>6, <2>1, <2>5, <2>6, <2>7, <2>8, <2>9, ServerLocal
  <1>13. CASE \/ Answer(c, Refusal("stale_scene")) /\ UNCHANGED <<writes, frozen>>
              \/ Answer(c, Refusal("write_frozen")) /\ UNCHANGED <<writes, frozen>>
    BY <1>9, <1>13
  <1> QED BY <1>11, <1>12, <1>13 DEF Pump, c

-----------------------------------------------------------------------------
(* The whole link *)

\* The invariant holds at the start
LEMMA InitIInv == Init => IInv
  <1> SUFFICES ASSUME Init PROVE IInv OBVIOUS
  <1> USE LinkAssumption
  <1>1. PICK u \in Setups :
           /\ kind = u.ask /\ caps = u.caps /\ proc = u.proc
           /\ host = [b \in Bridges |-> IF b \in u.runs THEN "off" ELSE "gone"]
    BY DEF Init
  <1>2. \A c \in Calls : call[c] = Fresh("idle", "binding", 1, 0, None)
                         /\ link[c] = Linked(None, FALSE) /\ writes[c] = <<>>
    BY DEF Init
  <1>3. TypeOK
    <2>1. kind \in [Calls -> Operations \cup {None}] /\ proc \in [Bridges -> Processes]
      BY <1>1
    <2>2. host \in [Bridges -> Listening \cup Shut]
      BY <1>1 DEF Shut
    <2>3. /\ {tokenFile, discFile} \subseteq Bridges \cup {None}
          /\ loads \in [Processes -> 0 .. MaxLoads] /\ epoch \in [Bridges -> 1 .. MaxLoads + 1]
      BY DEF Init
    <2>4. frozen \in [Bridges -> BOOLEAN]
      <3>1. FALSE \in BOOLEAN BY Zenon
      <3> QED BY <3>1 DEF Init
    <2>5. queue \in [Bridges -> Seq(Calls)] BY DEF Init
    <2>6. call \in [Calls -> CallTypes]
      <3>1. FALSE \in BOOLEAN BY Zenon
      <3>2. Fresh("idle", "binding", 1, 0, None) \in CallTypes
        BY <3>1 DEF Fresh, CallTypes, Codes, Scenes
      <3> QED BY <3>2 DEF Init
    <2>7. link \in [Calls -> LinkTypes]
      <3>1. FALSE \in BOOLEAN BY Zenon
      <3>2. Refusal("none") \in [code : Codes, epoch : Nat, scene : Scenes]
        BY RefusalTyped DEF Codes
      <3>3. Linked(None, FALSE) \in LinkTypes BY <3>1, <3>2 DEF Linked, LinkTypes
      <3> QED BY <3>3 DEF Init
    <2>8. writes \in [Calls -> Seq([by : Bridges, scene : Scenes, frozen : BOOLEAN])]
      <3>1. <<>> \in Seq([by : Bridges, scene : Scenes, frozen : BOOLEAN]) OBVIOUS
      <3> QED BY <3>1 DEF Init
    <2> QED BY <2>1, <2>2, <2>3, <2>4, <2>5, <2>6, <2>7, <2>8 DEF TypeOK
  <1>4. \A c \in Calls : /\ call[c].at = "idle" /\ call[c].leg = "binding"
                         /\ link[c].to = None /\ link[c].req = "none"
    BY <1>2 DEF Fresh, Linked
  <1>5. Journeys
    <2> SUFFICES ASSUME NEW c \in Calls PROVE Journey(kind[c], call[c], link[c], writes[c])
      BY DEF Journeys
    <2>1. call[c] \in CallTypes /\ link[c] \in LinkTypes BY <1>3 DEF TypeOK
    <2>2. Equipped(kind[c], call[c], link[c]) BY <1>4 DEF Equipped
    <2>3. call[c].at \in NotSent /\ link[c].req \notin InFlight
      BY <1>4 DEF NotSent, InFlight
    <2> QED BY <1>2, <1>4, <2>1, <2>2, <2>3, JourneyConnects
  <1>6. Observed
    <2>1. \A c \in Calls : link[c].to \notin Bridges BY <1>4
    <2>2. \A c \in Calls : Binding(kind[c], call[c], link[c]) BY <1>4 DEF Binding
    <2>3. \A b \in Bridges : epoch[b] <= loads[proc[b]] + 1
      BY <1>3 DEF Init, TypeOK
    <2> QED BY <2>1, <2>2, <2>3 DEF Observed
  <1>7. Queued BY DEF Init, Queued
  <1>8. Files BY DEF Init, Files
  <1> QED BY <1>3, <1>5, <1>6, <1>7, <1>8 DEF IInv

\* and every step keeps it, one case per action
LEMMA NextIInv == IInv /\ [Next]_vars => IInv'
  <1> SUFFICES ASSUME IInv, [Next]_vars PROVE IInv' OBVIOUS
  <1>1. ASSUME NEW b \in Bridges,
               \/ Bind(b) \/ PublishToken(b) \/ PublishDiscovery(b) \/ CloseServer(b)
               \/ RemoveToken(b) \/ RemoveDiscovery(b) \/ Crash(b)
        PROVE  IInv'
    BY <1>1, HostsKeep
  <1>2. ASSUME NEW b \in Bridges, Pump(b) PROVE IInv' BY <1>2, PumpKeeps
  <1>3. ASSUME NEW p \in Processes, LoadScene(p) PROVE IInv' BY <1>3, LoadKeeps
  <1>4. ASSUME NEW c \in Calls, Start(c) \/ ClientStep(c) PROVE IInv'
    BY <1>4, StartKeeps, CheckHandoffKeeps, ReadPortKeeps, ReadFingerprintKeeps, ReadTokenKeeps,
       DialKeeps, HandshakeKeeps, SendKeeps, TakeAnswerKeeps, LostKeeps DEF ClientStep
  <1>5. ASSUME NEW c \in Calls, Receive(c) \/ Cancel(c) \/ Expire(c) PROVE IInv'
    BY <1>5, ReceiveKeeps, CancelKeeps, ExpireKeeps
  <1>6. CASE UNCHANGED vars
    <2> USE <1>6 DEF vars, hosts
    <2>1. TypeOK' BY DEF IInv, TypeOK
    <2>2. Journeys' BY DEF IInv, Journeys
    <2>3. Observed' BY DEF IInv, Observed, Binding, Current, Scene
    <2>4. Queued' /\ Files' BY DEF IInv, Queued, Files
    <2> QED BY <2>1, <2>2, <2>3, <2>4 DEF IInv
  <1> QED BY <1>1, <1>2, <1>3, <1>4, <1>5, <1>6 DEF Next

\* Bridges may start, restart, crash and overwrite each other's files, clients may
\* time out at any moment: the calls, the queues and the files stay in step.
THEOREM Invariance == Spec => []IInv
  BY InitIInv, NextIInv, PTL DEF Spec

\* scene_may_have_changed = False is never said of a call that has written or will
\* write: a frame that is under way when its client gives up is either one the
\* method's own table marks, or one that does not write (_bridge_error, _exchange).
THEOREM CertaintyIsHonest == Spec => []HonestCertainty
  <1>1. ASSUME IInv PROVE HonestCertainty
    <2> SUFFICES ASSUME NEW c \in Calls,
                        call[c].at = "done", ~call[c].may, call[c].code # "ok"
                 PROVE  writes[c] = <<>> /\ ~Pending(c)
      BY DEF HonestCertainty
    <2>1. Certain(kind[c], call[c], link[c], writes[c]) BY <1>1, CallFacts DEF Journey
    <2>2. link[c].req \in InFlight => ~Writes(c)
      BY <1>1, <2>1, CallFacts DEF Certain, Writes
    <2> QED BY <2>1, <2>2 DEF Certain, Pending, InFlight
  <1> QED BY <1>1, Invariance, PTL

\* No request is executed twice, a write that is reported done was made by the bridge
\* whose token was presented, a query belongs to the scene of its binding, and the
\* last bridge to close leaves no identity file.
THEOREM AnswersOwned == Spec => []AnswersAreOwn
  <1>1. ASSUME IInv PROVE AnswerIsOwn
    <2> SUFFICES ASSUME NEW c \in Calls
                 PROVE  /\ Len(writes[c]) <= 1
                        /\ call[c].at = "done" /\ call[c].code = "ok" /\ Serve[kind[c]].writes =>
                             Len(writes[c]) = 1 /\ writes[c][1].by = call[c].token
      BY DEF AnswerIsOwn
    <2>1. Written(kind[c], call[c], link[c], writes[c]) BY <1>1, CallFacts DEF Journey
    <2>2. CASE writes[c] = <<>>
      <3>1. Len(writes[c]) = 0 BY <2>2
      <3> QED BY <2>1, <2>2, <3>1 DEF Written
    <2>3. CASE writes[c] # <<>>
      <3>1. Len(writes[c]) = 1 /\ writes[c][1].by = call[c].token BY <2>1, <2>3 DEF Written
      <3> QED BY <3>1
    <2> QED BY <2>2, <2>3
  <1>2. ASSUME IInv PROVE ReadsAgree
    <2> SUFFICES ASSUME NEW c \in Calls,
                        call[c].at = "done", call[c].code = "ok", Client[kind[c]].reuses
                 PROVE  link[c].ans.scene = call[c].seen
      BY DEF ReadsAgree
    <2>1. /\ Written(kind[c], call[c], link[c], writes[c])
          /\ Agreed(kind[c], call[c], link[c])
      BY <1>2, CallFacts DEF Journey
    <2> QED BY <2>1 DEF Written, Agreed
  <1>3. IInv => NothingLeftBehind
    BY DEF IInv, TypeOK, Files, NothingLeftBehind
  <1> QED BY <1>1, <1>2, <1>3, Invariance, PTL DEF AnswersAreOwn
=============================================================================
