--------------------------- MODULE EventDelivery ---------------------------
(***************************************************************************)
(* How the committed events of one session reach one client: the           *)
(* subscription of eee_agent/runtime/server.py (_do_subscribe, on_event,   *)
(* _put, _put_initial, _sender), replay, snapshot and prune_operational of *)
(* eee_agent/runtime/events.py, and the client's reconnect cursor          *)
(* (eee_agent/panel/client_state.py, houdini_side/runtime_panel/client.py).*)
(*                                                                         *)
(* An event is its sequence number.  A step of the server is what the      *)
(* event loop runs between two suspensions: a service method that commits  *)
(* one event notifies the subscribers before another transaction can       *)
(* finish; _failure_persist commits three and notifies only then.  On      *)
(* Python 3.11 every _put_initial suspends (asyncio.wait_for wraps the put *)
(* in a task).                                                             *)
(***************************************************************************)
EXTENDS Naturals, Sequences, FiniteSets, FiniteSetsExt, SequencesExt

CONSTANTS
    MaxSeq,          \* bound: events of the session
    Operational,     \* sequence numbers of operational (prunable) events
    Limit,           \* _SUBSCRIBE_LIMIT
    QueueMax,        \* _QUEUE_MAX
    BundleSize       \* events _failure_persist commits before it notifies

Bounds ==
    MaxSeq \in Nat /\ QueueMax \in Nat \ {0} /\ Limit \in Nat /\ BundleSize \in Nat
ASSUME BoundAssumption == Bounds

VARIABLES
    last,       \* sessions.last_seq
    present,    \* the rows of the events table
    floor,      \* sessions.replay_floor_seq
    owed,       \* committed events _failure_persist has not notified
    lossy,      \* history: the server has done one of the things that lose events
    conn,       \* is the client connected
    slow,       \* ctx.slow_consumer
    outq, hand, \* ctx.queue, and the item the sender is sending
    stage,      \* where _do_subscribe is; live when it has finished
    after,      \* the after_seq of its next replay
    snap,       \* snapshot_to_send (0: none)
    todo,       \* items it has still to enqueue
    buffer,     \* sub.buffer
    delivered,  \* sub.last_delivered
    cursor,     \* client: RuntimeCursorBook
    known,      \* client: events received or covered by a snapshot
    received    \* history: events received

store == <<last, present, floor, owed, lossy>>
connection == <<conn, slow, outq, hand>>
subscription == <<stage, after, snap, todo, buffer, delivered>>
client == <<cursor, known, received>>
vars == <<store, connection, subscription, client>>

Item == [kind : {"event", "snapshot", "response"}, seq : 0..MaxSeq]
EventItem(n) == [kind |-> "event", seq |-> n]
SnapshotItem(n) == [kind |-> "snapshot", seq |-> n]
ResponseItem(n) == [kind |-> "response", seq |-> n]
EventItems(ns) == [i \in 1..Len(ns) |-> EventItem(ns[i])]

(* The numbers of S in increasing order *)
Sorted(S) ==
    CHOOSE s \in [1..Cardinality(S) -> S] :
        ToSet(s) = S /\ \A i, j \in 1..Cardinality(S) : i < j => s[i] < s[j]

NoSubscription ==
    /\ stage' = "off" /\ after' = 0 /\ snap' = 0 /\ todo' = <<>>
    /\ buffer' = {} /\ delivered' = 0

Init ==
    /\ last = 0 /\ present = {} /\ floor = 0 /\ owed = <<>> /\ lossy = FALSE
    /\ conn = FALSE /\ slow = FALSE /\ outq = <<>> /\ hand = <<>>
    /\ stage = "off" /\ after = 0 /\ snap = 0 /\ todo = <<>>
    /\ buffer = {} /\ delivered = 0
    /\ cursor = 0 /\ known = {} /\ received = {}

----------------------------------------------------------------------------
(* Events are committed and announced *)

Room == QueueMax - Len(outq)

(* _put, for several items in a row: what does not fit is dropped and the  *)
(* client is marked slow.                                                  *)
Put(items) ==
    /\ outq' = outq \o SubSeq(items, 1, Min({Room, Len(items)}))
    /\ slow' = (slow \/ Len(items) > Room)

(* Bug: live events are not compared with what the replay delivered *)
MutFresh(ns) == ns

(* on_event announces what is newer than the last one announced *)
Fresh(ns) == Sorted({n \in ToSet(ns) : n > delivered})

(* on_event, called for each of the committed events ns *)
Notify(ns) ==
    CASE stage = "off" -> UNCHANGED <<outq, slow, buffer, delivered>>
      [] stage = "live" ->
            /\ Put(EventItems(Fresh(ns)))
            /\ delivered' = Max({delivered} \cup ToSet(ns))
            /\ UNCHANGED buffer
      [] OTHER ->
            /\ buffer' = buffer \cup ToSet(ns)
            /\ UNCHANGED <<outq, slow, delivered>>

(* A service method commits one event and notifies.  While the buffer is   *)
(* flushed the event is buffered behind the copy being flushed, and        *)
(* cleared with it; while a bundle is held back, on_event will take the    *)
(* bundle for old.                                                         *)
Emit ==
    /\ last < MaxSeq
    /\ lossy' = (lossy \/ stage = "flush" \/ owed # <<>>)
    /\ last' = last + 1 /\ present' = present \cup {last + 1}
    /\ Notify(<<last + 1>>)
    /\ UNCHANGED <<floor, owed, conn, hand, stage, after, snap, todo, client>>

(* _failure_persist commits one more event of its bundle ... *)
BundleAppend ==
    /\ last < MaxSeq /\ Len(owed) < BundleSize
    /\ last' = last + 1 /\ present' = present \cup {last + 1}
    /\ owed' = Append(owed, last + 1)
    /\ UNCHANGED <<floor, lossy, connection, subscription, client>>

(* ... and _handle_failure notifies them together *)
BundleNotify ==
    /\ owed # <<>> /\ Len(owed) = BundleSize
    /\ Notify(owed)
    /\ owed' = <<>>
    /\ lossy' = (lossy \/ stage = "flush")
    /\ UNCHANGED <<last, present, floor, conn, hand, stage, after, snap, todo, client>>

Floor(gone) == Max({floor} \cup gone)

(* prune_operational(through_seq = k) *)
Prune(k) ==
    LET gone == {n \in present \cap Operational : n <= k}
    IN /\ gone # {}
       /\ present' = present \ gone
       /\ floor' = Floor(gone)
       /\ UNCHANGED <<last, owed, lossy, connection, subscription, client>>

----------------------------------------------------------------------------
(* Subscription: one handler per connection, one command at a time *)

HandlerIdle == conn /\ ~slow /\ stage \in {"off", "live"}

(* session.snapshot: the panel bootstraps with one, and asks for another   *)
(* whenever it has started or stopped a run.                               *)
Snapshot ==
    /\ HandlerIdle
    /\ Put(<<SnapshotItem(last)>>)
    /\ UNCHANGED <<store, conn, hand, subscription, client>>

(* session.subscribe with the client's cursor: register the callback first *)
Subscribe ==
    /\ HandlerIdle /\ stage = "off" /\ outq = <<>> /\ hand = <<>>
    /\ stage' = "replay" /\ after' = cursor
    /\ UNCHANGED <<store, connection, snap, todo, buffer, delivered, client>>

(* Subscribing again answers with the position and replays nothing *)
SubscribeAgain ==
    /\ HandlerIdle /\ stage = "live"
    /\ Put(<<ResponseItem(delivered)>>)
    /\ UNCHANGED <<store, conn, hand, subscription, client>>

(* EventStore.replay: the first Limit events after the position *)
Backlog == Sorted({n \in present : n > after})
Replayed == SubSeq(Backlog, 1, Min({Limit, Len(Backlog)}))

(* A position below the floor asks for a snapshot; otherwise the response, *)
(* the snapshot if there was one and the replay are enqueued, and last_seq *)
(* becomes the boundary.                                                   *)
Replay ==
    /\ conn /\ stage = "replay"
    /\ IF after < floor
       THEN stage' = "snapshot" /\ UNCHANGED <<todo, delivered, lossy>>
       ELSE /\ stage' = "put"
            /\ todo' = <<ResponseItem(last)>>
                       \o (IF snap > 0 THEN <<SnapshotItem(snap)>> ELSE <<>>)
                       \o EventItems(Replayed)
            /\ delivered' = last
            /\ lossy' = (lossy \/ Len(Backlog) > Limit)
    /\ UNCHANGED <<last, present, floor, owed, connection, after, snap, buffer, client>>

TakeSnapshot ==
    /\ conn /\ stage = "snapshot"
    /\ snap' = last /\ after' = last /\ stage' = "replay"
    /\ UNCHANGED <<store, connection, todo, buffer, delivered, client>>

(* _put_initial, with room in the queue *)
PutInitial ==
    /\ conn /\ stage \in {"put", "flush"} /\ todo # <<>> /\ ~slow /\ Room > 0
    /\ outq' = Append(outq, Head(todo)) /\ todo' = Tail(todo)
    /\ delivered' = IF stage = "flush" THEN Head(todo).seq ELSE delivered
    /\ UNCHANGED <<store, conn, slow, hand, stage, after, snap, buffer, client>>

(* _put_initial, timed out; the half-made subscription is removed *)
PutInitialTimeout ==
    /\ conn /\ stage \in {"put", "flush"} /\ todo # <<>> /\ Room = 0
    /\ slow' = TRUE /\ NoSubscription
    /\ UNCHANGED <<store, conn, outq, hand, client>>

(* Bug: what was buffered during the replay is thrown away *)
MutPending == {}

(* Buffered events the replay has not delivered *)
Pending == {n \in buffer : n > delivered}

(* The replay is enqueued: flush a sorted copy of the buffer, or go live *)
FlushBegin ==
    /\ conn /\ stage = "put" /\ todo = <<>>
    /\ IF Pending = {}
       THEN stage' = "live" /\ buffer' = {} /\ UNCHANGED todo
       ELSE /\ stage' = "flush" /\ todo' = EventItems(Sorted(Pending))
            /\ UNCHANGED buffer
    /\ UNCHANGED <<store, connection, after, snap, delivered, client>>

FlushEnd ==
    /\ conn /\ stage = "flush" /\ todo = <<>>
    /\ stage' = "live" /\ buffer' = {}
    /\ UNCHANGED <<store, connection, after, snap, todo, delivered, client>>

----------------------------------------------------------------------------
(* The sender, the client and the connection *)

SenderGet ==
    /\ conn /\ hand = <<>> /\ outq # <<>>
    /\ hand' = <<Head(outq)>> /\ outq' = Tail(outq)
    /\ UNCHANGED <<store, conn, slow, subscription, client>>

(* _handle_event and load_snapshot on the client *)
Receive(item) ==
    CASE item.kind = "event" ->
            /\ cursor' = Max({cursor, item.seq}) /\ known' = known \cup {item.seq}
            /\ received' = received \cup {item.seq}
      [] item.kind = "snapshot" ->
            /\ cursor' = Max({cursor, item.seq}) /\ known' = known \cup 1..item.seq
            /\ UNCHANGED received
      [] OTHER -> UNCHANGED client

(* The connection is gone: _cleanup_client *)
Hangup ==
    /\ conn' = FALSE /\ slow' = FALSE /\ outq' = <<>> /\ hand' = <<>>
    /\ NoSubscription

(* Bug: a slow consumer is not closed *)
MutSenderSend ==
    /\ conn /\ hand # <<>>
    /\ Receive(hand[1])
    /\ hand' = <<>> /\ UNCHANGED <<conn, slow, outq, subscription>>
    /\ UNCHANGED store

(* The item reaches the client; a slow consumer is closed after it *)
SenderSend ==
    /\ conn /\ hand # <<>>
    /\ Receive(hand[1])
    /\ IF slow THEN Hangup
       ELSE hand' = <<>> /\ UNCHANGED <<conn, slow, outq, subscription>>
    /\ UNCHANGED store

Connect ==
    /\ ~conn
    /\ conn' = TRUE
    /\ UNCHANGED <<store, slow, outq, hand, subscription, client>>

Disconnect == conn /\ Hangup /\ UNCHANGED <<store, client>>

----------------------------------------------------------------------------
Handler ==
    \/ Replay \/ TakeSnapshot \/ PutInitial \/ PutInitialTimeout
    \/ FlushBegin \/ FlushEnd

Next ==
    \/ Emit \/ BundleAppend \/ BundleNotify \/ \E k \in 1..MaxSeq : Prune(k)
    \/ Snapshot \/ Subscribe \/ SubscribeAgain \/ Handler
    \/ SenderGet \/ SenderSend \/ Connect \/ Disconnect

(* The event loop runs the handler and the sender, and the client reads.   *)
(* Nothing is assumed of the producers or of the network.                  *)
Fairness == WF_vars(Handler) /\ WF_vars(SenderGet) /\ WF_vars(SenderSend)

Spec == Init /\ [][Next]_vars /\ Fairness

----------------------------------------------------------------------------
(* Properties *)

TypeOK ==
    /\ last \in 0..MaxSeq /\ present \subseteq 1..last /\ floor \in 0..last
    /\ owed \in Seq(1..MaxSeq) /\ lossy \in BOOLEAN
    /\ conn \in BOOLEAN /\ slow \in BOOLEAN
    /\ outq \in Seq(Item) /\ Len(outq) <= QueueMax
    /\ hand \in Seq(Item) /\ Len(hand) <= 1
    /\ stage \in {"off", "replay", "snapshot", "put", "flush", "live"}
    /\ after \in 0..last /\ snap \in 0..last /\ todo \in Seq(Item)
    /\ buffer \subseteq 1..last /\ delivered \in 0..last
    /\ cursor \in 0..last /\ known \subseteq 1..last /\ received \subseteq known

InFlight == hand \o outq
Covers(item, n) ==
    \/ item.kind = "event" /\ n = item.seq
    \/ item.kind = "snapshot" /\ n <= item.seq
Covered(items) == {n \in 1..last : \E i \in 1..Len(items) : Covers(items[i], n)}

(* What is on its way to the client is news: no event is sent twice or out *)
(* of order, and no snapshot takes the client back behind what it already  *)
(* has; through replays, snapshots, prunes, reconnections and bundles.     *)
NewsOnly ==
    \A i \in 1..Len(InFlight) :
        LET item == InFlight[i]
        IN /\ item.kind = "event" =>
                /\ \A n \in received : n < item.seq
                /\ \A j \in 1..i - 1 : InFlight[j].kind = "event" => InFlight[j].seq < item.seq
           /\ item.kind = "snapshot" =>
                /\ cursor <= item.seq
                /\ \A j \in 1..i - 1 : InFlight[j].kind # "response" => InFlight[j].seq <= item.seq

CursorIsWhole == 1..cursor \subseteq known
LiveMissesNothing ==
    stage = "live" /\ ~slow =>
        1..last \ ToSet(owed) \subseteq known \cup Covered(InFlight)

(* The client has every event up to its cursor, or a snapshot that covers  *)
(* it: reconnecting with that cursor loses nothing ("Disconnect/reconnect  *)
(* with last_seq loses and duplicates no event").  And a live subscription *)
(* misses nothing: every committed event that has been announced is with   *)
(* the client or on its way, unless the client is about to be closed as a  *)
(* slow consumer.  This holds until a replay is cut off by its limit, an   *)
(* event is announced while a buffer is flushed, or an event overtakes a   *)
(* bundle.                                                                 *)
NoGap == ~lossy => CursorIsWhole /\ LiveMissesNothing

(* A connected, subscribed client that reads gets every event that has     *)
(* been announced, or is disconnected, unless the server does one of those *)
(* things; no subscription hangs half-made.                                *)
CatchesUp ==
    \A n \in 1..MaxSeq :
        stage # "off" /\ n \in 1..last \ ToSet(owed) ~> n \in known \/ ~conn \/ lossy
=============================================================================
