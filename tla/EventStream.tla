---------------------------- MODULE EventStream ----------------------------
(***************************************************************************)
(* The event stream, from a backend's emit to the bytes of a subscribed    *)
(* connection: SubscribeEvents and emitEvent of native/backend.go (the KVM *)
(* backend's emit fans out the same way), the callback and the read loop   *)
(* of handleSubscribeEvents in pipe/handlers.go, and WriteMessage.         *)
(*                                                                         *)
(* emit starts one goroutine per event and subscriber.  A goroutine writes *)
(* a whole message or nothing: writeMu and the single conn.Write see to    *)
(* that, so they are one step here, which waits while the client does not  *)
(* read and the socket's buffer is full.  What an event says is left out;  *)
(* a source is a sequence of emit calls, such as the reader of a process   *)
(* followed by its waiter.                                                 *)
(***************************************************************************)
EXTENDS Naturals, Sequences

CONSTANTS Client,     \* connections that subscribe
          Attentive,  \* the clients that keep reading
          Source,     \* sequences of emit calls
          MaxEvents,  \* events of a source
          Buffer      \* messages a socket holds

ASSUME ConstantsAssumption ==
    /\ Attentive \subseteq Client
    /\ MaxEvents \in Nat
    /\ Buffer \in Nat \ {0}

VARIABLES
    handler,     \* where handleSubscribeEvents is, for each connection
    subscribers, \* connections with a callback in b.subscribers
    count,       \* events each source has emitted
    callbacks,   \* goroutines of emit, each between its check and its write
    cancelled,   \* connections whose atomic flag is set
    hungup,      \* connections the client has closed
    wire,        \* messages written and not yet read, oldest first
    received     \* messages the client has read

vars == <<handler, subscribers, count, callbacks, cancelled, hungup, wire, received>>

Event == Source \X (1 .. MaxEvents)

\* The message that is not an event.
Ack == <<>>

Message == Event \union {Ack}

TypeOK ==
    /\ handler \in [Client -> {"none", "registered", "reading", "returned"}]
    /\ subscribers \subseteq Client
    /\ count \in [Source -> 0 .. MaxEvents]
    /\ callbacks \subseteq [client : Client, event : Event, at : {"check", "write"}]
    /\ cancelled \subseteq Client
    /\ hungup \subseteq Client
    /\ wire \in [Client -> Seq(Message)]
    /\ received \in [Client -> Seq(Message)]

-----------------------------------------------------------------------------
(* handleSubscribeEvents.                                                  *)

\* b.subscribers[id] = callback
Subscribe(c) ==
    /\ handler[c] = "none"
    /\ handler' = [handler EXCEPT ![c] = "registered"]
    /\ subscribers' = subscribers \union {c}
    /\ UNCHANGED <<count, callbacks, cancelled, hungup, wire, received>>

HasRoom(c) == Len(wire[c]) < Buffer

\* WriteMessage to a connection that is up.
Write(c, m) == wire' = [wire EXCEPT ![c] = Append(@, m)]

\* WriteResponse with the ack, whose failure is ignored.
SendAck(c) ==
    /\ handler[c] = "registered"
    /\ handler' = [handler EXCEPT ![c] = "reading"]
    /\ IF c \in hungup THEN UNCHANGED wire ELSE HasRoom(c) /\ Write(c, Ack)
    /\ UNCHANGED <<subscribers, count, callbacks, cancelled, hungup, received>>

\* ReadMessage fails: the callback is removed and the connection closed.
Unsubscribe(c) ==
    /\ handler[c] = "reading"
    /\ c \in hungup
    /\ handler' = [handler EXCEPT ![c] = "returned"]
    /\ subscribers' = subscribers \ {c}
    /\ UNCHANGED <<count, callbacks, cancelled, hungup, wire, received>>

Handler(c) == SendAck(c) \/ Unsubscribe(c)

-----------------------------------------------------------------------------
(* emit and its goroutines.                                                *)

\* One goroutine for each subscriber of the snapshot.
Callbacks(e) == {[client |-> c, event |-> e, at |-> "check"] : c \in subscribers}

\* The snapshot is taken under the read lock; launching follows.
Emit(src) ==
    /\ count[src] < MaxEvents
    /\ count' = [count EXCEPT ![src] = @ + 1]
    /\ callbacks' = callbacks \union Callbacks(<<src, count[src] + 1>>)
    /\ UNCHANGED <<handler, subscribers, cancelled, hungup, wire, received>>

\* A bug: a goroutine that finds the flag set does not end.
Mut_Check(g) ==
    /\ g.at = "check"
    /\ callbacks' = (callbacks \ {g}) \union
                    {[g EXCEPT !.at = IF g.client \in cancelled THEN "cancelled" ELSE "write"]}
    /\ UNCHANGED <<handler, subscribers, count, cancelled, hungup, wire, received>>

\* atomic.LoadInt32(&cancelled)
Check(g) ==
    /\ g.at = "check"
    /\ callbacks' = (callbacks \ {g}) \union
                    (IF g.client \in cancelled THEN {} ELSE {[g EXCEPT !.at = "write"]})
    /\ UNCHANGED <<handler, subscribers, count, cancelled, hungup, wire, received>>

\* A bug: the goroutine tries again what it has written.
Mut_WriteEvent(g) ==
    /\ g.at = "write" /\ g.client \notin hungup
    /\ HasRoom(g.client)
    /\ Write(g.client, g.event)
    /\ UNCHANGED <<handler, subscribers, count, callbacks, cancelled, hungup, received>>

\* A bug: writeMu is one mutex for all connections.
Mut_WriteEventGlobalMutex(g) ==
    /\ g.at = "write" /\ g.client \notin hungup
    /\ \A h \in callbacks : h.at = "write" /\ h.client \notin hungup => HasRoom(h.client)
    /\ callbacks' = callbacks \ {g}
    /\ Write(g.client, g.event)
    /\ UNCHANGED <<handler, subscribers, count, cancelled, hungup, received>>

WriteEvent(g) ==
    /\ g.at = "write" /\ g.client \notin hungup
    /\ HasRoom(g.client)
    /\ callbacks' = callbacks \ {g}
    /\ Write(g.client, g.event)
    /\ UNCHANGED <<handler, subscribers, count, cancelled, hungup, received>>

WriteFails(g) ==
    /\ g.at = "write" /\ g.client \in hungup
    /\ callbacks' = callbacks \ {g}
    /\ cancelled' = cancelled \union {g.client}
    /\ UNCHANGED <<handler, subscribers, count, hungup, wire, received>>

Callback(g) == Check(g) \/ WriteEvent(g) \/ WriteFails(g)

-----------------------------------------------------------------------------
(* The client.                                                             *)

Receive(c) ==
    /\ c \notin hungup
    /\ wire[c] # <<>>
    /\ received' = [received EXCEPT ![c] = Append(@, Head(wire[c]))]
    /\ wire' = [wire EXCEPT ![c] = Tail(@)]
    /\ UNCHANGED <<handler, subscribers, count, callbacks, cancelled, hungup>>

HangUp(c) ==
    /\ c \notin hungup
    /\ handler[c] # "none"
    /\ hungup' = hungup \union {c}
    /\ UNCHANGED <<handler, subscribers, count, callbacks, cancelled, wire, received>>

-----------------------------------------------------------------------------
Init ==
    /\ handler = [c \in Client |-> "none"]
    /\ subscribers = {}
    /\ count = [s \in Source |-> 0]
    /\ callbacks = {}
    /\ cancelled = {}
    /\ hungup = {}
    /\ wire = [c \in Client |-> <<>>]
    /\ received = [c \in Client |-> <<>>]

Next ==
    \/ \E c \in Client : Subscribe(c) \/ Handler(c) \/ Receive(c) \/ HangUp(c)
    \/ \E s \in Source : Emit(s)
    \/ \E g \in callbacks : Callback(g)

Spec == Init /\ [][Next]_vars

\* Goroutines run; of the clients only the attentive ones go on reading.
\* Sources emit as they please.
Fairness ==
    /\ \A c \in Client : WF_vars(Handler(c))
    /\ \A c \in Attentive : WF_vars(Receive(c))
    /\ \A c \in Client, e \in Event, at \in {"check", "write"} :
          LET g == [client |-> c, event |-> e, at |-> at] IN
          WF_vars(g \in callbacks /\ Callback(g))

FairSpec == Spec /\ Fairness

-----------------------------------------------------------------------------
(* Properties.                                                             *)

Written(c) == received[c] \o wire[c]

MessagesOf(seq) == {seq[i] : i \in DOMAIN seq}

\* Everything Desktop may rely on: see EventFeed.
Feed == INSTANCE EventFeed WITH
    feeding <- subscribers,
    failed <- hungup,
    emitted <- {e \in Event : e[2] <= count[e[1]]},
    owed <- [c \in Client |-> {g.event : g \in {h \in callbacks : h.client = c}}],
    got <- [c \in Client |-> MessagesOf(Written(c)) \ {Ack}]

\* emit, its goroutines and the handler implement the promised feed: no event
\* is lost on a live connection, sent twice or sent to one that did not subscribe.
FeedSpec == Feed!Spec

\* A client that keeps reading gets every event emitted while it is subscribed,
\* however long another client does not read.
AttentiveClientsGetEvents ==
    \A c \in Attentive, e \in Event :
        (\E g \in callbacks : g.client = c /\ g.event = e)
            ~> (e \in MessagesOf(received[c]) \/ c \in hungup)
=============================================================================
