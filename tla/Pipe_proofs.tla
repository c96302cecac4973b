------------------------ MODULE Pipe_proofs ------------------------
(***************************************************************************)
(* What Desktop's connections carry, for any clients and requests:         *)
(*  - the event stream implements the promised feed, for any sources,      *)
(*    number of events and socket buffers: its initial states are initial  *)
(*    states of EventFeed, and each of its steps is a step of EventFeed or *)
(*    leaves what Desktop sees alone;                                      *)
(*  - the server (PipeServer) runs each request once.                      *)
(* The two components share no state; the names of PipeServer that         *)
(* EventStream has too begin with Pipe.                                    *)
(***************************************************************************)
EXTENDS EventStream, PipeServer, SequenceTheorems, TLAPS

(* The state of the feed.                                                  *)

Emitted == {e \in Event : e[2] <= count[e[1]]}

Owed == [c \in Client |-> {g.event : g \in {h \in callbacks : h.client = c}}]

Got == [c \in Client |-> MessagesOf(Written(c)) \ {Ack}]

(* The inductive invariant.                                                *)

\* A connection without a handler has no callback and has not been closed.
HandlerInv == \A c \in Client : handler[c] = "none" => c \notin subscribers \union hungup

\* The flag is set only when a write to the connection has failed.
CancelInv == cancelled \subseteq hungup

\* A goroutine has an event that was emitted, which is its alone.
CallbackInv ==
    /\ \A g \in callbacks : g.event \in Emitted
    /\ \A g, h \in callbacks : g.client = h.client /\ g.event = h.event => g = h

IInv == TypeOK /\ HandlerInv /\ CancelInv /\ CallbackInv

-----------------------------------------------------------------------------
(* Sequences of messages.                                                  *)

\* A message written behind others joins them.
LEMMA MessagesOfAppend ==
    ASSUME NEW seq \in Seq(Message), NEW m \in Message
    PROVE  MessagesOf(Append(seq, m)) = MessagesOf(seq) \union {m}
<1>1. DOMAIN Append(seq, m) = 1 .. Len(seq) + 1 /\ DOMAIN seq = 1 .. Len(seq) /\ Len(seq) \in Nat
  BY AppendProperties
<1>2. \A i \in 1 .. Len(seq) : Append(seq, m)[i] = seq[i]
  BY AppendProperties
<1>3. Append(seq, m)[Len(seq) + 1] = m
  BY AppendProperties
<1>4. \A i : i \in 1 .. Len(seq) + 1 <=> i \in 1 .. Len(seq) \/ i = Len(seq) + 1
  BY <1>1
<1>5. QED  BY <1>1, <1>2, <1>3, <1>4 DEF MessagesOf

\* What a client has read and what it has yet to read, when a message is written.
LEMMA WriteBehind ==
    ASSUME NEW r \in Seq(Message), NEW w \in Seq(Message), NEW m \in Message
    PROVE  r \o Append(w, m) = Append(r \o w, m)
<1>1. <<m>> \in Seq(Message) /\ r \o w \in Seq(Message)
  BY ConcatProperties
<1>2. r \o (w \o <<m>>) = (r \o w) \o <<m>>
  BY <1>1, ConcatAssociative
<1>3. QED  BY <1>1, <1>2, AppendIsConcat

\* Reading a message moves the border between the two and nothing else.
LEMMA ReadFront ==
    ASSUME NEW r \in Seq(Message), NEW w \in Seq(Message), w # <<>>
    PROVE  Append(r, Head(w)) \o Tail(w) = r \o w
<1> DEFINE h == Head(w)
           t == Tail(w)
<1>1. h \in Message /\ t \in Seq(Message) /\ <<h>> \in Seq(Message)
  BY HeadTailProperties
<1>2. <<h>> \o t = w
  BY <1>1, HeadTailProperties
<1> HIDE DEF h, t
<1>3. Append(r, h) = r \o <<h>>
  BY <1>1, AppendIsConcat
<1>4. (r \o <<h>>) \o t = r \o (<<h>> \o t)
  BY <1>1, ConcatAssociative
<1>5. QED  BY <1>2, <1>3, <1>4 DEF h, t

-----------------------------------------------------------------------------
(* What the feed sees of goroutines and messages.                          *)

\* A client is owed an event exactly when a goroutine has it for that client.
LEMMA OwedMember ==
    ASSUME NEW c \in Client, NEW e
    PROVE  e \in Owed[c] <=> \E g \in callbacks : g.client = c /\ g.event = e
BY DEF Owed

\* An event is not the acknowledgment.
LEMMA AckIsNoEvent == Ack \notin Event
BY DEF Ack, Event

\* A message joins what its client has got, and only that.
LEMMA GotAfterWrite ==
    ASSUME TypeOK, NEW c \in Client, NEW m \in Message, Write(c, m), UNCHANGED received
    PROVE  /\ wire' \in [Client -> Seq(Message)]
           /\ Got' = [Got EXCEPT ![c] = @ \union ({m} \ {Ack})]
<1>1. \A d \in Client : received[d] \in Seq(Message) /\ wire[d] \in Seq(Message)
  BY DEF TypeOK
<1>2. \A d \in Client : wire'[d] = IF d = c THEN Append(wire[d], m) ELSE wire[d]
  BY DEF Write, TypeOK
<1>3. Append(wire[c], m) \in Seq(Message)
  BY <1>1, AppendProperties
<1>4. wire' \in [Client -> Seq(Message)]
  BY <1>3 DEF Write, TypeOK
<1>5. MessagesOf(received[c] \o Append(wire[c], m)) = MessagesOf(Written(c)) \union {m}
  <2>1. received[c] \o wire[c] \in Seq(Message)
    BY <1>1, ConcatProperties
  <2>2. received[c] \o Append(wire[c], m) = Append(received[c] \o wire[c], m)
    BY <1>1, WriteBehind
  <2>3. QED  BY <2>1, <2>2, MessagesOfAppend DEF Written
<1>6. \A d \in Client :
         MessagesOf(Written(d))' = IF d = c THEN MessagesOf(Written(d)) \union {m}
                                   ELSE MessagesOf(Written(d))
  <2>1. ASSUME NEW d \in Client
        PROVE  Written(d)' = IF d = c THEN received[d] \o Append(wire[d], m) ELSE Written(d)
    BY <1>2 DEF Written
  <2>2. ASSUME NEW d \in Client
        PROVE  MessagesOf(Written(d))' = MessagesOf(Written(d)')
    BY DEF MessagesOf
  <2>3. QED  BY <1>5, <2>1, <2>2
<1>7. \A d \in Client : Got'[d] = IF d = c THEN Got[d] \union ({m} \ {Ack}) ELSE Got[d]
  BY <1>6 DEF Got
<1>8. QED  BY <1>4, <1>7 DEF Got

\* A client that reads what was written has not got more.
LEMMA GotAfterReceive ==
    ASSUME TypeOK, NEW c \in Client, Receive(c)
    PROVE  /\ wire' \in [Client -> Seq(Message)]
           /\ received' \in [Client -> Seq(Message)]
           /\ Got' = Got
<1>1. received[c] \in Seq(Message) /\ wire[c] \in Seq(Message) /\ wire[c] # <<>>
  BY DEF TypeOK, Receive
<1>2. Head(wire[c]) \in Message /\ Tail(wire[c]) \in Seq(Message)
  BY <1>1, HeadTailProperties
<1>3. Append(received[c], Head(wire[c])) \in Seq(Message)
  BY <1>1, <1>2, AppendProperties
<1>4. /\ received' = [received EXCEPT ![c] = Append(@, Head(wire[c]))]
      /\ wire' = [wire EXCEPT ![c] = Tail(@)]
  BY DEF Receive
<1>5. wire' \in [Client -> Seq(Message)] /\ received' \in [Client -> Seq(Message)]
  BY <1>2, <1>3, <1>4 DEF TypeOK
<1>6. Append(received[c], Head(wire[c])) \o Tail(wire[c]) = received[c] \o wire[c]
  BY <1>1, ReadFront
<1>7. \A d \in Client : Written(d)' = Written(d)
  BY <1>4, <1>6 DEF Written, TypeOK
<1>8. ASSUME NEW d \in Client  PROVE MessagesOf(Written(d))' = MessagesOf(Written(d))
  BY <1>7 DEF MessagesOf
<1>9. QED  BY <1>5, <1>8 DEF Got

\* A goroutine that ends takes its event from what its client is owed: no other
\* goroutine has the event for that client.
LEMMA OwedAfterEnd ==
    ASSUME TypeOK, CallbackInv, NEW g \in callbacks, callbacks' = callbacks \ {g}
    PROVE  Owed' = [Owed EXCEPT ![g.client] = @ \ {g.event}]
<1>1. g.client \in Client
  BY DEF TypeOK
<1>2. ASSUME NEW c \in Client
      PROVE  Owed'[c] = IF c = g.client THEN Owed[c] \ {g.event} ELSE Owed[c]
  <2>1. ASSUME NEW e
        PROVE  e \in Owed'[c] <=> e \in Owed[c] /\ ~(c = g.client /\ e = g.event)
    <3>1. e \in Owed'[c] <=> \E h \in callbacks \ {g} : h.client = c /\ h.event = e
      BY DEF Owed
    <3>2. QED  BY <3>1, OwedMember DEF CallbackInv
  <2>2. QED  BY <2>1
<1>3. QED  BY <1>1, <1>2 DEF Owed

\* A goroutine that goes on to its write is still owed.
LEMMA OwedAfterCheck ==
    ASSUME TypeOK, NEW g \in callbacks,
           callbacks' = (callbacks \ {g}) \union {[g EXCEPT !.at = "write"]}
    PROVE  Owed' = Owed
<1> DEFINE h == [g EXCEPT !.at = "write"]
<1>1. h.client = g.client /\ h.event = g.event
  BY DEF TypeOK
<1> HIDE DEF h
<1>2. ASSUME NEW c \in Client  PROVE Owed'[c] = Owed[c]
  <2>1. ASSUME NEW e  PROVE e \in Owed'[c] <=> e \in Owed[c]
    <3>1. e \in Owed'[c] <=> \E k \in (callbacks \ {g}) \union {h} : k.client = c /\ k.event = e
      BY DEF Owed, h
    <3>2. QED  BY <1>1, <3>1, OwedMember
  <2>2. QED  BY <2>1
<1>3. QED  BY <1>2 DEF Owed

\* emit owes its event to the subscribers of its snapshot.
LEMMA OwedAfterEmit ==
    ASSUME TypeOK, NEW e, callbacks' = callbacks \union Callbacks(e)
    PROVE  Owed' = [c \in Client |-> IF c \in subscribers THEN Owed[c] \union {e} ELSE Owed[c]]
<1>1. ASSUME NEW c \in Client
      PROVE  Owed'[c] = IF c \in subscribers THEN Owed[c] \union {e} ELSE Owed[c]
  <2>1. ASSUME NEW f
        PROVE  f \in Owed'[c] <=> f \in Owed[c] \/ (c \in subscribers /\ f = e)
    <3>1. f \in Owed'[c] <=> \E g \in callbacks \union Callbacks(e) : g.client = c /\ g.event = f
      BY DEF Owed
    <3>2. \A g \in Callbacks(e) : g.client \in subscribers /\ g.event = e
      BY DEF Callbacks
    <3>3. c \in subscribers => \E g \in Callbacks(e) : g.client = c /\ g.event = e
      <4>1. [client |-> c, event |-> e, at |-> "check"].client = c
            /\ [client |-> c, event |-> e, at |-> "check"].event = e
        OBVIOUS
      <4>2. c \in subscribers => [client |-> c, event |-> e, at |-> "check"] \in Callbacks(e)
        BY DEF Callbacks
      <4>3. QED  BY <4>1, <4>2
    <3>4. f \in Owed[c] <=> \E g \in callbacks : g.client = c /\ g.event = f
      BY OwedMember
    <3>5. QED  BY <3>1, <3>2, <3>3, <3>4
  <2>2. QED  BY <2>1
<1>2. QED  BY <1>1 DEF Owed

-----------------------------------------------------------------------------
(* Every step is a step of the feed, or leaves it alone.                   *)

FeedVars == <<subscribers, hungup, Emitted, Owed, Got>>

\* The feed's next-state relation in the terms of the stream.
LEMMA FeedStep ==
    ASSUME \/ UNCHANGED FeedVars
           \/ \E e \in Event : Feed!Emit(e)
           \/ \E c \in Client : Feed!Subscribe(c) \/ Feed!Fail(c) \/ Feed!Unsubscribe(c)
           \/ \E c \in Client, e \in Event : Feed!Deliver(c, e) \/ Feed!Lose(c, e)
    PROVE  [Feed!Next]_(Feed!vars)
BY DEF Feed!Next, Feed!vars, FeedVars, Emitted, Owed, Got

\* The handler: it registers a callback once, and takes it away when the
\* connection has been closed.  The acknowledgment is no event.
LEMMA HandlerStep ==
    ASSUME IInv, NEW c \in Client, Subscribe(c) \/ Handler(c)
    PROVE  IInv' /\ [Feed!Next]_(Feed!vars)
<1>1. UNCHANGED <<count, callbacks, cancelled, hungup, received>>
  BY DEF Subscribe, Handler, SendAck, Unsubscribe
<1>2. /\ handler' \in [Client -> {"none", "registered", "reading", "returned"}]
      /\ subscribers' \subseteq Client
  BY DEF IInv, TypeOK, Subscribe, Handler, SendAck, Unsubscribe
<1>3. HandlerInv'
  BY <1>1 DEF IInv, TypeOK, HandlerInv, Subscribe, Handler, SendAck, Unsubscribe
<1>4. CancelInv' /\ CallbackInv'
  BY <1>1 DEF IInv, CancelInv, CallbackInv, Emitted
<1>5. Emitted' = Emitted /\ Owed' = Owed
  BY <1>1 DEF Emitted, Owed
<1>6. CASE UNCHANGED wire
  <2>1. IInv'  BY <1>1, <1>2, <1>3, <1>4, <1>6 DEF IInv, TypeOK, Event
  <2>2. Got' = Got  BY <1>1, <1>6 DEF Got, Written, MessagesOf
  <2>3. CASE Subscribe(c)
    <3>1. Feed!Subscribe(c)
      BY <1>1, <1>5, <2>2, <2>3
         DEF IInv, HandlerInv, Subscribe, Feed!Subscribe, Emitted, Owed, Got
    <3>2. QED  BY <2>1, <3>1, FeedStep
  <2>4. CASE SendAck(c)
    <3>1. UNCHANGED FeedVars
      BY <1>1, <1>5, <2>2, <2>4 DEF SendAck, FeedVars
    <3>2. QED  BY <2>1, <3>1, FeedStep
  <2>5. CASE Unsubscribe(c)
    <3>1. Feed!Unsubscribe(c)
      BY <1>1, <1>5, <2>2, <2>5 DEF Unsubscribe, Feed!Unsubscribe, Emitted, Owed, Got
    <3>2. QED  BY <2>1, <3>1, FeedStep
  <2>6. QED  BY <2>3, <2>4, <2>5 DEF Handler
<1>7. CASE SendAck(c) /\ Write(c, Ack)
  <2>1. Ack \in Message  BY DEF Message
  <2>2. wire' \in [Client -> Seq(Message)] /\ Got' = [Got EXCEPT ![c] = @ \union ({Ack} \ {Ack})]
    BY <1>1, <1>7, <2>1, GotAfterWrite DEF IInv
  <2>3. IInv'  BY <1>1, <1>2, <1>3, <1>4, <2>2 DEF IInv, TypeOK, Event
  <2>4. Got' = Got  BY <2>2 DEF Got
  <2>5. UNCHANGED FeedVars
    BY <1>1, <1>5, <1>7, <2>4 DEF SendAck, FeedVars
  <2>6. QED  BY <2>3, <2>5, FeedStep
<1>8. QED  BY <1>6, <1>7 DEF Subscribe, Handler, SendAck, Unsubscribe

\* emit: the event is new, and every subscriber is owed it.
LEMMA EmitStep ==
    ASSUME IInv, NEW src \in Source, Emit(src), NEW e, e = <<src, count[src] + 1>>
    PROVE  IInv' /\ [Feed!Next]_(Feed!vars)
<1>1. /\ count[src] \in 0 .. MaxEvents /\ count[src] < MaxEvents
      /\ count' = [count EXCEPT ![src] = @ + 1]
      /\ callbacks' = callbacks \union Callbacks(e)
      /\ UNCHANGED <<handler, subscribers, cancelled, hungup, wire, received>>
  BY DEF IInv, TypeOK, Emit
<1>2. e \in Event /\ e \notin Emitted
  BY <1>1, ConstantsAssumption DEF Event, Emitted
<1>3. Emitted' = Emitted \union {e}
  <2>1. ASSUME NEW f \in Event  PROVE f[2] <= count'[f[1]] <=> f[2] <= count[f[1]] \/ f = e
    <3>1. PICK s \in Source, i \in 1 .. MaxEvents : f = <<s, i>>
      BY DEF Event
    <3>2. count[s] \in 0 .. MaxEvents /\ count'[s] = IF s = src THEN count[s] + 1 ELSE count[s]
      BY <1>1 DEF IInv, TypeOK
    <3>3. i <= count'[s] <=> i <= count[s] \/ (s = src /\ i = count[src] + 1)
      BY <1>1, <3>2, ConstantsAssumption
    <3>4. QED  BY <3>1, <3>3
  <2>2. QED  BY <1>2, <2>1 DEF Emitted
<1>4. \A g \in Callbacks(e) : g.client \in subscribers /\ g.event = e /\ g.at = "check"
                             /\ g = [client |-> g.client, event |-> e, at |-> "check"]
  BY DEF Callbacks
<1>5. Owed' = [c \in Client |-> IF c \in subscribers THEN Owed[c] \union {e} ELSE Owed[c]]
  BY <1>1, OwedAfterEmit DEF IInv
<1>6. Got' = Got
  BY <1>1 DEF Got, Written, MessagesOf
<1>7. Feed!Emit(e)
  BY <1>1, <1>2, <1>3, <1>5, <1>6 DEF Feed!Emit, Emitted, Owed, Got
<1>8. TypeOK'
  <2>1. count' \in [Source -> 0 .. MaxEvents]
    BY <1>1, ConstantsAssumption DEF IInv, TypeOK
  <2>2. Callbacks(e) \subseteq [client : Client, event : Event, at : {"check", "write"}]
    <3>1. subscribers \subseteq Client  BY DEF IInv, TypeOK
    <3>2. \A c \in Client : [client |-> c, event |-> e, at |-> "check"]
                            \in [client : Client, event : Event, at : {"check", "write"}]
      BY <1>2
    <3>3. QED  BY <3>1, <3>2 DEF Callbacks
  <2>3. QED  BY <1>1, <2>1, <2>2 DEF IInv, TypeOK
<1>9. HandlerInv' /\ CancelInv'
  BY <1>1 DEF IInv, HandlerInv, CancelInv
<1>10. CallbackInv'
  <2>1. \A g \in callbacks' : g.event \in Emitted'
    BY <1>1, <1>3, <1>4 DEF IInv, CallbackInv
  <2>2. ASSUME NEW g \in callbacks', NEW h \in callbacks', g.client = h.client, g.event = h.event
        PROVE  g = h
    <3>1. CASE g \in callbacks /\ h \in callbacks
      BY <2>2, <3>1 DEF IInv, CallbackInv
    <3>2. CASE g \in Callbacks(e) /\ h \in Callbacks(e)
      BY <1>4, <2>2, <3>2
    <3>3. CASE (g.event = e /\ h \in callbacks) \/ (h.event = e /\ g \in callbacks)
      BY <1>2, <2>2, <3>3 DEF IInv, CallbackInv
    <3>4. QED  BY <1>1, <1>4, <3>1, <3>2, <3>3
  <2>3. QED  BY <2>1, <2>2 DEF CallbackInv
<1>11. [Feed!Next]_(Feed!vars)
  BY <1>2, <1>7, FeedStep
<1>12. QED  BY <1>8, <1>9, <1>10, <1>11 DEF IInv

\* A goroutine ends, whatever it does with its event, without another's.
LEMMA EndKeeps ==
    ASSUME IInv, NEW g \in callbacks, callbacks' = callbacks \ {g},
           cancelled' \subseteq cancelled \union {g.client},
           cancelled' # cancelled => g.client \in hungup,
           wire' \in [Client -> Seq(Message)],
           UNCHANGED <<handler, subscribers, count, hungup, received>>
    PROVE  IInv'
<1>1. g.client \in Client  BY DEF IInv, TypeOK
<1>2. cancelled' \subseteq hungup  BY DEF IInv, CancelInv
<1>3. TypeOK'  BY <1>1 DEF IInv, TypeOK
<1>4. HandlerInv' /\ CancelInv'  BY <1>2 DEF IInv, HandlerInv, CancelInv
<1>5. CallbackInv'  BY DEF IInv, CallbackInv, Emitted
<1>6. QED  BY <1>3, <1>4, <1>5 DEF IInv

\* A goroutine: it delivers its event, or loses it to a connection that failed.
LEMMA CallbackStep ==
    ASSUME IInv, NEW g \in callbacks, Callback(g)
    PROVE  IInv' /\ [Feed!Next]_(Feed!vars)
<1>1. g.client \in Client /\ g.event \in Event /\ g.event \in Owed[g.client]
  BY OwedMember DEF IInv, TypeOK
<1>2. UNCHANGED <<handler, subscribers, count, hungup, received>>
  BY DEF Callback, Check, WriteEvent, WriteFails
<1>3. Emitted' = Emitted
  BY <1>2 DEF Emitted
<1>4. CASE callbacks' = callbacks \ {g} /\ UNCHANGED wire /\ g.client \in hungup
           /\ cancelled' \subseteq cancelled \union {g.client}
  <2>1. IInv'  BY <1>2, <1>4, EndKeeps DEF IInv, TypeOK
  <2>2. Owed' = [Owed EXCEPT ![g.client] = @ \ {g.event}]
    BY <1>4, OwedAfterEnd DEF IInv
  <2>3. Got' = Got  BY <1>2, <1>4 DEF Got, Written, MessagesOf
  <2>4. Feed!Lose(g.client, g.event)
    BY <1>1, <1>2, <1>3, <1>4, <2>2, <2>3 DEF Feed!Lose, Emitted, Owed, Got
  <2>5. QED  BY <1>1, <2>1, <2>4, FeedStep
<1>5. CASE WriteEvent(g)
  <2>1. g.event \in Message /\ {g.event} \ {Ack} = {g.event}
    BY <1>1, AckIsNoEvent DEF Message
  <2>2. callbacks' = callbacks \ {g} /\ g.client \notin hungup /\ UNCHANGED cancelled
        /\ Write(g.client, g.event)
    BY <1>5 DEF WriteEvent
  <2>3. /\ wire' \in [Client -> Seq(Message)]
        /\ Got' = [Got EXCEPT ![g.client] = @ \union ({g.event} \ {Ack})]
    BY <1>1, <1>2, <2>1, <2>2, GotAfterWrite DEF IInv
  <2>4. IInv'  BY <1>2, <2>2, <2>3, EndKeeps
  <2>5. Owed' = [Owed EXCEPT ![g.client] = @ \ {g.event}]
    BY <2>2, OwedAfterEnd DEF IInv
  <2>6. Got' = [Got EXCEPT ![g.client] = @ \union {g.event}]
    BY <2>1, <2>3
  <2>7. Feed!Deliver(g.client, g.event)
    BY <1>1, <1>2, <1>3, <2>2, <2>5, <2>6 DEF Feed!Deliver, Emitted, Owed, Got
  <2>8. QED  BY <1>1, <2>4, <2>7, FeedStep
<1>6. CASE /\ callbacks' = (callbacks \ {g}) \union {[g EXCEPT !.at = "write"]}
           /\ UNCHANGED <<cancelled, wire>>
  <2> DEFINE h == [g EXCEPT !.at = "write"]
  <2>1. /\ h.client = g.client /\ h.event = g.event
        /\ h \in [client : Client, event : Event, at : {"check", "write"}]
    BY DEF IInv, TypeOK
  <2> HIDE DEF h
  <2>2. callbacks' = (callbacks \ {g}) \union {h}
    BY <1>6 DEF h
  <2>3. TypeOK' /\ HandlerInv' /\ CancelInv'
    BY <1>2, <1>6, <2>1, <2>2 DEF IInv, TypeOK, HandlerInv, CancelInv
  <2>4. CallbackInv'
    BY <1>3, <2>1, <2>2 DEF IInv, CallbackInv
  <2>5. Owed' = Owed  BY <1>6, OwedAfterCheck DEF IInv
  <2>6. Got' = Got  BY <1>2, <1>6 DEF Got, Written, MessagesOf
  <2>7. UNCHANGED FeedVars  BY <1>2, <1>3, <2>5, <2>6 DEF FeedVars
  <2>8. QED  BY <2>3, <2>4, <2>7, FeedStep DEF IInv
<1>7. CASE Check(g)
  <2>1. CASE g.client \in cancelled
    <3>1. callbacks' = callbacks \ {g} /\ UNCHANGED <<cancelled, wire>> /\ g.client \in hungup
      BY <1>7, <2>1 DEF Check, IInv, CancelInv
    <3>2. QED  BY <1>4, <3>1
  <2>2. CASE g.client \notin cancelled
    BY <1>6, <1>7, <2>2 DEF Check
  <2>3. QED  BY <2>1, <2>2
<1>8. CASE WriteFails(g)
  BY <1>4, <1>8 DEF WriteFails
<1>9. QED  BY <1>5, <1>7, <1>8 DEF Callback

\* The client: what it reads it had got when it was written; a connection it
\* closes is the failure after which it gets nothing.
LEMMA ClientStep ==
    ASSUME IInv, NEW c \in Client, Receive(c) \/ HangUp(c)
    PROVE  IInv' /\ [Feed!Next]_(Feed!vars)
<1>1. UNCHANGED <<handler, subscribers, count, callbacks, cancelled>>
  BY DEF Receive, HangUp
<1>2. Emitted' = Emitted /\ Owed' = Owed
  BY <1>1 DEF Emitted, Owed
<1>3. CASE Receive(c)
  <2>1. /\ wire' \in [Client -> Seq(Message)] /\ received' \in [Client -> Seq(Message)]
        /\ Got' = Got /\ UNCHANGED hungup
    BY <1>3, GotAfterReceive DEF IInv, Receive
  <2>2. IInv'
    BY <1>1, <1>2, <2>1 DEF IInv, TypeOK, Event, HandlerInv, CancelInv, CallbackInv
  <2>3. UNCHANGED FeedVars  BY <1>1, <1>2, <2>1 DEF FeedVars
  <2>4. QED  BY <2>2, <2>3, FeedStep
<1>4. CASE HangUp(c)
  <2>1. UNCHANGED <<wire, received>> /\ hungup' = hungup \union {c} /\ handler[c] # "none"
    BY <1>4 DEF HangUp
  <2>2. IInv'
    BY <1>1, <1>2, <2>1 DEF IInv, TypeOK, Event, HandlerInv, CancelInv, CallbackInv
  <2>3. Got' = Got  BY <2>1 DEF Got, Written, MessagesOf
  <2>4. Feed!Fail(c)
    BY <1>1, <1>2, <2>1, <2>3 DEF Feed!Fail, Emitted, Owed, Got
  <2>5. QED  BY <2>2, <2>4, FeedStep
<1>5. QED  BY <1>3, <1>4

-----------------------------------------------------------------------------
(* The theorems.                                                           *)

\* The stream begins as a feed nobody has subscribed to.
LEMMA InitMaps == Init => IInv /\ Feed!Init
<1> SUFFICES ASSUME Init  PROVE IInv /\ Feed!Init
  OBVIOUS
<1>1. \A c \in Client : Written(c) = <<>>
  <2>1. <<>> \in Seq(Message) /\ <<>> \o <<>> = <<>>
    BY ConcatEmptySeq
  <2>2. QED  BY <2>1 DEF Init, Written
<1>2. MessagesOf(<<>>) = {}
  BY DEF MessagesOf
<1>3. Got = [c \in Client |-> {}]
  BY <1>1, <1>2 DEF Got
<1>4. Owed = [c \in Client |-> {}]
  BY DEF Init, Owed
<1>5. Emitted = {}
  <2>1. ASSUME NEW e \in Event  PROVE ~(e[2] <= count[e[1]])
    BY ConstantsAssumption DEF Init, Event
  <2>2. QED  BY <2>1 DEF Emitted
<1>6. Feed!Init
  BY <1>3, <1>4, <1>5 DEF Init, Feed!Init, Emitted, Owed, Got
<1>7. TypeOK
  BY ConstantsAssumption DEF Init, TypeOK
<1>8. HandlerInv /\ CancelInv /\ CallbackInv
  BY DEF Init, HandlerInv, CancelInv, CallbackInv
<1>9. QED  BY <1>6, <1>7, <1>8 DEF IInv

\* Every step keeps the invariant and maps to a step of the feed or a stutter.
LEMMA NextMaps == IInv /\ [Next]_vars => IInv' /\ [Feed!Next]_(Feed!vars)
<1> SUFFICES ASSUME IInv, [Next]_vars  PROVE IInv' /\ [Feed!Next]_(Feed!vars)
  OBVIOUS
<1>1. CASE Next
  <2>1. ASSUME NEW src \in Source, Emit(src)  PROVE IInv' /\ [Feed!Next]_(Feed!vars)
    <3>1. PICK e : e = <<src, count[src] + 1>>  OBVIOUS
    <3>2. QED  BY <2>1, <3>1, EmitStep
  <2>2. QED  BY <1>1, <2>1, HandlerStep, CallbackStep, ClientStep DEF Next
<1>2. CASE UNCHANGED vars
  <2>1. UNCHANGED <<handler, subscribers, count, callbacks, cancelled, hungup, wire, received>>
    BY <1>2 DEF vars
  <2>2. IInv'
    BY <2>1 DEF IInv, TypeOK, HandlerInv, CancelInv, CallbackInv, Emitted, Event
  <2>3. UNCHANGED FeedVars
    BY <2>1 DEF FeedVars, Emitted, Owed, Got, Written, MessagesOf
  <2>4. QED  BY <2>2, <2>3, FeedStep
<1>3. QED  BY <1>1, <1>2

\* The inductive invariant: an event in flight is one goroutine's, and only a
\* closed connection is cancelled.
THEOREM Inductive == Spec => []IInv
<1>1. QED  BY InitMaps, NextMaps, PTL DEF Spec

\* The variables keep their types, for any clients, sources and events.
THEOREM TypeCorrect == Spec => []TypeOK
<1>1. IInv => TypeOK  BY DEF IInv
<1>2. QED  BY <1>1, Inductive, PTL

\* emitEvent, its goroutines and handleSubscribeEvents implement the feed.
THEOREM StreamImplementsFeed == Spec => FeedSpec
<1>1. Init => Feed!Init  BY InitMaps
<1>2. IInv /\ [Next]_vars => [Feed!Next]_(Feed!vars)  BY NextMaps
<1>3. QED  BY <1>1, <1>2, Inductive, PTL DEF Spec, FeedSpec, Feed!Spec

-----------------------------------------------------------------------------
(* The requests of a connection.                                           *)

InInbox(r, c) == \E i \in 1 .. Len(inbox[c]) : inbox[c][i] = r

\* What waits on a connection was sent on it,
WaitingInv == \A c \in Conn, r \in Request : InInbox(r, c) => conn[r] = c /\ call[r] = "sent"

\* and no request waits twice.
OnceInv ==
    \A c \in Conn : \A i, j \in 1 .. Len(inbox[c]) : inbox[c][i] = inbox[c][j] => i = j

\* The exit forgets what waits.
RequestInv == PipeTypeOK /\ (main # "exited" => WaitingInv /\ OnceInv)

\* What is behind the first request of an inbox.
LEMMA TailIs ==
    ASSUME NEW s \in Seq(Request), s # <<>>
    PROVE  /\ Head(s) \in Request /\ Tail(s) \in Seq(Request)
           /\ Head(s) = s[1] /\ 1 \in 1 .. Len(s)
           /\ \A i \in 1 .. Len(Tail(s)) : i + 1 \in 1 .. Len(s) /\ Tail(s)[i] = s[i + 1]
  OBVIOUS

\* Steps that leave requests alone.
LEMMA RequestsAlone ==
    ASSUME RequestInv, PipeTypeOK', UNCHANGED <<inbox, call>>, main = "exited" => main' = "exited"
    PROVE  RequestInv'
  BY DEF RequestInv, WaitingInv, OnceInv, InInbox

\* The next request of a connection is taken out of its inbox.
LEMMA TakeStep ==
    ASSUME RequestInv, NEW c \in Conn, main # "exited", inbox[c] # <<>>, NEW to,
           inbox' = [inbox EXCEPT ![c] = Tail(@)],
           call' = [call EXCEPT ![Head(inbox[c])] = to], UNCHANGED main, PipeTypeOK'
    PROVE  RequestInv' /\ call[Head(inbox[c])] = "sent"
  <1> DEFINE h == Head(inbox[c])
  <1>1. inbox[c] \in Seq(Request) /\ WaitingInv /\ OnceInv /\ inbox \in [Conn -> Seq(Request)]
    BY DEF RequestInv, PipeTypeOK
  <1>2. /\ h \in Request /\ h = inbox[c][1] /\ 1 \in 1 .. Len(inbox[c])
        /\ \A i \in 1 .. Len(Tail(inbox[c])) :
              i + 1 \in 1 .. Len(inbox[c]) /\ Tail(inbox[c])[i] = inbox[c][i + 1]
    BY <1>1, TailIs
  <1>3. InInbox(h, c)
    BY <1>2 DEF InInbox
  <1>4. conn[h] = c /\ call[h] = "sent"
    BY <1>1, <1>2, <1>3 DEF WaitingInv
  <1>5. ASSUME NEW d \in Conn, NEW i \in 1 .. Len(inbox'[d])
        PROVE  /\ \E k \in 1 .. Len(inbox[d]) : inbox'[d][i] = inbox[d][k] /\ k = IF d = c THEN i + 1 ELSE i
               /\ inbox'[d][i] # h
    <2>1. CASE d = c
      <3>1. inbox'[d] = Tail(inbox[c])
        BY <1>1, <2>1
      <3>2. i + 1 \in 1 .. Len(inbox[c]) /\ inbox'[d][i] = inbox[c][i + 1]
        BY <1>2, <3>1
      <3>3. i + 1 # 1
        BY <1>1, <3>1, <2>1
      <3>4. inbox[c][i + 1] # inbox[c][1]
        BY <1>1, <1>2, <3>2, <3>3 DEF OnceInv
      <3> QED
        BY <1>2, <2>1, <3>2, <3>4
    <2>2. CASE d # c
      <3>1. inbox'[d] = inbox[d]
        BY <1>1, <2>2
      <3>2. inbox[d][i] # h
        BY <1>1, <1>2, <1>4, <2>2, <3>1 DEF WaitingInv, InInbox
      <3> QED
        BY <2>2, <3>1, <3>2
    <2> QED
      BY <2>1, <2>2
  <1>6. ASSUME NEW d \in Conn, NEW r \in Request, InInbox(r, d)'
        PROVE  conn[r] = d /\ call'[r] = "sent"
    <2>1. PICK i \in 1 .. Len(inbox'[d]) : inbox'[d][i] = r
      BY <1>6 DEF InInbox
    <2>2. InInbox(r, d) /\ r # h
      BY <1>5, <2>1 DEF InInbox
    <2> QED
      BY <1>1, <2>2 DEF WaitingInv, RequestInv, PipeTypeOK
  <1>7. OnceInv'
    <2> SUFFICES ASSUME NEW d \in Conn, NEW i \in 1 .. Len(inbox'[d]), NEW j \in 1 .. Len(inbox'[d]),
                        inbox'[d][i] = inbox'[d][j]
                 PROVE  i = j
      BY DEF OnceInv
    <2>1. PICK k \in 1 .. Len(inbox[d]) : inbox'[d][i] = inbox[d][k] /\ k = IF d = c THEN i + 1 ELSE i
      BY <1>5
    <2>2. PICK l \in 1 .. Len(inbox[d]) : inbox'[d][j] = inbox[d][l] /\ l = IF d = c THEN j + 1 ELSE j
      BY <1>5
    <2>3. k = l
      BY <1>1, <2>1, <2>2 DEF OnceInv
    <2>4. i \in Int /\ j \in Int
      OBVIOUS
    <2> QED
      BY <2>1, <2>2, <2>3, <2>4
  <1> QED
    BY <1>4, <1>6, <1>7 DEF RequestInv, WaitingInv

\* A request joins the inbox of its connection.
LEMMA SendStep ==
    ASSUME RequestInv, NEW r \in Request, NEW k \in Kind, main # "exited", Send(r, k), PipeTypeOK'
    PROVE  RequestInv'
  <1> DEFINE c == conn[r]
  <1>1. /\ c \in Conn /\ inbox[c] \in Seq(Request) /\ inbox \in [Conn -> Seq(Request)]
        /\ WaitingInv /\ OnceInv /\ UNCHANGED main
    BY PipeAssumption DEF RequestInv, PipeTypeOK, Send, serverVars
  <1>2. /\ call[r] = "unsent" /\ call' = [call EXCEPT ![r] = "sent"]
        /\ inbox' = [inbox EXCEPT ![c] = Append(@, r)]
    BY DEF Send
  <1>3. inbox'[c] = Append(inbox[c], r) /\ \A d \in Conn : d # c => inbox'[d] = inbox[d]
    BY <1>1, <1>2
  <1>4. /\ Len(inbox'[c]) = Len(inbox[c]) + 1 /\ Len(inbox[c]) \in Nat
        /\ \A i \in 1 .. Len(inbox[c]) : inbox'[c][i] = inbox[c][i]
        /\ inbox'[c][Len(inbox[c]) + 1] = r
    BY <1>1, <1>3
  <1>5. \A d \in Conn : \A i \in 1 .. Len(inbox[d]) : inbox[d][i] # r
    BY <1>1, <1>2 DEF WaitingInv, InInbox
  <1>6. ASSUME NEW d \in Conn, NEW q \in Request, InInbox(q, d)'
        PROVE  conn[q] = d /\ call'[q] = "sent"
    <2>1. CASE q = r /\ d = c
      BY <1>2, <2>1 DEF RequestInv, PipeTypeOK
    <2>2. CASE InInbox(q, d)
      BY <1>1, <1>2, <2>2 DEF WaitingInv, RequestInv, PipeTypeOK
    <2>3. InInbox(q, d) \/ (q = r /\ d = c)
      <3>1. PICK i \in 1 .. Len(inbox'[d]) : inbox'[d][i] = q
        BY <1>6 DEF InInbox
      <3>2. CASE d # c
        BY <1>3, <3>1, <3>2 DEF InInbox
      <3>3. CASE d = c
        <4>1. i \in 1 .. Len(inbox[c]) \/ i = Len(inbox[c]) + 1
          BY <1>4, <3>1, <3>3
        <4> QED
          BY <1>4, <3>1, <3>3, <4>1 DEF InInbox
      <3> QED
        BY <3>2, <3>3
    <2> QED
      BY <2>1, <2>2, <2>3
  <1>7. OnceInv'
    <2> SUFFICES ASSUME NEW d \in Conn, NEW i \in 1 .. Len(inbox'[d]), NEW j \in 1 .. Len(inbox'[d]),
                        inbox'[d][i] = inbox'[d][j]
                 PROVE  i = j
      BY DEF OnceInv
    <2>1. CASE d # c
      BY <1>1, <1>3, <2>1 DEF OnceInv
    <2>2. CASE d = c
      <3> DEFINE n == Len(inbox[c])
      <3>1. n \in Nat /\ i \in 1 .. n + 1 /\ j \in 1 .. n + 1
        BY <1>4, <2>2
      <3>2. CASE i \in 1 .. n /\ j \in 1 .. n
        <4>1. inbox[c][i] = inbox[c][j]
          BY <1>4, <2>2, <3>2
        <4> QED
          BY <1>1, <3>2, <4>1 DEF OnceInv
      <3>3. i = n + 1 <=> j = n + 1
        <4>1. \A m \in 1 .. n : inbox'[c][m] # r
          BY <1>1, <1>4, <1>5
        <4> QED
          BY <1>4, <2>2, <3>1, <4>1
      <3> QED
        BY <3>1, <3>2, <3>3
    <2> QED
      BY <2>1, <2>2
  <1> QED
    BY <1>6, <1>7 DEF RequestInv, WaitingInv

\* A call that is over, or runs, waits nowhere.
LEMMA CallStep ==
    ASSUME RequestInv, NEW r \in Request, call[r] # "sent", NEW to, UNCHANGED <<inbox, main>>,
           call' = [call EXCEPT ![r] = to], PipeTypeOK'
    PROVE  RequestInv'
  <1> SUFFICES ASSUME main # "exited" PROVE WaitingInv' /\ OnceInv'
    BY DEF RequestInv
  <1>1. WaitingInv /\ OnceInv /\ call \in [Request -> {"unsent", "sent", "running", "answered", "lost"}]
    BY DEF RequestInv, PipeTypeOK
  <1>2. OnceInv'
    BY <1>1 DEF OnceInv
  <1>3. \A q \in Request : q # r => call'[q] = call[q]
    BY <1>1
  <1>4. WaitingInv'
    BY <1>1, <1>3 DEF WaitingInv, InInbox
  <1> QED
    BY <1>2, <1>4

-----------------------------------------------------------------------------
(* The steps of the server and of its clients.                             *)

\* The end of a call.
Final == {"answered", "lost"}

Keeps(r) == call[r] \in Final => call'[r] = call[r]

LEMMA MainStep ==
    ASSUME RequestInv, \/ StartServer \/ SignalArrives \/ Main \/ AcceptorEnds
    PROVE  RequestInv' /\ \A r \in Request : Keeps(r)
  <1> USE DEF PipeTypeOK
  <1>0. PipeTypeOK
    BY DEF RequestInv
  <1>1. CASE StartServer
    <2>1. PipeTypeOK'
      BY <1>0, <1>1 DEF StartServer
    <2> QED
      BY <1>1, <2>1, RequestsAlone DEF StartServer, Keeps
  <1>2. CASE SignalArrives
    <2>1. PipeTypeOK'
      BY <1>0, <1>2 DEF SignalArrives
    <2> QED
      BY <1>2, <2>1, RequestsAlone DEF SignalArrives, Keeps
  <1>3. CASE ShutdownReturns
    <2>1. PipeTypeOK'
      BY <1>0, <1>3 DEF ShutdownReturns
    <2> QED
      BY <1>3, <2>1, RequestsAlone DEF ShutdownReturns, Keeps
  <1>4. CASE CloseQuit
    <2>1. quit' \in BOOLEAN /\ main' = "closing" /\ main = "stopping"
      BY <1>4 DEF CloseQuit
    <2>2. UNCHANGED <<listener, acceptor, peer, connection, inbox, kind, call>>
      BY <1>4 DEF CloseQuit
    <2>3. PipeTypeOK'
      BY <1>0, <2>1, <2>2
    <2> QED
      BY <2>1, <2>2, <2>3, RequestsAlone DEF Keeps
  <1>5. CASE CloseListener
    <2>1. PipeTypeOK'
      BY <1>0, <1>5 DEF CloseListener
    <2> QED
      BY <1>5, <2>1, RequestsAlone DEF CloseListener, Keeps
  <1>6. CASE Exit
    <2>1. PipeTypeOK'
      BY <1>0, <1>6 DEF Exit
    <2>2. \A r \in Request : Keeps(r)
      BY <1>6 DEF Exit, Keeps, Final
    <2> QED
      BY <1>6, <2>1, <2>2 DEF Exit, RequestInv
  <1>7. CASE AcceptorEnds
    <2>1. PipeTypeOK'
      BY <1>0, <1>7 DEF AcceptorEnds
    <2> QED
      BY <1>7, <2>1, RequestsAlone DEF AcceptorEnds, Keeps
  <1> QED
    BY <1>1, <1>2, <1>3, <1>4, <1>5, <1>6, <1>7 DEF Main

LEMMA ServeStep ==
    ASSUME RequestInv, main # "exited", NEW c \in Conn, Serve(c)
    PROVE  RequestInv' /\ \A r \in Request : Keeps(r)
  <1> USE DEF PipeTypeOK, serverVars
  <1>0. PipeTypeOK
    BY DEF RequestInv
  <1>1. CASE Accept(c)
    <2>1. PipeTypeOK'
      BY <1>0, <1>1 DEF Accept
    <2> QED
      BY <1>1, <2>1, RequestsAlone DEF Accept, Keeps
  <1>2. CASE CheckQuit(c)
    <2>1. PipeTypeOK'
      BY <1>0, <1>2 DEF CheckQuit
    <2> QED
      BY <1>2, <2>1, RequestsAlone DEF CheckQuit, Keeps
  <1>3. CASE ReadFails(c)
    <2>1. PipeTypeOK'
      BY <1>0, <1>3 DEF ReadFails
    <2> QED
      BY <1>3, <2>1, RequestsAlone DEF ReadFails, Keeps
  <1>4. ASSUME inbox[c] # <<>>
        PROVE  Head(inbox[c]) \in Request /\ Tail(inbox[c]) \in Seq(Request)
    BY <1>0, <1>4, TailIs
  <1>5. CASE ReadRequest(c)
    <2>1. PipeTypeOK'
      BY <1>0, <1>4, <1>5 DEF ReadRequest
    <2>2. RequestInv' /\ call[Head(inbox[c])] = "sent"
      BY <1>5, <2>1, TakeStep DEF ReadRequest
    <2>3. \A r \in Request : r # Head(inbox[c]) => call'[r] = call[r]
      BY <1>0, <1>5 DEF ReadRequest
    <2> QED
      BY <2>2, <2>3 DEF Keeps, Final
  <1>6. CASE StreamDiscards(c)
    <2>1. PipeTypeOK'
      BY <1>0, <1>4, <1>6 DEF StreamDiscards
    <2>2. RequestInv' /\ call[Head(inbox[c])] = "sent"
      BY <1>6, <2>1, TakeStep DEF StreamDiscards
    <2>3. \A r \in Request : r # Head(inbox[c]) => call'[r] = call[r]
      BY <1>0, <1>6 DEF StreamDiscards
    <2> QED
      BY <2>2, <2>3 DEF Keeps, Final
  <1> QED
    BY <1>1, <1>2, <1>3, <1>5, <1>6 DEF Serve

LEMMA ConnStep ==
    ASSUME RequestInv, main # "exited", NEW c \in Conn, Connect(c) \/ ClientHangsUp(c)
    PROVE  RequestInv' /\ \A r \in Request : Keeps(r)
  <1>1. PipeTypeOK'
    BY DEF RequestInv, PipeTypeOK, Connect, ClientHangsUp, serverVars
  <1> QED
    BY <1>1, RequestsAlone DEF Connect, ClientHangsUp, serverVars, Keeps

LEMMA RequestStep ==
    ASSUME RequestInv, main # "exited", NEW q \in Request,
           Finish(q) \/ \E k \in Kind : Send(q, k)
    PROVE  RequestInv' /\ \A r \in Request : Keeps(r)
  <1>0. PipeTypeOK
    BY DEF RequestInv
  <1>1. CASE Finish(q)
    <2>1. PICK to \in Final : call' = [call EXCEPT ![q] = to]
      BY <1>1 DEF Finish, Final
    <2>2. PipeTypeOK'
      BY <1>0, <1>1, <2>1 DEF PipeTypeOK, Finish, serverVars, Final
    <2>3. RequestInv'
      BY <1>1, <2>1, <2>2, CallStep DEF Finish, serverVars
    <2> QED
      BY <1>0, <1>1, <2>1, <2>3 DEF PipeTypeOK, Finish, Keeps, Final
  <1>2. ASSUME NEW k \in Kind, Send(q, k)
        PROVE  RequestInv' /\ \A r \in Request : Keeps(r)
    <2>1. inbox' \in [Conn -> Seq(Request)]
      <3>1. conn[q] \in Conn /\ inbox[conn[q]] \in Seq(Request)
        BY <1>0, PipeAssumption DEF PipeTypeOK
      <3>2. Append(inbox[conn[q]], q) \in Seq(Request)
        BY <3>1
      <3> QED
        BY <1>0, <1>2, <3>2 DEF PipeTypeOK, Send
    <2>2. PipeTypeOK'
      BY <1>0, <1>2, <2>1 DEF PipeTypeOK, Send, serverVars
    <2>3. RequestInv'
      BY <1>2, <2>2, SendStep
    <2> QED
      BY <1>0, <1>2, <2>3 DEF PipeTypeOK, Send, Keeps, Final
  <1> QED
    BY <1>1, <1>2

LEMMA PipeStep ==
    ASSUME RequestInv, [PipeNext]_pipeVars
    PROVE  RequestInv' /\ \A r \in Request : Keeps(r)
  <1>1. CASE UNCHANGED pipeVars
    BY <1>1 DEF pipeVars, serverVars, RequestInv, PipeTypeOK, WaitingInv, OnceInv, InInbox, Keeps
  <1> QED
    BY <1>1, MainStep, ServeStep, ConnStep, RequestStep DEF PipeNext

-----------------------------------------------------------------------------
(* The theorems about requests.                                            *)

\* Until the daemon exits, what waits in a connection's buffer was sent on that
\* connection, is not yet run, and waits once.
THEOREM RequestsInductive == PipeSpec => []RequestInv
  <1>1. PipeInit => RequestInv
    <2> SUFFICES ASSUME PipeInit PROVE RequestInv
      OBVIOUS
    <2>1. /\ inbox \in [Conn -> Seq(Request)] /\ kind \in [Request -> Kind]
          /\ call \in [Request -> {"unsent", "sent", "running", "answered", "lost"}]
      BY DEF PipeInit, Kind
    <2>2. /\ peer \in [Conn -> {"none", "connected", "closed"}]
          /\ connection \in [Conn -> {"none", "checking", "reading", "streaming", "returned"}]
      BY DEF PipeInit
    <2>3. \A c \in Conn : Len(inbox[c]) = 0
      BY DEF PipeInit
    <2>4. WaitingInv /\ OnceInv
      BY <2>3 DEF WaitingInv, OnceInv, InInbox
    <2>5. PipeTypeOK
      BY <2>1, <2>2 DEF PipeInit, PipeTypeOK
    <2> QED
      BY <2>4, <2>5 DEF RequestInv
  <1>2. RequestInv /\ [PipeNext]_pipeVars => RequestInv'
    BY PipeStep
  <1> QED
    BY <1>1, <1>2, PTL DEF PipeSpec

\* The types of the server's state, for any connections and requests.
THEOREM PipeTypeCorrect == PipeSpec => []PipeTypeOK
  BY RequestsInductive, PTL DEF RequestInv

\* A request is run once and answered or lost once, whatever shares its
\* connection and whenever the daemon stops.
THEOREM RequestsAreAnsweredOnce == PipeSpec => AnsweredOnce
  <1>1. RequestInv /\ [PipeNext]_pipeVars =>
            [\A r \in Request : call[r] \in {"answered", "lost"} => call'[r] = call[r]]_pipeVars
    BY PipeStep DEF Keeps, Final
  <1> QED
    BY <1>1, RequestsInductive, PTL DEF PipeSpec, AnsweredOnce
=============================================================================
