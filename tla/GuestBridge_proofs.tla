------------------------ MODULE GuestBridge_proofs ------------------------
(***************************************************************************)
(* Proofs about the bridge to the guest, for any number of connections and *)
(* processes: the channel of a Forward is never used twice, and a Forward  *)
(* that waits is known to whoever will end its wait.                       *)
(***************************************************************************)
EXTENDS GuestBridge, SequenceTheorems, TLAPS

\* A Forward in the map has its channel open: whoever uses the channel takes it
\* out of the map in the same critical section.
PendingInv ==
    \A k \in pending : reply[k] = "open" /\ call[k] \in {"registered", "waiting"}

\* A Forward past its first look holds a connection, and its channel is in the
\* map until it has been used.
ForwardInv ==
    \A k \in Call :
        /\ call[k] \in {"begun", "registered", "waiting"} => over[k] \in Conn
        /\ call[k] \in {"registered", "waiting"} => reply[k] # "none"
        /\ call[k] \in {"registered", "waiting"} /\ reply[k] = "open" => k \in pending

\* acceptLoop has a connection from accept4 on, and only that one is up.
LinkInv ==
    /\ acceptor \notin {"calling", "waiting", "ended"} => current \in Conn
    /\ \A c \in Conn :
          link[c] = "up" =>
              current = c /\ acceptor \in {"accepted", "attached", "reading", "lost", "detaching"}

\* The connection whose loss acceptLoop will turn into closed channels.
Handled(c) ==
    current = c /\ acceptor \in {"accepted", "attached", "reading", "lost", "detaching", "emptying"}

\* A Forward that waits on an open channel waits for the connection acceptLoop
\* handles.
WaitInv ==
    \A k \in Call : call[k] = "waiting" /\ reply[k] = "open" => Handled(over[k])

IInv == TypeOK /\ PendingInv /\ ForwardInv /\ LinkInv /\ WaitInv /\ NoPanic

-----------------------------------------------------------------------------
(* The steps of acceptLoop.                                                *)

\* What the guest writes is read back one message at a time.
LEMMA MessageType ==
    ASSUME NEW seq \in Seq({"ok", "error", "exit"} \X Call), seq # <<>>
    PROVE  /\ Head(seq)[1] \in {"ok", "error", "exit"}
           /\ Head(seq)[2] \in Call
           /\ Head(seq)[2][2] \in Proc
           /\ Tail(seq) \in Seq({"ok", "error", "exit"} \X Call)
<1>1. Head(seq) \in {"ok", "error", "exit"} \X Call /\ Tail(seq) \in Seq({"ok", "error", "exit"} \X Call)
  BY HeadTailProperties
<1>2. QED  BY <1>1 DEF Call

\* accept4 gives acceptLoop a connection nobody has used yet.
LEMMA AcceptStep == IInv /\ (CallAccept \/ \E c \in Conn : AcceptReturns(c)) => IInv'
<1> SUFFICES ASSUME IInv, CallAccept \/ \E c \in Conn : AcceptReturns(c)  PROVE IInv'
  OBVIOUS
<1> USE DEF IInv
<1>1. CASE CallAccept
  <2> USE <1>1 DEF CallAccept, callVars, closeVars, guestVars, tableVars
  <2>1. TypeOK'
    <3>1. acceptor' \in {"waiting", "ended"}  OBVIOUS
    <3>2. QED  BY <3>1 DEF TypeOK
  <2>2. PendingInv' /\ ForwardInv' /\ NoPanic'  BY DEF PendingInv, ForwardInv, NoPanic
  <2>3. LinkInv'  BY DEF LinkInv
  <2>4. WaitInv'  BY DEF WaitInv, Handled
  <2>5. QED  BY <2>1, <2>2, <2>3, <2>4
<1>2. ASSUME NEW c \in Conn, AcceptReturns(c)  PROVE IInv'
  <2> USE <1>2 DEF AcceptReturns, AcceptorGoesTo, callVars, closeVars, guestVars, tableVars
  <2>1. TypeOK'  BY DEF TypeOK
  <2>2. PendingInv' /\ ForwardInv' /\ NoPanic'  BY DEF PendingInv, ForwardInv, NoPanic
  <2>3. LinkInv'  BY DEF LinkInv, TypeOK
  <2>4. WaitInv'  BY DEF WaitInv, Handled
  <2>5. QED  BY <2>1, <2>2, <2>3, <2>4
<1>3. QED  BY <1>1, <1>2

\* Between accept4 and the end of readLoop nothing becomes of waiting calls.
LEMMA AttachStep ==
    IInv /\ (Attach \/ SetConnected \/ ReadFails \/ LoseConnected) => IInv'
<1> SUFFICES ASSUME IInv, Attach \/ SetConnected \/ ReadFails \/ LoseConnected  PROVE IInv'
  OBVIOUS
<1> USE DEF IInv, Attach, SetConnected, ReadFails, LoseConnected, AcceptorGoesTo,
            callVars, closeVars, guestVars, tableVars
<1>1. TypeOK'  BY DEF TypeOK
<1>2. PendingInv' /\ ForwardInv' /\ NoPanic'  BY DEF PendingInv, ForwardInv, NoPanic
<1>3. LinkInv'  BY DEF LinkInv
<1>4. WaitInv'  BY DEF WaitInv, Handled
<1>5. QED  BY <1>1, <1>2, <1>3, <1>4

\* The connection is closed, and what waits for it waits for the next step.
LEMMA DetachStep == IInv /\ Detach => IInv'
<1> SUFFICES ASSUME IInv, Detach  PROVE IInv'
  OBVIOUS
<1> USE DEF IInv, Detach, AcceptorGoesTo, callVars, closeVars, guestVars, tableVars
<1>1. TypeOK'
  <2>1. current \in Conn  BY DEF LinkInv
  <2>2. QED  BY <2>1 DEF TypeOK
<1>2. PendingInv' /\ ForwardInv' /\ NoPanic'  BY DEF PendingInv, ForwardInv, NoPanic
<1>3. LinkInv'  BY DEF LinkInv, TypeOK
<1>4. WaitInv'  BY DEF WaitInv, Handled
<1>5. QED  BY <1>1, <1>2, <1>3, <1>4

\* A message is for a Forward in the map, or for nobody; the id leaves the map
\* in the step that uses the channel.
LEMMA ReadStep == IInv /\ ReadMessage => IInv'
<1> SUFFICES ASSUME IInv, ReadMessage  PROVE IInv'
  OBVIOUS
<1> DEFINE kind == Head(wire[current])[1]
           k == Head(wire[current])[2]
<1>1. /\ acceptor = "reading" /\ wire[current] # <<>>
      /\ wire' = [wire EXCEPT ![current] = Tail(@)]
      /\ UNCHANGED <<acceptVars, closeVars, bound, conn, link, hostClosed, callVars, guestVars>>
  BY DEF ReadMessage
<1>2. \/ /\ processes' = processes \ {k[2]}
         /\ exited' = exited \union {k[2]}
         /\ UNCHANGED <<reply, pending>>
      \/ /\ kind # "exit" /\ k \in pending
         /\ pending' = pending \ {k}
         /\ reply' = [reply EXCEPT ![k] = IF @ = "open" THEN kind ELSE "panic"]
         /\ UNCHANGED tableVars
      \/ UNCHANGED <<reply, pending, tableVars>>
  BY DEF ReadMessage, TakePending, SendReply
<1>3. current \in Conn
  BY <1>1 DEF IInv, LinkInv
<1>4. kind \in {"ok", "error", "exit"} /\ k[2] \in Proc
      /\ Tail(wire[current]) \in Seq({"ok", "error", "exit"} \X Call)
  BY <1>1, <1>3, MessageType DEF IInv, TypeOK
<1> HIDE DEF kind, k
<1>5. wire' \in [Conn -> Seq({"ok", "error", "exit"} \X Call)]
  BY <1>1, <1>4 DEF IInv, TypeOK
<1> USE DEF acceptVars, closeVars, callVars, guestVars, tableVars
<1>6. CASE UNCHANGED <<reply, pending>>
  <2>1. processes' \subseteq processes \/ processes' = processes
    BY <1>2
  <2>2. processes' \subseteq Proc /\ exited' \subseteq Proc
    BY <1>2, <1>4 DEF IInv, TypeOK
  <2>3. TypeOK'  BY <1>1, <1>5, <1>6, <2>2 DEF IInv, TypeOK
  <2>4. PendingInv' /\ ForwardInv' /\ NoPanic' /\ LinkInv' /\ WaitInv'
    BY <1>1, <1>6 DEF IInv, PendingInv, ForwardInv, NoPanic, LinkInv, WaitInv, Handled
  <2>5. QED  BY <2>3, <2>4 DEF IInv
<1>7. CASE /\ kind # "exit" /\ k \in pending
           /\ pending' = pending \ {k}
           /\ reply' = [reply EXCEPT ![k] = IF @ = "open" THEN kind ELSE "panic"]
           /\ UNCHANGED tableVars
  <2>1. k \in Call /\ reply[k] = "open"
    BY <1>7 DEF IInv, TypeOK, PendingInv
  <2>2. reply' = [reply EXCEPT ![k] = kind] /\ kind \in {"ok", "error"}
    BY <1>4, <1>7, <2>1
  <2>3. TypeOK'  BY <1>1, <1>5, <1>7, <2>2 DEF IInv, TypeOK
  <2>4. \A j \in Call : reply'[j] = IF j = k THEN kind ELSE reply[j]
    BY <2>2 DEF IInv, TypeOK
  <2>5. PendingInv' /\ ForwardInv' /\ NoPanic'
    BY <1>1, <1>7, <2>2, <2>4 DEF IInv, TypeOK, PendingInv, ForwardInv, NoPanic
  <2>6. LinkInv' /\ WaitInv'
    BY <1>1, <2>2, <2>4 DEF IInv, LinkInv, WaitInv, Handled
  <2>7. QED  BY <2>3, <2>5, <2>6 DEF IInv
<1>8. QED  BY <1>2, <1>6, <1>7

\* The map is emptied in the step that closes its channels, which were open.
LEMMA EmptyStep == IInv /\ EmptyPending => IInv'
<1> SUFFICES ASSUME IInv, EmptyPending  PROVE IInv'
  OBVIOUS
<1> USE DEF IInv, EmptyPending, AcceptorGoesTo, callVars, closeVars, guestVars, tableVars
<1>1. \A k \in Call : reply'[k] = IF k \in pending THEN "closed" ELSE reply[k]
  BY DEF PendingInv
<1>2. \A k \in Call : reply[k] \in {"none", "open", "ok", "error", "closed", "panic"}
  BY DEF TypeOK
<1>3. reply' = [k \in Call |-> reply'[k]]
  OBVIOUS
<1>4. reply' \in [Call -> {"none", "open", "ok", "error", "closed", "panic"}]
  BY <1>1, <1>2, <1>3
<1>5. TypeOK'  BY <1>4 DEF TypeOK
<1>6. PendingInv' /\ NoPanic'  BY <1>1 DEF PendingInv, NoPanic
<1>7. ForwardInv'  BY <1>1 DEF ForwardInv
<1>8. LinkInv'  BY DEF LinkInv
<1>9. WaitInv'  BY <1>1 DEF WaitInv, ForwardInv
<1>10. QED  BY <1>5, <1>6, <1>7, <1>8, <1>9

-----------------------------------------------------------------------------
(* The steps of a Forward.                                                 *)

\* Forward looks at the connection.
LEMMA BeginStep == ASSUME NEW k \in Call  PROVE IInv /\ BeginForward(k) => IInv'
<1> SUFFICES ASSUME IInv, BeginForward(k)  PROVE IInv'
  OBVIOUS
<1> USE DEF IInv, BeginForward, CallGoesTo, acceptVars, closeVars, guestVars, tableVars
<1>1. TypeOK'  BY DEF TypeOK
<1>2. k \notin pending  BY DEF PendingInv
<1>3. PendingInv' /\ NoPanic'  BY <1>2 DEF PendingInv, NoPanic, TypeOK
<1>4. ForwardInv'  BY DEF ForwardInv, TypeOK
<1>5. LinkInv'  BY DEF LinkInv
<1>6. WaitInv'  BY DEF WaitInv, Handled, TypeOK
<1>7. QED  BY <1>1, <1>3, <1>4, <1>5, <1>6

\* Forward makes its channel and enters it in the map.
LEMMA RegisterStep == ASSUME NEW k \in Call  PROVE IInv /\ Register(k) => IInv'
<1> SUFFICES ASSUME IInv, Register(k)  PROVE IInv'
  OBVIOUS
<1> USE DEF IInv, Register, CallGoesTo, acceptVars, closeVars, guestVars, tableVars
<1>1. TypeOK'  BY DEF TypeOK
<1>2. PendingInv' /\ NoPanic'  BY DEF PendingInv, NoPanic, TypeOK
<1>3. ForwardInv'  BY DEF ForwardInv, TypeOK
<1>4. LinkInv'  BY DEF LinkInv
<1>5. WaitInv'  BY DEF WaitInv, Handled, TypeOK
<1>6. QED  BY <1>1, <1>2, <1>3, <1>4, <1>5

\* What is written to is up, so acceptLoop handles it.
LEMMA WriteStep == ASSUME NEW k \in Call  PROVE IInv /\ WriteRequest(k) => IInv'
<1> SUFFICES ASSUME IInv, WriteRequest(k)  PROVE IInv'
  OBVIOUS
<1> USE DEF IInv, WriteRequest, CallGoesTo, acceptVars, closeVars, tableVars
<1>1. TypeOK'  BY DEF TypeOK
<1>2. PendingInv' /\ NoPanic'  BY DEF PendingInv, NoPanic, TypeOK
<1>3. ForwardInv'  BY DEF ForwardInv, TypeOK
<1>4. LinkInv'  BY DEF LinkInv
<1>5. Handled(over[k])  BY DEF ForwardInv, LinkInv, Handled
<1>6. WaitInv'  BY <1>5 DEF WaitInv, Handled, TypeOK
<1>7. QED  BY <1>1, <1>2, <1>3, <1>4, <1>6

\* The other steps of a Forward end its wait.
LEMMA EndStep ==
    ASSUME NEW k \in Call
    PROVE  IInv /\ (WriteFails(k) \/ TakeReply(k) \/ Timeout(k) \/ Return(k)) => IInv'
<1> SUFFICES ASSUME IInv, WriteFails(k) \/ TakeReply(k) \/ Timeout(k) \/ Return(k)  PROVE IInv'
  OBVIOUS
<1>1. /\ call[k] # "idle"
      /\ \E to \in {"answered", "failed", "returned"} : call' = [call EXCEPT ![k] = to]
      /\ pending' \in {pending, pending \ {k}}
      /\ UNCHANGED <<acceptVars, closeVars, bound, conn, link, hostClosed, wire, over, reply,
                     guestVars>>
      /\ UNCHANGED exited
  BY DEF WriteFails, TakeReply, Timeout, Return, CallGoesTo, tableVars
<1>2. processes' \subseteq Proc
  BY DEF IInv, TypeOK, WriteFails, TakeReply, Timeout, Return, tableVars, Call
<1> USE DEF IInv, acceptVars, closeVars, guestVars
<1>3. TypeOK'
  <2>1. call' \in [Call -> {"idle", "begun", "registered", "waiting", "answered", "failed", "returned"}]
    BY <1>1 DEF TypeOK
  <2>2. pending' \subseteq Call
    BY <1>1 DEF TypeOK
  <2>3. QED  BY <1>1, <1>2, <2>1, <2>2 DEF TypeOK
<1>4. k \notin pending'
  <2>1. CASE WriteFails(k) \/ Timeout(k)
    BY <2>1 DEF WriteFails, Timeout
  <2>2. CASE TakeReply(k) \/ Return(k)
    BY <2>2 DEF TakeReply, Return, PendingInv
  <2>3. QED  BY <2>1, <2>2
<1>5. \A j \in Call : j # k => call'[j] = call[j] /\ (j \in pending' <=> j \in pending)
  BY <1>1 DEF TypeOK
<1>6. call'[k] \in {"answered", "failed", "returned"}
  BY <1>1 DEF TypeOK
<1>7. PendingInv' /\ NoPanic'  BY <1>1, <1>3, <1>4, <1>5 DEF PendingInv, NoPanic, TypeOK
<1>8. ForwardInv'  BY <1>1, <1>5, <1>6 DEF ForwardInv
<1>9. LinkInv'  BY <1>1 DEF LinkInv
<1>10. WaitInv'  BY <1>1, <1>5, <1>6 DEF WaitInv, Handled
<1>11. QED  BY <1>3, <1>7, <1>8, <1>9, <1>10

-----------------------------------------------------------------------------
(* Close and the guest.                                                    *)

\* Close takes the connection from its fields, not from acceptLoop.
LEMMA CloseStep == IInv /\ (StoreClosed \/ Closer) => IInv'
<1> SUFFICES ASSUME IInv, StoreClosed \/ Closer  PROVE IInv'
  OBVIOUS
<1>1. UNCHANGED <<acceptVars, link, wire, callVars, reply, pending, guestVars, exited>>
  BY DEF StoreClosed, Closer, CloseConn, CloseListener, ResetTable, tableVars
<1>2. /\ closer' \in {"closed", "unlinked", "done", "reset"}
      /\ listenFD' \in BOOLEAN /\ bound' \in BOOLEAN
  BY DEF IInv, TypeOK, StoreClosed, Closer, CloseConn, CloseListener, ResetTable, CloserGoesTo
<1>3. /\ conn' \in Conn \union {NoConn} /\ hostClosed' \in SUBSET Conn
      /\ processes' \in SUBSET Proc
  BY DEF IInv, TypeOK, StoreClosed, Closer, CloseConn, CloseListener, ResetTable, tableVars
<1> USE <1>1 DEF IInv, acceptVars, callVars, guestVars
<1>4. TypeOK'  BY <1>2, <1>3 DEF TypeOK
<1>5. PendingInv' /\ ForwardInv' /\ NoPanic'  BY DEF PendingInv, ForwardInv, NoPanic
<1>6. LinkInv' /\ WaitInv'  BY DEF LinkInv, WaitInv, Handled
<1>7. QED  BY <1>4, <1>5, <1>6

\* A step of the guest.
Guest ==
    \/ \E k \in Call, kind \in {"ok", "error"} : Answer(k, kind)
    \/ \E c \in Conn : Connect(c) \/ GuestGone(c)
    \/ \E c \in Conn, p \in Proc : ProcExits(p, c)

\* The guest makes no connection usable; it may only break one.
LEMMA GuestStep ==
    ASSUME IInv, Guest
    PROVE  IInv'
<1>1. UNCHANGED HostSees
  BY DEF Guest, Connect, GuestGone, ProcExits, Answer
<1>2. /\ link' \in [Conn -> {"none", "backlog", "dead", "up", "broken"}]
      /\ \A d \in Conn : link'[d] = "up" => link[d] = "up"
  <2>1. \/ UNCHANGED link
        \/ \E c \in Conn : link' = [link EXCEPT ![c] = "backlog"]
        \/ \E c \in Conn : link' = [link EXCEPT ![c] = IF @ = "up" THEN "broken" ELSE "dead"]
    BY DEF Guest, Connect, GuestGone, ProcExits, Answer
  <2>2. QED  BY <2>1 DEF IInv, TypeOK
<1> USE DEF HostSees, acceptVars, closeVars, callVars, tableVars
<1>3. received' \subseteq Call /\ guestProc' \in [Proc -> {"none", "running", "exited"}]
  BY DEF IInv, TypeOK, Guest, Connect, GuestGone, ProcExits, Answer, guestVars
<1>4. wire' \in [Conn -> Seq({"ok", "error", "exit"} \X Call)]
  <2>1. ASSUME NEW c \in Conn, Connect(c) \/ GuestGone(c)
        PROVE  wire' \in [Conn -> Seq({"ok", "error", "exit"} \X Call)]
    BY <2>1 DEF IInv, TypeOK, Connect, GuestGone
  <2>2. ASSUME NEW c \in Conn, NEW p \in Proc, ProcExits(p, c)
        PROVE  wire' \in [Conn -> Seq({"ok", "error", "exit"} \X Call)]
    <3>1. <<"exit", <<"spawn", p>>>> \in {"ok", "error", "exit"} \X Call
      BY DEF Call
    <3>2. wire[c] \in Seq({"ok", "error", "exit"} \X Call)  BY DEF IInv, TypeOK
    <3>3. Append(wire[c], <<"exit", <<"spawn", p>>>>) \in Seq({"ok", "error", "exit"} \X Call)
      BY <3>1, <3>2, AppendProperties
    <3>4. QED  BY <2>2, <3>3 DEF IInv, TypeOK, ProcExits, Says
  <2>3. ASSUME NEW k \in Call, NEW kind \in {"ok", "error"}, Answer(k, kind)
        PROVE  wire' \in [Conn -> Seq({"ok", "error", "exit"} \X Call)]
    <3>1. <<kind, k>> \in {"ok", "error", "exit"} \X Call
      OBVIOUS
    <3>2. ASSUME NEW d \in Conn
          PROVE  Append(wire[d], <<kind, k>>) \in Seq({"ok", "error", "exit"} \X Call)
      <4>1. wire[d] \in Seq({"ok", "error", "exit"} \X Call)  BY DEF IInv, TypeOK
      <4>2. QED  BY <3>1, <4>1, AppendProperties
    <3>3. wire' = [wire EXCEPT ![over[k]] = Append(@, <<kind, k>>)]
      BY <2>3 DEF Answer, Says
    <3>4. QED  BY <3>2, <3>3 DEF IInv, TypeOK
  <2>4. QED  BY <2>1, <2>2, <2>3 DEF Guest
<1>5. TypeOK'  BY <1>1, <1>2, <1>3, <1>4 DEF IInv, TypeOK
<1>6. PendingInv' /\ ForwardInv' /\ NoPanic'
  BY <1>1 DEF IInv, PendingInv, ForwardInv, NoPanic
<1>7. LinkInv' /\ WaitInv'
  BY <1>1, <1>2 DEF IInv, LinkInv, WaitInv, Handled
<1>8. QED  BY <1>5, <1>6, <1>7 DEF IInv

-----------------------------------------------------------------------------
(* The theorems.                                                           *)

\* The bridge that Listen leaves satisfies the invariant.
LEMMA InitHolds == Init => IInv
<1> SUFFICES ASSUME Init  PROVE IInv
  OBVIOUS
<1> USE DEF Init
<1>1. [c \in Conn |-> <<>>] \in [Conn -> Seq({"ok", "error", "exit"} \X Call)]
  OBVIOUS
<1>2. TypeOK  BY <1>1 DEF TypeOK
<1>3. PendingInv /\ ForwardInv /\ NoPanic  BY DEF PendingInv, ForwardInv, NoPanic
<1>4. LinkInv /\ WaitInv  BY DEF LinkInv, WaitInv
<1>5. QED  BY <1>2, <1>3, <1>4 DEF IInv

\* Every step keeps the invariant.
LEMMA NextKeeps == IInv /\ [Next]_vars => IInv'
<1> SUFFICES ASSUME IInv, [Next]_vars  PROVE IInv'
  OBVIOUS
<1>1. CASE Acceptor
  BY <1>1, AcceptStep, AttachStep, DetachStep, ReadStep, EmptyStep DEF Acceptor
<1>2. CASE StoreClosed \/ Closer
  BY <1>2, CloseStep
<1>3. ASSUME NEW k \in Call, BeginForward(k) \/ Forward(k) \/ Timeout(k)  PROVE IInv'
  BY <1>3, BeginStep, RegisterStep, WriteStep, EndStep DEF Forward
<1>4. CASE Guest
  BY <1>4, GuestStep
<1>5. CASE UNCHANGED vars
  <2> USE <1>5 DEF IInv, vars, acceptVars, closeVars, callVars, guestVars, tableVars
  <2>1. TypeOK'  BY DEF TypeOK
  <2>2. PendingInv' /\ ForwardInv' /\ NoPanic'  BY DEF PendingInv, ForwardInv, NoPanic
  <2>3. LinkInv' /\ WaitInv'  BY DEF LinkInv, WaitInv, Handled
  <2>4. QED  BY <2>1, <2>2, <2>3
<1>6. QED  BY <1>1, <1>2, <1>3, <1>4, <1>5 DEF Next, Guest

\* The inductive invariant of the bridge: channels, the map of waiting calls and
\* the connection acceptLoop handles stay in step.
THEOREM Inductive == Spec => []IInv
<1>1. QED  BY InitHolds, NextKeeps, PTL DEF Spec

\* The variables keep their types, for any connections and processes.
THEOREM TypeCorrect == Spec => []TypeOK
<1>1. IInv => TypeOK  BY DEF IInv
<1>2. QED  BY <1>1, Inductive, PTL

\* handleMessage, the time-out of Forward and the disconnect use a channel once
\* between them.
THEOREM ChannelsUsedOnce == Spec => []NoPanic
<1>1. IInv => NoPanic  BY DEF IInv
<1>2. QED  BY <1>1, Inductive, PTL

\* A Forward that waits on a channel nobody has used is in g.pending, and the
\* connection it wrote to is the one whose loss makes acceptLoop close it: no
\* wait is left to its time-out because a disconnect or Close came between.
WaitersAreKnown ==
    \A k \in Call :
        call[k] = "waiting" /\ reply[k] \notin {"ok", "error", "closed"}
            => k \in pending /\ Handled(over[k])

\* Every Forward that waits is known to acceptLoop.
THEOREM DisconnectReachesWaiters == Spec => []WaitersAreKnown
<1>1. IInv => WaitersAreKnown
  BY DEF IInv, WaitersAreKnown, ForwardInv, WaitInv, TypeOK, NoPanic
<1>2. QED  BY <1>1, Inductive, PTL
=============================================================================
