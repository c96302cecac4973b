---------------------------- MODULE GuestBridge ----------------------------
(***************************************************************************)
(* The bridge of vm/bridge.go from Listen to Close, and the spawn and kill *)
(* calls vm/backend.go forwards over it: acceptLoop with its readLoop and  *)
(* handleMessage, one goroutine per Forward, and the goroutine of Close.   *)
(*                                                                         *)
(* A call is the spawn or the kill of one process; other methods behave    *)
(* like a kill whose result is ignored.  Every Forward has an id of its    *)
(* own, so the call stands for its id.  A guest that does not read is a    *)
(* write that does not come yet.  Descriptors are Linux's: a blocked       *)
(* accept4 keeps the listening socket alive after close, and, as accept4   *)
(* is called without SOCK_NONBLOCK, closing the os.File of a connection    *)
(* neither wakes its reader nor reaches the guest before the reader returns. *)
(***************************************************************************)
EXTENDS Sequences

CONSTANTS Conn,   \* connections guests make, each used once
          NoConn, \* Go's nil
          Proc    \* processes Desktop asks the guest to spawn

ASSUME ConstantsAssumption == NoConn \notin Conn

VARIABLES
    acceptor,   \* the goroutine of acceptLoop
    current,    \* the connection it handles
    closer,     \* how far Close got
    listenFD,   \* g.listenFD is open
    bound,      \* the vsock port is bound
    conn,       \* g.conn
    connected,  \* g.connected
    link,       \* each connection as the kernel sees it; "dead": gone before accept4
    hostClosed, \* connections whose os.File is closed
    wire,       \* messages of the guest not yet read
    call,       \* where each Forward, and the method around it, is
    over,       \* the connection a Forward uses
    reply,      \* a Forward's channel
    pending,    \* g.pending
    received,   \* calls the guest has received and not answered
    guestProc,  \* the processes in the guest
    processes,  \* b.processes
    exited      \* history: processes whose exit event has been emitted

acceptVars == <<acceptor, current, connected>>
closeVars  == <<closer, listenFD>>
guestVars  == <<received, guestProc>>
tableVars  == <<processes, exited>>
callVars   == <<call, over>>
vars == <<acceptVars, closeVars, bound, conn, link, hostClosed, wire, callVars, reply, pending,
          guestVars, tableVars>>

Call == {"spawn", "kill"} \X Proc

TypeOK ==
    /\ acceptor \in {"calling", "waiting", "accepted", "attached", "reading", "lost", "detaching",
                     "emptying", "ended"}
    /\ current \in Conn \union {NoConn}
    /\ connected \in BOOLEAN
    /\ closer \in {"none", "closed", "unlinked", "done", "reset"}
    /\ listenFD \in BOOLEAN
    /\ bound \in BOOLEAN
    /\ conn \in Conn \union {NoConn}
    /\ link \in [Conn -> {"none", "backlog", "dead", "up", "broken"}]
    /\ hostClosed \in SUBSET Conn
    /\ wire \in [Conn -> Seq({"ok", "error", "exit"} \X Call)]
    /\ call \in [Call -> {"idle", "begun", "registered", "waiting", "answered", "failed", "returned"}]
    /\ over \in [Call -> Conn \union {NoConn}]
    /\ reply \in [Call -> {"none", "open", "ok", "error", "closed", "panic"}]
    /\ pending \in SUBSET Call
    /\ received \in SUBSET Call
    /\ guestProc \in [Proc -> {"none", "running", "exited"}]
    /\ processes \in SUBSET Proc
    /\ exited \in SUBSET Proc

-----------------------------------------------------------------------------
(* acceptLoop.                                                             *)

AcceptorGoesTo(from, to) == acceptor = from /\ acceptor' = to

\* accept4 on g.listenFD: it blocks, or fails at once on a closed descriptor,
\* and the loop returns because closed was stored before.
CallAccept ==
    /\ acceptor = "calling"
    /\ acceptor' = IF listenFD THEN "waiting" ELSE "ended"
    /\ UNCHANGED <<current, connected, closeVars, bound, conn, link, hostClosed, wire, callVars,
                   reply, pending, guestVars, tableVars>>

\* accept4 returns; a listening socket that was closed meanwhile goes with it.
AcceptReturns(c) ==
    /\ AcceptorGoesTo("waiting", "accepted")
    /\ link[c] \in {"backlog", "dead"}
    /\ link' = [link EXCEPT ![c] = IF @ = "backlog" THEN "up" ELSE "broken"]
    /\ current' = c
    /\ bound' = listenFD
    /\ UNCHANGED <<connected, closeVars, conn, hostClosed, wire, callVars, reply, pending, guestVars,
                   tableVars>>

\* g.conn = conn; readLoop has returned, so there is no prior connection.
Attach ==
    /\ AcceptorGoesTo("accepted", "attached")
    /\ conn' = current
    /\ UNCHANGED <<current, connected, closeVars, bound, link, hostClosed, wire, callVars, reply,
                   pending, guestVars, tableVars>>

SetConnected ==
    /\ AcceptorGoesTo("attached", "reading")
    /\ connected' = TRUE
    /\ UNCHANGED <<current, closeVars, bound, conn, link, hostClosed, wire, callVars, reply, pending,
                   guestVars, tableVars>>

\* A bug: the id of an answered call stays in the map.
Mut_TakePending(k) == UNCHANGED pending

\* delete(g.pending, id)
TakePending(k) == pending' = pending \ {k}

\* ch <- reply; close(ch), which panics on a channel that is closed.
SendReply(k, r) ==
    reply' = [reply EXCEPT ![k] = IF @ = "open" THEN r ELSE "panic"]

\* One message, handled before the next is read.  An exit event goes through
\* emit, which takes the process out of the table.
ReadMessage ==
    /\ acceptor = "reading"
    /\ current \notin hostClosed
    /\ wire[current] # <<>>
    /\ wire' = [wire EXCEPT ![current] = Tail(@)]
    /\ LET kind == Head(wire[current])[1]
           k == Head(wire[current])[2]
       IN \/ /\ kind = "exit"
             /\ processes' = processes \ {k[2]}
             /\ exited' = exited \union {k[2]}
             /\ UNCHANGED <<reply, pending>>
          \/ /\ kind # "exit" /\ k \in pending
             /\ TakePending(k)
             /\ SendReply(k, kind)
             /\ UNCHANGED tableVars
          \/ /\ kind # "exit" /\ k \notin pending
             /\ UNCHANGED <<reply, pending, tableVars>>
    /\ UNCHANGED <<acceptVars, closeVars, bound, conn, link, hostClosed, callVars, guestVars>>

\* A blocked Read returns because the guest is gone, or because it sends
\* something after the file was closed.
ReadFails ==
    /\ AcceptorGoesTo("reading", "lost")
    /\ IF current \in hostClosed
       THEN link[current] = "broken" \/ wire[current] # <<>>
       ELSE link[current] = "broken" /\ wire[current] = <<>>
    /\ UNCHANGED <<current, connected, closeVars, bound, conn, link, hostClosed, wire, callVars,
                   reply, pending, guestVars, tableVars>>

LoseConnected ==
    /\ AcceptorGoesTo("lost", "detaching")
    /\ connected' = FALSE
    /\ UNCHANGED <<current, closeVars, bound, conn, link, hostClosed, wire, callVars, reply, pending,
                   guestVars, tableVars>>

\* A bug: g.conn is closed instead of the connection readLoop had; Close may
\* have made it nil.
Mut_Detach ==
    /\ AcceptorGoesTo("detaching", "emptying")
    /\ conn' = NoConn
    /\ hostClosed' = hostClosed \union {conn}
    /\ UNCHANGED <<current, connected, closeVars, bound, link, wire, callVars, reply, pending,
                   guestVars, tableVars>>

\* g.conn is cleared, unless Close did, and the connection closed for good.
Detach ==
    /\ AcceptorGoesTo("detaching", "emptying")
    /\ conn' = IF conn = current THEN NoConn ELSE conn
    /\ hostClosed' = hostClosed \union {current}
    /\ link' = [link EXCEPT ![current] = "broken"]
    /\ UNCHANGED <<current, connected, closeVars, bound, wire, callVars, reply, pending, guestVars,
                   tableVars>>

\* A bug: waiting calls are left to their timeouts.
Mut_EmptyPending ==
    /\ AcceptorGoesTo("emptying", "calling")
    /\ current' = NoConn
    /\ UNCHANGED <<connected, closeVars, bound, conn, link, hostClosed, wire, callVars, reply,
                   pending, guestVars, tableVars>>

\* Every pending channel is closed, under pendMu.
EmptyPending ==
    /\ AcceptorGoesTo("emptying", "calling")
    /\ current' = NoConn
    /\ reply' = [k \in Call |-> IF k \notin pending THEN reply[k]
                                ELSE IF reply[k] = "open" THEN "closed" ELSE "panic"]
    /\ pending' = {}
    /\ UNCHANGED <<connected, closeVars, bound, conn, link, hostClosed, wire, callVars, guestVars,
                   tableVars>>

Acceptor ==
    \/ CallAccept \/ Attach \/ SetConnected \/ ReadMessage \/ ReadFails
    \/ LoseConnected \/ Detach \/ EmptyPending
    \/ \E c \in Conn : AcceptReturns(c)
-----------------------------------------------------------------------------
(* Forward, and the Spawn and Kill around it.                              *)

CallGoesTo(k, from, to) == call[k] = from /\ call' = [call EXCEPT ![k] = to]

\* Kill by Desktop, or the reaping kill of a Spawn that failed, which leaves
\* the table alone, where its process is not.
MayBegin(k) == k[1] = "kill" => call[<<"spawn", k[2]>>] \in {"failed", "returned"}

\* g.conn and g.connected are read.
BeginForward(k) ==
    /\ MayBegin(k)
    /\ CallGoesTo(k, "idle", IF conn # NoConn /\ connected THEN "begun" ELSE "failed")
    /\ over' = [over EXCEPT ![k] = conn]
    /\ UNCHANGED <<acceptVars, closeVars, bound, conn, link, hostClosed, wire, reply, pending,
                   guestVars, tableVars>>

\* g.pending[id] = ch
Register(k) ==
    /\ CallGoesTo(k, "begun", "registered")
    /\ reply' = [reply EXCEPT ![k] = "open"]
    /\ pending' = pending \union {k}
    /\ UNCHANGED <<acceptVars, closeVars, bound, conn, link, hostClosed, wire, over, guestVars,
                   tableVars>>

WriteRequest(k) ==
    /\ CallGoesTo(k, "registered", "waiting")
    /\ over[k] \notin hostClosed /\ link[over[k]] = "up"
    /\ received' = received \union {k}
    /\ UNCHANGED <<acceptVars, closeVars, bound, conn, link, hostClosed, wire, over, reply, pending,
                   guestProc, tableVars>>

WriteFails(k) ==
    /\ CallGoesTo(k, "registered", "failed")
    /\ over[k] \in hostClosed \/ link[over[k]] = "broken"
    /\ pending' = pending \ {k}
    /\ UNCHANGED <<acceptVars, closeVars, bound, conn, link, hostClosed, wire, over, reply,
                   guestVars, tableVars>>

\* The channel has a reply, or was closed when the guest disconnected.
TakeReply(k) ==
    /\ reply[k] \in {"ok", "error", "closed"}
    /\ CallGoesTo(k, "waiting", IF reply[k] = "ok" THEN "answered" ELSE "failed")
    /\ UNCHANGED <<acceptVars, closeVars, bound, conn, link, hostClosed, wire, over, reply, pending,
                   guestVars, tableVars>>

\* Thirty seconds; the select may choose this even when a reply is there.
Timeout(k) ==
    /\ CallGoesTo(k, "waiting", "failed")
    /\ pending' = pending \ {k}
    /\ UNCHANGED <<acceptVars, closeVars, bound, conn, link, hostClosed, wire, over, reply,
                   guestVars, tableVars>>

\* Spawn notes the process the guest has acknowledged; Kill forgets its
\* process whatever the guest said.
Return(k) ==
    /\ call[k] = "answered" \/ (k[1] = "kill" /\ call[k] = "failed")
    /\ call' = [call EXCEPT ![k] = "returned"]
    /\ processes' = IF k[1] = "spawn" THEN processes \union {k[2]} ELSE processes \ {k[2]}
    /\ UNCHANGED <<acceptVars, closeVars, bound, conn, link, hostClosed, wire, over, reply, pending,
                   guestVars, exited>>

Forward(k) == Register(k) \/ WriteRequest(k) \/ WriteFails(k) \/ TakeReply(k) \/ Return(k)

-----------------------------------------------------------------------------
(* Close, and the rest of cleanupVMRuntime, whose goroutine calls it.      *)

CloserGoesTo(from, to) == closer = from /\ closer' = to

\* g.closed is stored.
StoreClosed ==
    /\ CloserGoesTo("none", "closed")
    /\ UNCHANGED <<acceptVars, listenFD, bound, conn, link, hostClosed, wire, callVars, reply,
                   pending, guestVars, tableVars>>

\* The current connection, if any, is closed under connMu.
CloseConn ==
    /\ CloserGoesTo("closed", "unlinked")
    /\ hostClosed' = hostClosed \union ({conn} \ {NoConn})
    /\ conn' = NoConn
    /\ UNCHANGED <<acceptVars, listenFD, bound, link, wire, callVars, reply, pending, guestVars,
                   tableVars>>

\* The descriptor goes; the socket stays as long as accept4 is blocked in it.
CloseListener ==
    /\ CloserGoesTo("unlinked", "done")
    /\ listenFD' = FALSE
    /\ bound' = (acceptor = "waiting")
    /\ UNCHANGED <<acceptVars, conn, link, hostClosed, wire, callVars, reply, pending, guestVars,
                   tableVars>>

\* cleanupVMRuntime ends with an empty process table.
ResetTable ==
    /\ CloserGoesTo("done", "reset")
    /\ processes' = {}
    /\ UNCHANGED <<acceptVars, listenFD, bound, conn, link, hostClosed, wire, callVars, reply,
                   pending, guestVars, exited>>

Closer == CloseConn \/ CloseListener \/ ResetTable

-----------------------------------------------------------------------------
(* The guest.  Its sdk-daemon has one connection at a time.                *)

HostSees == <<acceptVars, closeVars, bound, conn, hostClosed, callVars, reply, pending, tableVars>>

\* The daemon of this VM's guest, or of the next one's.
Connect(c) ==
    /\ bound
    /\ link[c] = "none"
    /\ \A d \in Conn : link[d] \in {"none", "dead", "broken"}
    /\ link' = [link EXCEPT ![c] = "backlog"]
    /\ UNCHANGED <<HostSees, wire, guestVars>>

\* The daemon exits, or its VM does.
GuestGone(c) ==
    /\ link[c] \in {"backlog", "up"}
    /\ link' = [link EXCEPT ![c] = IF @ = "up" THEN "broken" ELSE "dead"]
    /\ UNCHANGED <<HostSees, wire, guestVars>>

Says(c, message) == wire' = [wire EXCEPT ![c] = Append(@, message)]

\* The guest answers on the connection the call came from.
Answer(k, kind) ==
    /\ k \in received /\ link[over[k]] = "up"
    /\ received' = received \ {k}
    /\ Says(over[k], <<kind, k>>)
    /\ guestProc' = IF k[1] = "spawn" /\ kind = "ok"
                    THEN [guestProc EXCEPT ![k[2]] = "running"] ELSE guestProc
    /\ UNCHANGED <<HostSees, link>>

\* A process in the guest ends, killed or not.
ProcExits(p, c) ==
    /\ guestProc[p] = "running" /\ link[c] = "up"
    /\ guestProc' = [guestProc EXCEPT ![p] = "exited"]
    /\ Says(c, <<"exit", <<"spawn", p>>>>)
    /\ UNCHANGED <<HostSees, link, received>>

-----------------------------------------------------------------------------
\* What NewGuestBridge and a Listen that succeeds leave behind.
Init ==
    /\ acceptor = "calling"
    /\ current = NoConn
    /\ connected = FALSE
    /\ closer = "none"
    /\ listenFD = TRUE
    /\ bound = TRUE
    /\ conn = NoConn
    /\ link = [c \in Conn |-> "none"]
    /\ hostClosed = {}
    /\ wire = [c \in Conn |-> <<>>]
    /\ call = [k \in Call |-> "idle"]
    /\ over = [k \in Call |-> NoConn]
    /\ reply = [k \in Call |-> "none"]
    /\ pending = {}
    /\ received = {}
    /\ guestProc = [p \in Proc |-> "none"]
    /\ processes = {}
    /\ exited = {}

Next ==
    \/ Acceptor
    \/ StoreClosed \/ Closer
    \/ \E k \in Call :
          \/ BeginForward(k) \/ Forward(k) \/ Timeout(k)
          \/ \E kind \in {"ok", "error"} : Answer(k, kind)
    \/ \E c \in Conn :
          \/ Connect(c) \/ GuestGone(c)
          \/ \E p \in Proc : ProcExits(p, c)

Spec == Init /\ [][Next]_vars

\* Goroutines run, and the guest takes what is written to it.  Once Close has
\* begun QEMU is being shut down, so the guest goes.  No timeout is needed.
Fairness ==
    /\ WF_vars(Acceptor)
    /\ WF_vars(Closer)
    /\ \A k \in Call : WF_vars(Forward(k))
    /\ \A c \in Conn : WF_vars(closer # "none" /\ GuestGone(c))

FairSpec == Spec /\ Fairness

-----------------------------------------------------------------------------
(* Properties.                                                             *)

\* No channel is closed twice or sent to after it was closed, whether the
\* reply, the timeout or the disconnect comes first: that would panic.
NoPanic == \A k \in Call : reply[k] # "panic"

\* A disconnect fails the calls that were made over the connection, without
\* waiting for their timeouts.
DisconnectFailsCalls ==
    \A k \in Call :
        (call[k] \in {"begun", "registered", "waiting"} /\ link[over[k]] = "broken")
            ~> call[k] \in {"answered", "failed", "returned"}

\* "process still marked running after exit event": a process whose exit event
\* has been emitted is not in the table.  The code does not keep this: Spawn adds
\* the process when Forward has returned, and the exit may have been handled.
ExitedIsNotRunning == \A p \in exited : p \notin processes
=============================================================================
