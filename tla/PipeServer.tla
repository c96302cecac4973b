----------------------------- MODULE PipeServer -----------------------------
(***************************************************************************)
(* The RPC server of pipe/server.go under main.go: Start, the accept loop, *)
(* one handleConnection goroutine per connection, one goroutine per        *)
(* request, and the way down from a signal through backend.Shutdown to     *)
(* Stop.                                                                   *)
(*                                                                         *)
(* A request is its kind: "quick" ones finish, "slow" ones may never (a    *)
(* kill that waits, a guest that does not answer), "subscribe" is          *)
(* subscribeEvents, whose stream is modelled by EventStream.  What a       *)
(* handler does to the backend, and malformed frames, which end the        *)
(* connection like a client that hangs up, are left out.  A client sends a *)
(* request on the connection the constant conn names.                      *)
(***************************************************************************)
EXTENDS Naturals, Sequences

CONSTANTS Conn,    \* connections
          Request, \* requests
          conn     \* the connection each request is sent on

ASSUME PipeAssumption == conn \in [Request -> Conn]

VARIABLES
    main,       \* where main is, from Start to the return of the deferred Stop
    quit,       \* s.quit is closed
    listener,   \* s.listener
    acceptor,   \* the goroutine of acceptLoop
    peer,       \* the client's end of each connection
    connection, \* the goroutine of handleConnection, for each
    inbox,      \* requests sent on a connection and not yet read
    kind,       \* what each request asks for
    call        \* what has become of each request

serverVars == <<main, quit, listener, acceptor>>
pipeVars == <<serverVars, peer, connection, inbox, kind, call>>

Kind == {"quick", "slow", "subscribe"}

PipeTypeOK ==
    /\ main \in {"down", "serving", "shutdown", "stopping", "closing", "waiting", "exited"}
    /\ quit \in BOOLEAN
    /\ listener \in {"none", "open", "closed"}
    /\ acceptor \in {"none", "accepting", "ended"}
    /\ peer \in [Conn -> {"none", "connected", "closed"}]
    /\ connection \in [Conn -> {"none", "checking", "reading", "streaming", "returned"}]
    /\ inbox \in [Conn -> Seq(Request)]
    /\ kind \in [Request -> Kind]
    /\ call \in [Request -> {"unsent", "sent", "running", "answered", "lost"}]

-----------------------------------------------------------------------------
(* main and Stop.                                                          *)

\* Start: a stale socket file is removed, the listener is opened.
StartServer ==
    /\ main = "down"
    /\ main' = "serving"
    /\ listener' = "open"
    /\ acceptor' = "accepting"
    /\ UNCHANGED <<quit, peer, connection, inbox, kind, call>>

\* SIGINT or SIGTERM; main calls backend.Shutdown while the server serves on.
SignalArrives ==
    /\ main = "serving"
    /\ main' = "shutdown"
    /\ UNCHANGED <<quit, listener, acceptor, peer, connection, inbox, kind, call>>

\* backend.Shutdown returns and the deferred Stop begins.
ShutdownReturns ==
    /\ main = "shutdown"
    /\ main' = "stopping"
    /\ UNCHANGED <<quit, listener, acceptor, peer, connection, inbox, kind, call>>

CloseQuit ==
    /\ main = "stopping"
    /\ main' = "closing"
    /\ quit' = TRUE
    /\ UNCHANGED <<listener, acceptor, peer, connection, inbox, kind, call>>

CloseListener ==
    /\ main = "closing"
    /\ main' = "waiting"
    /\ listener' = "closed"
    /\ UNCHANGED <<quit, acceptor, peer, connection, inbox, kind, call>>

\* s.wg: the accept loop and the connections, not the requests.
Waited == acceptor = "ended" /\ \A c \in Conn : connection[c] \in {"none", "returned"}

\* wg.Wait returns, the socket file is removed and the process exits.
Exit ==
    /\ main = "waiting"
    /\ Waited
    /\ main' = "exited"
    /\ call' = [r \in Request |-> IF call[r] \in {"sent", "running"} THEN "lost" ELSE call[r]]
    /\ UNCHANGED <<quit, listener, acceptor, peer, connection, inbox, kind>>

Main == ShutdownReturns \/ CloseQuit \/ CloseListener \/ Exit

-----------------------------------------------------------------------------
(* acceptLoop and handleConnection.                                        *)

\* A connection in the backlog is accepted, even when quit is closed.
Accept(c) ==
    /\ acceptor = "accepting" /\ listener = "open"
    /\ peer[c] # "none" /\ connection[c] = "none"
    /\ connection' = [connection EXCEPT ![c] = "checking"]
    /\ UNCHANGED <<serverVars, peer, inbox, kind, call>>

\* Accept fails on the closed listener, and quit is closed.
AcceptorEnds ==
    /\ acceptor = "accepting" /\ listener = "closed"
    /\ acceptor' = "ended"
    /\ UNCHANGED <<main, quit, listener, peer, connection, inbox, kind, call>>

\* The select at the top of the loop; returning closes the connection.
CheckQuit(c) ==
    /\ connection[c] = "checking"
    /\ connection' = [connection EXCEPT ![c] = IF quit THEN "returned" ELSE "reading"]
    /\ UNCHANGED <<serverVars, peer, inbox, kind, call>>

Unanswered(c) == \E r \in Request : conn[r] = c /\ call[r] = "running"

\* A bug: the next request is read when the last one has been answered.
Mut_ReadRequest(c) ==
    /\ connection[c] = "reading" /\ ~Unanswered(c)
    /\ inbox[c] # <<>>
    /\ inbox' = [inbox EXCEPT ![c] = Tail(@)]
    /\ connection' = [connection EXCEPT ![c] = IF kind[Head(inbox[c])] = "subscribe"
                                               THEN "streaming" ELSE "checking"]
    /\ call' = [call EXCEPT ![Head(inbox[c])] = "running"]
    /\ UNCHANGED <<serverVars, peer, kind>>

\* ReadMessage returns a request: subscribeEvents runs in this goroutine, any
\* other request in one of its own.
ReadRequest(c) ==
    /\ connection[c] = "reading"
    /\ inbox[c] # <<>>
    /\ inbox' = [inbox EXCEPT ![c] = Tail(@)]
    /\ connection' = [connection EXCEPT ![c] = IF kind[Head(inbox[c])] = "subscribe"
                                               THEN "streaming" ELSE "checking"]
    /\ call' = [call EXCEPT ![Head(inbox[c])] = "running"]
    /\ UNCHANGED <<serverVars, peer, kind>>

\* The read loop of handleSubscribeEvents drops whatever else arrives.
StreamDiscards(c) ==
    /\ connection[c] = "streaming"
    /\ inbox[c] # <<>>
    /\ inbox' = [inbox EXCEPT ![c] = Tail(@)]
    /\ call' = [call EXCEPT ![Head(inbox[c])] = "lost"]
    /\ UNCHANGED <<serverVars, peer, connection, kind>>

\* A bug: the goroutine of a lost connection does not end.
Mut_ReadFails(c) ==
    /\ connection[c] \in {"reading", "streaming"}
    /\ peer[c] = "closed" /\ inbox[c] = <<>>
    /\ connection' = [connection EXCEPT ![c] = "failed"]
    /\ UNCHANGED <<serverVars, peer, inbox, kind, call>>

\* A bug: nobody reads from a connection while its events are streamed.
Mut_StreamOutlivesClient(c) ==
    /\ connection[c] = "reading"
    /\ peer[c] = "closed" /\ inbox[c] = <<>>
    /\ connection' = [connection EXCEPT ![c] = "returned"]
    /\ UNCHANGED <<serverVars, peer, inbox, kind, call>>

\* The client is gone and all it sent is read.
ReadFails(c) ==
    /\ connection[c] \in {"reading", "streaming"}
    /\ peer[c] = "closed" /\ inbox[c] = <<>>
    /\ connection' = [connection EXCEPT ![c] = "returned"]
    /\ UNCHANGED <<serverVars, peer, inbox, kind, call>>

Serve(c) ==
    \/ Accept(c) \/ CheckQuit(c) \/ ReadRequest(c) \/ StreamDiscards(c) \/ ReadFails(c)

\* The handler of a request returns; its response is lost with the connection.
Finish(r) ==
    /\ call[r] = "running"
    /\ call' = [call EXCEPT ![r] =
                  IF peer[conn[r]] = "connected" /\ connection[conn[r]] # "returned"
                  THEN "answered" ELSE "lost"]
    /\ UNCHANGED <<serverVars, peer, connection, inbox, kind>>

-----------------------------------------------------------------------------
(* The clients.                                                            *)

Connect(c) ==
    /\ listener = "open"
    /\ peer[c] = "none"
    /\ peer' = [peer EXCEPT ![c] = "connected"]
    /\ UNCHANGED <<serverVars, connection, inbox, kind, call>>

Send(r, k) ==
    /\ peer[conn[r]] = "connected" /\ connection[conn[r]] # "returned"
    /\ call[r] = "unsent"
    /\ call' = [call EXCEPT ![r] = "sent"]
    /\ kind' = [kind EXCEPT ![r] = k]
    /\ inbox' = [inbox EXCEPT ![conn[r]] = Append(@, r)]
    /\ UNCHANGED <<serverVars, peer, connection>>

ClientHangsUp(c) ==
    /\ peer[c] = "connected"
    /\ peer' = [peer EXCEPT ![c] = "closed"]
    /\ UNCHANGED <<serverVars, connection, inbox, kind, call>>

-----------------------------------------------------------------------------
PipeInit ==
    /\ main = "down"
    /\ quit = FALSE
    /\ listener = "none"
    /\ acceptor = "none"
    /\ peer = [c \in Conn |-> "none"]
    /\ connection = [c \in Conn |-> "none"]
    /\ inbox = [c \in Conn |-> <<>>]
    /\ kind = [r \in Request |-> "quick"]
    /\ call = [r \in Request |-> "unsent"]

\* Once the process has exited only clients are left, and they get nothing.
PipeNext ==
    \/ StartServer \/ SignalArrives \/ Main \/ AcceptorEnds
    \/ /\ main # "exited"
       /\ \/ \E c \in Conn : Serve(c) \/ Connect(c) \/ ClientHangsUp(c)
          \/ \E r \in Request : Finish(r) \/ \E k \in Kind : Send(r, k)

PipeSpec == PipeInit /\ [][PipeNext]_pipeVars

\* Goroutines run, and handlers of quick requests return.  Clients may stay
\* connected and silent for ever.
PipeFairness ==
    /\ WF_pipeVars(Main)
    /\ WF_pipeVars(AcceptorEnds)
    /\ \A c \in Conn : WF_pipeVars(main # "exited" /\ Serve(c))
    /\ \A r \in Request : WF_pipeVars(main # "exited" /\ kind[r] # "slow" /\ Finish(r))

PipeFairSpec == PipeSpec /\ PipeFairness

-----------------------------------------------------------------------------
(* Properties.                                                             *)

\* "so a slow handler doesn't stall unrelated in-flight requests": a quick
\* request on a connection that has not subscribed is answered, whatever else
\* runs on that connection, unless the client leaves or the daemon stops.
SlowStallsNobody ==
    \A r \in Request :
        (call[r] = "sent" /\ kind[r] = "quick")
            ~> \/ call[r] = "answered"
               \/ peer[conn[r]] = "closed"
               \/ connection[conn[r]] = "streaming"
               \/ quit

\* A request runs once, and its answer or its loss is the end of it, though many
\* of them share a connection and a subscription drops what arrives behind it.
AnsweredOnce ==
    [][\A r \in Request : call[r] \in {"answered", "lost"} => call'[r] = call[r]]_pipeVars

\* The goroutine of a connection waits for a client that is there and says nothing.
Silent(c) ==
    /\ connection[c] \in {"reading", "streaming"}
    /\ peer[c] = "connected" /\ inbox[c] = <<>>

\* Stop returns unless one client stays connected and silent for ever: that
\* clients are silent when it begins, or one after the other, does not hold it
\* up, nor does one that has hung up, subscribed or not, or a request that is
\* still running.
StopReturnsWithoutIdleClients ==
    [](main = "stopping" => \/ <>(main = "exited")
                            \/ \E c \in Conn : <>[]Silent(c))
=============================================================================
