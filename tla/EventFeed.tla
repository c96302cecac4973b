----------------------------- MODULE EventFeed -----------------------------
(***************************************************************************)
(* What Claude Desktop may rely on when it subscribes to events: it is     *)
(* owed every event emitted while it is subscribed, gets no event it is    *)
(* not owed and none twice, and loses what it is owed only when its        *)
(* connection fails, after which it gets nothing.  Nothing is promised     *)
(* about the order.                                                        *)
(***************************************************************************)
CONSTANTS Client, Event

VARIABLES
    feeding, \* clients that are subscribed
    failed,  \* clients whose connection has failed
    emitted, \* events emitted so far
    owed,    \* events each client has still to get
    got      \* events each client has got

vars == <<feeding, failed, emitted, owed, got>>

Init ==
    /\ feeding = {}
    /\ failed = {}
    /\ emitted = {}
    /\ owed = [c \in Client |-> {}]
    /\ got = [c \in Client |-> {}]

Subscribe(c) ==
    /\ c \notin feeding \union failed
    /\ feeding' = feeding \union {c}
    /\ UNCHANGED <<failed, emitted, owed, got>>

Emit(e) ==
    /\ e \notin emitted
    /\ emitted' = emitted \union {e}
    /\ owed' = [c \in Client |-> IF c \in feeding THEN owed[c] \union {e} ELSE owed[c]]
    /\ UNCHANGED <<feeding, failed, got>>

Deliver(c, e) ==
    /\ c \notin failed
    /\ e \in owed[c]
    /\ owed' = [owed EXCEPT ![c] = @ \ {e}]
    /\ got' = [got EXCEPT ![c] = @ \union {e}]
    /\ UNCHANGED <<feeding, failed, emitted>>

Fail(c) ==
    /\ failed' = failed \union {c}
    /\ UNCHANGED <<feeding, emitted, owed, got>>

Lose(c, e) ==
    /\ c \in failed
    /\ e \in owed[c]
    /\ owed' = [owed EXCEPT ![c] = @ \ {e}]
    /\ UNCHANGED <<feeding, failed, emitted, got>>

Unsubscribe(c) ==
    /\ c \in failed
    /\ feeding' = feeding \ {c}
    /\ UNCHANGED <<failed, emitted, owed, got>>

Next ==
    \/ \E e \in Event : Emit(e)
    \/ \E c \in Client :
          \/ Subscribe(c) \/ Fail(c) \/ Unsubscribe(c)
          \/ \E e \in Event : Deliver(c, e) \/ Lose(c, e)

Spec == Init /\ [][Next]_vars
=============================================================================
