--------------------------- MODULE ProcessTracker ---------------------------
(***************************************************************************)
(* The processes of native/process.go: spawn and its three goroutines (a   *)
(* reader for stdout, one for stderr, the waiter), kill with its graceful  *)
(* drain, and killAll.                                                     *)
(*                                                                         *)
(* A process is a group: the leader spawn started and at most one          *)
(* descendant, which may keep the leader's pipes, redirect its own output, *)
(* or leave the group.  A line of output is a unit; what it says, its path *)
(* remapping and the writes to stdin are not modelled here.  The three     *)
(* seconds of the graceful drain are a step that may come at any time      *)
(* before the process is reported.  A spawn whose exec fails changes       *)
(* nothing and is left out.                                                *)
(***************************************************************************)
EXTENDS Naturals

CONSTANTS Proc,     \* spawned processes
          NoProc,   \* Go's nil
          Ids,      \* process ids Desktop chooses
          Killer,   \* goroutines that run kill or killAll
          MaxLines  \* lines a pipe holds

ASSUME ConstantsAssumption ==
    /\ NoProc \notin Proc
    /\ MaxLines \in Nat

VARIABLES
    table,    \* pt.processes
    id,       \* the id Desktop gives each process; it never changes
    spawning, \* how far spawn got
    leader,   \* the process itself; "reused": its pid is another process's by now
    kid,      \* the other member of its group
    unread,   \* lines in each output pipe
    reader,   \* the goroutine of streamOutput
    bound,    \* the localProcess a reader looked up
    waiter,   \* the goroutine that waits for the exit; "closed": lp.done is closed
    killer,   \* where each kill or killAll is
    todo,     \* ids killAll has still to visit
    target,   \* the localProcess being killed
    force,    \* the signal is SIGKILL
    asked,    \* history: the processes that were running when a kill or killAll began
    hit,      \* history: process groups that were signalled
    stray     \* history: killers that signalled a group not spawned here

procVars == <<table, id, spawning, leader, kid, unread, reader, bound, waiter>>
killVars == <<killer, todo, target, force, asked>>
vars == <<procVars, killVars, hit, stray>>

Stream == {"stdout", "stderr"}

TypeOK ==
    /\ table \in [Ids -> Proc \union {NoProc}]
    /\ id \in [Proc -> Ids]
    /\ spawning \in [Proc -> {"none", "started", "tracked", "returned"}]
    /\ leader \in [Proc -> {"none", "running", "zombie", "reaped", "reused"}]
    /\ kid \in [Proc -> {"none", "piped", "silent", "escaped", "dead"}]
    /\ unread \in [Proc -> [Stream -> 0 .. MaxLines]]
    /\ reader \in [Proc -> [Stream -> {"none", "starting", "reading", "ended", "failed"}]]
    /\ bound \in [Proc -> [Stream -> Proc \union {NoProc}]]
    /\ waiter \in [Proc -> {"none", "draining", "reaped", "reported", "closed"}]
    /\ killer \in [Killer -> {"idle", "visiting", "draining", "signalling", "done"}]
    /\ todo \in [Killer -> SUBSET Ids]
    /\ target \in [Killer -> Proc \union {NoProc}]
    /\ force \in [Killer -> BOOLEAN]
    /\ asked \in [Killer -> SUBSET Proc]
    /\ hit \in SUBSET Proc
    /\ stray \in SUBSET Killer

\* Someone may still write into the pipes of p.
HoldsPipes(p) == leader[p] = "running" \/ kid[p] \in {"piped", "escaped"}

\* A bug: the goroutine of a reader that failed does not call wg.Done.
Mut_Stopped(p, s) == reader[p][s] = "ended"

\* wg.Done has been called for the reader.
Stopped(p, s) == reader[p][s] \in {"ended", "failed"}

-----------------------------------------------------------------------------
(* spawn.                                                                  *)

\* Desktop uses an id again only after the exit event of its last process.
FreeId(i) == \A p \in Proc :
    id[p] = i /\ spawning[p] # "none" => waiter[p] \in {"reported", "closed"}

\* c.Start, with a process group of its own.
SpawnStarts(p) ==
    /\ spawning[p] = "none"
    /\ FreeId(id[p])
    /\ spawning' = [spawning EXCEPT ![p] = "started"]
    /\ leader' = [leader EXCEPT ![p] = "running"]
    /\ UNCHANGED <<table, id, kid, unread, reader, bound, waiter, killVars, hit, stray>>

\* pt.processes[id] = lp
Track(p) ==
    /\ spawning[p] = "started"
    /\ spawning' = [spawning EXCEPT ![p] = "tracked"]
    /\ table' = [table EXCEPT ![id[p]] = p]
    /\ UNCHANGED <<id, leader, kid, unread, reader, bound, waiter, killVars, hit, stray>>

\* The three goroutines are launched and spawn returns.
LaunchGoroutines(p) ==
    /\ spawning[p] = "tracked"
    /\ spawning' = [spawning EXCEPT ![p] = "returned"]
    /\ reader' = [reader EXCEPT ![p] = [s \in Stream |-> "starting"]]
    /\ waiter' = [waiter EXCEPT ![p] = "draining"]
    /\ UNCHANGED <<table, id, leader, kid, unread, bound, killVars, hit, stray>>

Spawn(p) == Track(p) \/ LaunchGoroutines(p)

-----------------------------------------------------------------------------
(* streamOutput.                                                           *)

ReaderGoesTo(p, s, from, to) ==
    /\ reader[p][s] = from
    /\ reader' = [reader EXCEPT ![p][s] = to]

\* lp := pt.processes[id]
LookUp(p, s) ==
    /\ ReaderGoesTo(p, s, "starting", "reading")
    /\ bound' = [bound EXCEPT ![p][s] = table[id[p]]]
    /\ UNCHANGED <<table, id, spawning, leader, kid, unread, waiter, killVars, hit, stray>>

\* A bug: a line is emitted that nobody has written.
Mut_EmitLine(p, s) ==
    /\ reader[p][s] = "reading"
    /\ unread' = [unread EXCEPT ![p][s] = @ - 1]
    /\ UNCHANGED <<table, id, spawning, leader, kid, reader, bound, waiter, killVars, hit, stray>>

\* One line is emitted, or answered in place when it asks for present_files.
EmitLine(p, s) ==
    /\ reader[p][s] = "reading"
    /\ unread[p][s] > 0
    /\ unread' = [unread EXCEPT ![p][s] = @ - 1]
    /\ UNCHANGED <<table, id, spawning, leader, kid, reader, bound, waiter, killVars, hit, stray>>

\* A line of more than ten megabytes: an error event, and nobody reads on.
ScanFails(p, s) ==
    /\ ReaderGoesTo(p, s, "reading", "failed")
    /\ unread[p][s] > 0
    /\ UNCHANGED <<table, id, spawning, leader, kid, unread, bound, waiter, killVars, hit, stray>>

\* End of file: the pipe is empty and nobody can write into it.
StreamEnds(p, s) ==
    /\ ReaderGoesTo(p, s, "reading", "ended")
    /\ unread[p][s] = 0
    /\ ~HoldsPipes(p)
    /\ UNCHANGED <<table, id, spawning, leader, kid, unread, bound, waiter, killVars, hit, stray>>

Read(p, s) == LookUp(p, s) \/ EmitLine(p, s) \/ StreamEnds(p, s)

-----------------------------------------------------------------------------
(* The waiter.                                                             *)

\* A bug: c.Wait is called without waiting for the readers.
Mut_WaitReaps(p) ==
    /\ waiter[p] = "draining"
    /\ leader[p] = "zombie"
    /\ leader' = [leader EXCEPT ![p] = "reaped"]
    /\ waiter' = [waiter EXCEPT ![p] = "reaped"]
    /\ UNCHANGED <<table, id, spawning, kid, unread, reader, bound, killVars, hit, stray>>

\* wg.Wait, then c.Wait.
WaitReaps(p) ==
    /\ waiter[p] = "draining"
    /\ \A s \in Stream : Stopped(p, s)
    /\ leader[p] = "zombie"
    /\ leader' = [leader EXCEPT ![p] = "reaped"]
    /\ waiter' = [waiter EXCEPT ![p] = "reaped"]
    /\ UNCHANGED <<table, id, spawning, kid, unread, reader, bound, killVars, hit, stray>>

\* The exit event, with the code and the signal of the leader.
EmitExit(p) ==
    /\ waiter[p] = "reaped"
    /\ waiter' = [waiter EXCEPT ![p] = "reported"]
    /\ UNCHANGED <<table, id, spawning, leader, kid, unread, reader, bound, killVars, hit, stray>>

\* close(lp.done)
CloseDone(p) ==
    /\ waiter[p] = "reported"
    /\ waiter' = [waiter EXCEPT ![p] = "closed"]
    /\ UNCHANGED <<table, id, spawning, leader, kid, unread, reader, bound, killVars, hit, stray>>

Wait(p) == WaitReaps(p) \/ EmitExit(p) \/ CloseDone(p)

-----------------------------------------------------------------------------
(* kill and killAll.                                                       *)

Running == {p \in Proc : leader[p] = "running"}

\* The kill RPC, with SIGKILL or another signal.
KillBegins(k, i, f) ==
    /\ killer[k] = "idle"
    /\ table[i] # NoProc
    /\ killer' = [killer EXCEPT ![k] = "visiting"]
    /\ todo' = [todo EXCEPT ![k] = {i}]
    /\ force' = [force EXCEPT ![k] = f]
    /\ asked' = [asked EXCEPT ![k] = Running \intersect {table[i]}]
    /\ UNCHANGED <<target, procVars, hit, stray>>

Tracked == {i \in Ids : table[i] # NoProc}

\* killAll copies the ids under pt.mu; StopVM and Shutdown call it.
KillAllBegins(k) ==
    /\ killer[k] = "idle"
    /\ killer' = [killer EXCEPT ![k] = "visiting"]
    /\ todo' = [todo EXCEPT ![k] = Tracked]
    /\ force' = [force EXCEPT ![k] = FALSE]
    /\ asked' = [asked EXCEPT ![k] = Running \intersect {table[i] : i \in Tracked}]
    /\ UNCHANGED <<target, procVars, hit, stray>>

\* kill looks the id up; SIGINT goes to the leader unless the signal is SIGKILL.
Visit(k, i) ==
    /\ killer[k] = "visiting"
    /\ i \in todo[k]
    /\ todo' = [todo EXCEPT ![k] = @ \ {i}]
    /\ target' = [target EXCEPT ![k] = table[i]]
    /\ killer' = [killer EXCEPT ![k] = IF force[k] THEN "signalling" ELSE "draining"]
    /\ UNCHANGED <<force, asked, procVars, hit, stray>>

NextTarget(k) ==
    /\ killer' = [killer EXCEPT ![k] = "visiting"]
    /\ target' = [target EXCEPT ![k] = NoProc]
    /\ UNCHANGED <<todo, force, asked>>

\* <-lp.done: kill returns nil.
DrainedReturns(k) ==
    /\ killer[k] = "draining"
    /\ waiter[target[k]] = "closed"
    /\ NextTarget(k)
    /\ UNCHANGED <<procVars, hit, stray>>

\* What a signal does to a group: SIGKILL ends every member, another signal
\* those that do not handle it.
Signalled(p, f) ==
    /\ leader' \in {l \in {leader, [leader EXCEPT ![p] = "zombie"]} :
                      /\ leader[p] # "running" => l = leader
                      /\ leader[p] = "running" /\ f => l # leader}
    /\ kid' \in {c \in {kid, [kid EXCEPT ![p] = "dead"]} :
                      /\ kid[p] \notin {"piped", "silent"} => c = kid
                      /\ kid[p] \in {"piped", "silent"} /\ f => c # kid}

\* Getpgid answers for a running leader, for a zombie, and for whatever has the
\* pid of a reaped one; os.Process refuses to signal a reaped one itself.
SignalGroup(p, k) ==
    IF leader[p] = "reaped"
    THEN UNCHANGED <<leader, kid, hit, stray>>
    ELSE IF leader[p] = "reused"
    THEN stray' = stray \union {k} /\ UNCHANGED <<leader, kid, hit>>
    ELSE Signalled(p, force[k]) /\ hit' = hit \union {p} /\ UNCHANGED stray

\* A bug: the drain is a sleep that does not look at lp.done.
Mut_Escalate(k) ==
    /\ killer[k] = "draining"
    /\ SignalGroup(target[k], k)
    /\ NextTarget(k)
    /\ UNCHANGED <<table, id, spawning, unread, reader, bound, waiter>>

\* Three seconds without lp.done: the group gets the signal.  A select that
\* waits when lp.done is closed takes that case, so it is not closed here.  The
\* deadline, Getpgid and Kill are one step: between them the process may be
\* reported, but its pid is taken by a stranger only long after that.
Escalate(k) ==
    /\ killer[k] = "draining"
    /\ waiter[target[k]] # "closed"
    /\ SignalGroup(target[k], k)
    /\ NextTarget(k)
    /\ UNCHANGED <<table, id, spawning, unread, reader, bound, waiter>>

\* SIGKILL at once, whatever has become of the process.
ForceKills(k) ==
    /\ killer[k] = "signalling"
    /\ SignalGroup(target[k], k)
    /\ NextTarget(k)
    /\ UNCHANGED <<table, id, spawning, unread, reader, bound, waiter>>

KillReturns(k) ==
    /\ killer[k] = "visiting"
    /\ todo[k] = {}
    /\ killer' = [killer EXCEPT ![k] = "done"]
    /\ UNCHANGED <<todo, target, force, asked, procVars, hit, stray>>

Kill(k) ==
    \/ \E i \in Ids : Visit(k, i)
    \/ DrainedReturns(k) \/ Escalate(k) \/ ForceKills(k) \/ KillReturns(k)

-----------------------------------------------------------------------------
(* The processes themselves.                                               *)

LeaderExits(p) ==
    /\ leader[p] = "running"
    /\ leader' = [leader EXCEPT ![p] = "zombie"]
    /\ UNCHANGED <<table, id, spawning, kid, unread, reader, bound, waiter, killVars, hit, stray>>

\* A pid is given out again only long after lp.done is closed.
PidReused(p) ==
    /\ leader[p] = "reaped" /\ waiter[p] = "closed"
    /\ leader' = [leader EXCEPT ![p] = "reused"]
    /\ UNCHANGED <<table, id, spawning, kid, unread, reader, bound, waiter, killVars, hit, stray>>

\* The leader forks; the child may redirect its output or call setsid.
Forks(p, c) ==
    /\ leader[p] = "running" /\ kid[p] = "none"
    /\ kid' = [kid EXCEPT ![p] = c]
    /\ UNCHANGED <<table, id, spawning, leader, unread, reader, bound, waiter, killVars, hit, stray>>

KidExits(p) ==
    /\ kid[p] \in {"piped", "silent", "escaped"}
    /\ kid' = [kid EXCEPT ![p] = "dead"]
    /\ UNCHANGED <<table, id, spawning, leader, unread, reader, bound, waiter, killVars, hit, stray>>

Writes(p, s) ==
    /\ HoldsPipes(p)
    /\ unread[p][s] < MaxLines
    /\ unread' = [unread EXCEPT ![p][s] = @ + 1]
    /\ UNCHANGED <<table, id, spawning, leader, kid, reader, bound, waiter, killVars, hit, stray>>

-----------------------------------------------------------------------------
Init ==
    /\ table = [i \in Ids |-> NoProc]
    /\ id \in [Proc -> Ids]
    /\ spawning = [p \in Proc |-> "none"]
    /\ leader = [p \in Proc |-> "none"]
    /\ kid = [p \in Proc |-> "none"]
    /\ unread = [p \in Proc |-> [s \in Stream |-> 0]]
    /\ reader = [p \in Proc |-> [s \in Stream |-> "none"]]
    /\ bound = [p \in Proc |-> [s \in Stream |-> NoProc]]
    /\ waiter = [p \in Proc |-> "none"]
    /\ killer = [k \in Killer |-> "idle"]
    /\ todo = [k \in Killer |-> {}]
    /\ target = [k \in Killer |-> NoProc]
    /\ force = [k \in Killer |-> FALSE]
    /\ asked = [k \in Killer |-> {}]
    /\ hit = {}
    /\ stray = {}

Next ==
    \/ \E p \in Proc :
          \/ SpawnStarts(p) \/ Spawn(p) \/ Wait(p)
          \/ LeaderExits(p) \/ PidReused(p) \/ KidExits(p)
          \/ \E c \in {"piped", "silent", "escaped"} : Forks(p, c)
          \/ \E s \in Stream : Read(p, s) \/ ScanFails(p, s) \/ Writes(p, s)
    \/ \E k \in Killer :
          \/ \E i \in Ids, f \in BOOLEAN : KillBegins(k, i, f)
          \/ KillAllBegins(k)
          \/ Kill(k)

Spec == Init /\ [][Next]_vars

\* The daemon's goroutines run.  Of the processes nothing is assumed.
Fairness ==
    /\ \A p \in Proc :
          /\ WF_vars(Spawn(p))
          /\ WF_vars(Wait(p))
          /\ \A s \in Stream : WF_vars(Read(p, s))
    /\ \A k \in Killer : WF_vars(Kill(k))

FairSpec == Spec /\ Fairness

-----------------------------------------------------------------------------
(* Safety.                                                                 *)

\* The exit event of a process is emitted after everything it, or a descendant
\* with its pipes, has written: the comment "wait for output streams to drain
\* first".  Only a stream whose scanner failed may still hold lines.  This is the
\* order of the emissions; that of their deliveries is nobody's (EventFeed).
ExitAfterOutput ==
    \A p \in Proc : waiter[p] \in {"reported", "closed"} =>
        \A s \in Stream : reader[p][s] = "failed" \/ (reader[p][s] = "ended" /\ unread[p][s] = 0)

\* While a descendant in the group holds the output pipes and one of their readers
\* has not failed, the leader is not reaped and its pid is nobody else's: Getpgid
\* finds the group, and a kill can still reach that descendant.
GroupAddressable ==
    \A p \in Proc : kid[p] = "piped" /\ (\E s \in Stream : reader[p][s] # "failed") =>
        leader[p] \notin {"reaped", "reused"}

\* A reader works with the localProcess it was started for, never with nil and
\* never with a later process of the same id.
ReaderKnowsProcess ==
    \A p \in Proc, s \in Stream : reader[p][s] \in {"reading", "ended", "failed"} => bound[p][s] = p

\* Only a kill that asks for SIGKILL, and so skips the drain, can signal the
\* group of a stranger that has got the pid of a process long gone.
StrayOnlyForced == \A k \in stray : force[k]

\* When kill or killAll has returned, every process that ran when it began had its
\* group signalled or is gone.
KillFinishes ==
    \A k \in Killer : killer[k] = "done" =>
        \A p \in asked[k] : p \in hit \/ leader[p] \in {"reaped", "reused"}

\* "Kills the entire process group": a kill that has returned has signalled the
\* group of every process that ran when it began and still has a member.  The code
\* does not keep this: it is content when the leader exits on SIGINT.
KillReachesGroup ==
    \A k \in Killer : killer[k] = "done" =>
        \A p \in asked[k] : kid[p] \in {"piped", "silent"} => p \in hit

-----------------------------------------------------------------------------
(* Liveness.                                                               *)

\* The exit event of a process comes, if nobody is left who holds its pipes.
ExitIsReported ==
    \A p \in Proc : (leader[p] = "zombie" /\ ~HoldsPipes(p)) ~> (waiter[p] = "closed")

=============================================================================
