------------------------------ MODULE VfsHelper ------------------------------
(***************************************************************************)
(* Sharing host directories with the guest: the host's side of vm/vfs.go   *)
(* (Start, Bind, Stop, the goroutines that read the helper's replies and   *)
(* wait for its exit), the privileged helper process of vm/helper.go, and  *)
(* the virtiofsd it supervises.                                            *)
(*                                                                         *)
(* Two pipes join the two processes; writes to them are whole lines.  The  *)
(* helper serves one request at a time.  What mount(8) is asked to do may  *)
(* fail, and may hang, as a host path can be on a dead network file        *)
(* system.  A mount is the mode the guest sees it with.  Timers are steps  *)
(* that may come at any time.  The unbind request has no sender in the     *)
(* daemon and is left out.  The request pipe has room for whatever the     *)
(* daemon sends: each path is sent for a few times, and the stop request,  *)
(* whose write has no deadline, once.                                      *)
(***************************************************************************)
EXTENDS Naturals, Sequences

CONSTANTS Binder, \* goroutines of Spawn or InstallSdk, each with one call of Bind
          Stop,   \* the call that asks the helper to stop
          Path,   \* paths to share
          File    \* those that are not directories

ASSUME VfsAssumption ==
    /\ Stop \notin Binder
    /\ File \subseteq Path

VARIABLES
    starter,   \* Start
    ready,     \* v.ready is closed
    want,      \* the path and mode each binder asks for; it never changes
    call,      \* where each Bind, and the send of Stop, is
    answer,    \* a call's channel
    pending,   \* v.pending
    active,    \* v.activeBinds
    stopper,   \* the goroutine of Stop
    watcher,   \* the goroutine of watchExit; v.exit is open while it waits
    stdin,     \* the daemon's end of the request pipe is open
    requests,  \* lines written to the helper and not yet taken
    replies,   \* lines of the helper not yet read
    helper,    \* the helper's main loop
    job,       \* the request it is busy with
    announcer, \* the goroutine that waits for virtiofsd's socket
    sigterm,   \* a SIGTERM waits in sigCh
    stopping,  \* h.stopping
    binds,     \* h.activeBinds
    share,     \* what is mounted below the shared root
    virtiofsd  \* the process

callVars   == <<want, call, answer, pending, active>>
hostVars   == <<starter, ready, stopper, watcher, stdin>>
helperVars == <<helper, job, announcer, sigterm, stopping, binds, share>>
vfsVars == <<callVars, hostVars, requests, replies, helperVars, virtiofsd>>

Call == Binder \union {Stop}

pathOf(c) == want[c][1]
modeOf(c) == want[c][2]

Ready == <<"ready">>
\* A bug: id and result change places.
Mut_Reply(c, result) == <<c, result>>

\* {id, ok: true} or {id, ok: false, error}
Reply(c, result) == <<result, c>>

VfsTypeOK ==
    /\ starter \in {"waiting", "ready", "failed"}
    /\ ready \in BOOLEAN
    /\ want \in [Binder -> Path \X {"rw", "ro"}]
    /\ call \in [Call -> {"idle", "checked", "registered", "waiting", "accepted", "failed", "done"}]
    \* Never "panic": a second close of the channel of a call, which the exit of
    \* the helper, a timeout and a late reply could each attempt.
    /\ answer \in [Call -> {"none", "open", "ok", "error"}]
    /\ pending \subseteq Call
    /\ active \subseteq Path
    /\ stopper \in {"none", "asking", "waiting", "terminating", "returned"}
    /\ watcher \in {"waiting", "waited", "drained"}
    /\ stdin \in BOOLEAN
    /\ requests \in Seq(Call)
    /\ replies \in Seq({Ready} \union ({"ok", "error"} \X Call))
    /\ helper \in {"serving", "mounting", "remounting", "ending", "exited"}
    /\ job \in Call
    /\ announcer \in {"looking", "done"}
    /\ sigterm \in BOOLEAN
    /\ stopping \in BOOLEAN
    /\ binds \subseteq Path
    /\ share \in [Path -> {"none", "rw", "ro"}]
    /\ virtiofsd \in {"up", "exited"}

-----------------------------------------------------------------------------
(* Start, Bind and send.                                                   *)

\* v.ready is closed.
StartSucceeds ==
    /\ starter = "waiting" /\ ready
    /\ starter' = "ready"
    /\ UNCHANGED <<callVars, ready, stopper, watcher, stdin, requests, replies, helperVars, virtiofsd>>

\* v.exit is closed.
StartFails ==
    /\ starter = "waiting" /\ watcher # "waiting"
    /\ starter' = "failed"
    /\ UNCHANGED <<callVars, ready, stopper, watcher, stdin, requests, replies, helperVars, virtiofsd>>

CallGoesTo(c, from, to) == call[c] = from /\ call' = [call EXCEPT ![c] = to]

\* Bind of a path that is active, in whatever mode, has nothing to do.
BeginBind(c) ==
    /\ starter = "ready"
    /\ CallGoesTo(c, "idle", IF pathOf(c) \in active THEN "done" ELSE "checked")
    /\ UNCHANGED <<want, answer, pending, active, hostVars, requests, replies, helperVars, virtiofsd>>

\* v.pending[id] = ch
Register(c) ==
    /\ CallGoesTo(c, "checked", "registered")
    /\ answer' = [answer EXCEPT ![c] = "open"]
    /\ pending' = pending \union {c}
    /\ UNCHANGED <<want, active, hostVars, requests, replies, helperVars, virtiofsd>>

WriteRequest(c) ==
    /\ CallGoesTo(c, "registered", "waiting")
    /\ stdin /\ helper # "exited"
    /\ requests' = Append(requests, c)
    /\ UNCHANGED <<want, answer, pending, active, hostVars, replies, helperVars, virtiofsd>>

\* The pipe is closed here or there.
WriteFails(c) ==
    /\ CallGoesTo(c, "registered", "failed")
    /\ ~stdin \/ helper = "exited"
    /\ pending' = pending \ {c}
    /\ UNCHANGED <<want, answer, active, hostVars, requests, replies, helperVars, virtiofsd>>

TakeAnswer(c) ==
    /\ answer[c] \in {"ok", "error"}
    /\ CallGoesTo(c, "waiting", IF answer[c] = "ok" THEN "accepted" ELSE "failed")
    /\ UNCHANGED <<want, answer, pending, active, hostVars, requests, replies, helperVars, virtiofsd>>

\* Ten seconds.
Timeout(c) ==
    /\ CallGoesTo(c, "waiting", "failed")
    /\ pending' = pending \ {c}
    /\ UNCHANGED <<want, answer, active, hostVars, requests, replies, helperVars, virtiofsd>>

\* v.activeBinds[relPath] = struct{}{}
Record(c) ==
    /\ CallGoesTo(c, "accepted", "done")
    /\ active' = active \union {pathOf(c)}
    /\ UNCHANGED <<want, answer, pending, hostVars, requests, replies, helperVars, virtiofsd>>

Send(c) == Register(c) \/ WriteRequest(c) \/ WriteFails(c) \/ TakeAnswer(c)

-----------------------------------------------------------------------------
(* readStdout and watchExit.                                               *)

\* ch <- resp; close(ch)
Answered(c, result) == [answer EXCEPT ![c] = IF @ = "open" THEN result ELSE "panic"]

\* delete(v.pending, id)
TakePending(c) == pending' = pending \ {c}

HandleLine ==
    /\ replies # <<>>
    /\ replies' = Tail(replies)
    /\ \/ /\ Head(replies) = Ready
          /\ ready' = TRUE
          /\ UNCHANGED <<answer, pending>>
       \/ /\ Head(replies) # Ready
          /\ LET c == Head(replies)[2] IN
             IF c \in pending
             THEN TakePending(c) /\ answer' = Answered(c, Head(replies)[1])
             ELSE UNCHANGED <<answer, pending>>
          /\ UNCHANGED ready
    /\ UNCHANGED <<want, call, active, starter, stopper, watcher, stdin, requests, helperVars, virtiofsd>>

\* cmd.Wait closes both pipes as soon as the helper has exited: lines the
\* reader has not got hold of by then are lost.
WaitReturns ==
    /\ watcher = "waiting" /\ helper = "exited"
    /\ watcher' = "waited"
    /\ stdin' = FALSE
    /\ \E n \in 0 .. Len(replies) : replies' = SubSeq(replies, 1, n)
    /\ UNCHANGED <<callVars, starter, ready, stopper, requests, helperVars, virtiofsd>>

\* A bug: calls in flight are left to their timeouts.
Mut_Drain ==
    /\ watcher = "waited"
    /\ watcher' = "drained"
    /\ UNCHANGED <<callVars, starter, ready, stopper, stdin, requests, replies, helperVars, virtiofsd>>

\* Every pending call is told that the helper is gone, under v.mu.
Drain ==
    /\ watcher = "waited"
    /\ watcher' = "drained"
    /\ answer' = [c \in Call |-> IF c \notin pending THEN answer[c]
                                 ELSE IF answer[c] = "open" THEN "error" ELSE "panic"]
    /\ pending' = {}
    /\ UNCHANGED <<want, call, active, starter, ready, stopper, stdin, requests, replies, helperVars, virtiofsd>>

-----------------------------------------------------------------------------
(* Stop, by the clean-up of the VM or by a Start that waited too long.     *)

StopperGoesTo(from, to) == stopper = from /\ stopper' = to

BeginStop ==
    /\ StopperGoesTo("none", "asking")
    /\ starter # "failed"
    /\ starter' = IF starter = "waiting" THEN "failed" ELSE starter
    /\ call' = [call EXCEPT ![Stop] = "checked"]
    /\ UNCHANGED <<want, answer, pending, active, ready, watcher, stdin, requests, replies, helperVars,
                   virtiofsd>>

CloseStdin ==
    /\ StopperGoesTo("asking", "waiting")
    /\ call[Stop] \in {"accepted", "failed"}
    /\ stdin' = FALSE
    /\ UNCHANGED <<callVars, starter, ready, watcher, requests, replies, helperVars, virtiofsd>>

\* v.exit is closed in time.
StopReturns ==
    /\ stopper \in {"waiting", "terminating"} /\ watcher # "waiting"
    /\ stopper' = "returned"
    /\ UNCHANGED <<callVars, starter, ready, watcher, stdin, requests, replies, helperVars, virtiofsd>>

\* Three seconds.
Terminate ==
    /\ StopperGoesTo("waiting", "terminating")
    /\ sigterm' = TRUE
    /\ UNCHANGED <<callVars, starter, ready, watcher, stdin, requests, replies, helper, job, announcer,
                   stopping, binds, share, virtiofsd>>

\* A bug: Stop returns instead of killing the helper.
Mut_KillHelper ==
    /\ StopperGoesTo("terminating", "returned")
    /\ UNCHANGED <<callVars, starter, ready, watcher, stdin, requests, replies, helperVars, virtiofsd>>

\* Two seconds more, and SIGKILL.
KillHelper ==
    /\ StopperGoesTo("terminating", "returned")
    /\ helper' = "exited"
    /\ UNCHANGED <<callVars, starter, ready, watcher, stdin, requests, replies, job, announcer, sigterm,
                   stopping, binds, share, virtiofsd>>

Stopping == CloseStdin \/ StopReturns \/ Terminate \/ KillHelper

-----------------------------------------------------------------------------
(* The helper.                                                             *)

HostSees == <<callVars, hostVars>>

HelperGoesTo(from, to) == helper = from /\ helper' = to

Says(line) == replies' = Append(replies, line)

\* unixSocketListed: virtiofsd listens.
AnnounceReady ==
    /\ announcer = "looking" /\ helper # "exited" /\ virtiofsd = "up"
    /\ announcer' = "done"
    /\ Says(Ready)
    /\ UNCHANGED <<HostSees, requests, helper, job, sigterm, stopping, binds, share, virtiofsd>>

\* Ten seconds without a socket, or exitCh: nothing is announced.
GiveUp ==
    /\ announcer = "looking" /\ helper # "exited"
    /\ announcer' = "done"
    /\ UNCHANGED <<HostSees, requests, replies, helper, job, sigterm, stopping, binds, share, virtiofsd>>

NextIs(c) == helper = "serving" /\ requests # <<>> /\ c = Head(requests)

\* A path that is bound, and one that is no directory, need no mount.
NothingToMount(p) == p \in binds \/ p \in File

SkipBind(c) ==
    /\ NextIs(c) /\ c \in Binder
    /\ NothingToMount(pathOf(c))
    /\ requests' = Tail(requests)
    /\ Says(Reply(c, "ok"))
    /\ UNCHANGED <<HostSees, helperVars, virtiofsd>>

\* From here to the mount the helper may hang.
TakeBind(c) ==
    /\ NextIs(c) /\ c \in Binder
    /\ ~NothingToMount(pathOf(c))
    /\ requests' = Tail(requests)
    /\ helper' = "mounting"
    /\ job' = c
    /\ UNCHANGED <<HostSees, replies, announcer, sigterm, stopping, binds, share, virtiofsd>>

\* The host path is missing, or mkdir or mount fails.
MountFails ==
    /\ HelperGoesTo("mounting", "serving")
    /\ Says(Reply(job, "error"))
    /\ UNCHANGED <<HostSees, requests, job, announcer, sigterm, stopping, binds, share, virtiofsd>>

\* mount --bind, which is writable at first.
Mount ==
    /\ helper = "mounting"
    /\ share' = [share EXCEPT ![pathOf(job)] = "rw"]
    /\ IF modeOf(job) = "ro"
       THEN helper' = "remounting" /\ UNCHANGED <<binds, replies>>
       ELSE /\ helper' = "serving"
            /\ binds' = binds \union {pathOf(job)}
            /\ Says(Reply(job, "ok"))
    /\ UNCHANGED <<HostSees, requests, job, announcer, sigterm, stopping, virtiofsd>>

Remount ==
    /\ HelperGoesTo("remounting", "serving")
    /\ share' = [share EXCEPT ![pathOf(job)] = "ro"]
    /\ binds' = binds \union {pathOf(job)}
    /\ Says(Reply(job, "ok"))
    /\ UNCHANGED <<HostSees, requests, job, announcer, sigterm, stopping, virtiofsd>>

\* A bug: a remount that fails is logged and reported as a bind.
Mut_RemountFails ==
    /\ HelperGoesTo("remounting", "serving")
    /\ binds' = binds \union {pathOf(job)}
    /\ Says(Reply(job, "ok"))
    /\ UNCHANGED <<HostSees, requests, job, announcer, sigterm, stopping, share, virtiofsd>>

\* The writable mount stays, and activeBinds does not know it.
RemountFails ==
    /\ HelperGoesTo("remounting", "serving")
    /\ Says(Reply(job, "error"))
    /\ UNCHANGED <<HostSees, requests, job, announcer, sigterm, stopping, binds, share, virtiofsd>>

\* doStop: the first time, everything in activeBinds is unmounted and virtiofsd
\* gets a SIGTERM, and two seconds later a SIGKILL.
doStop ==
    /\ stopping' = TRUE
    /\ IF stopping
       THEN UNCHANGED <<binds, share>>
       ELSE /\ binds' = {}
            /\ share' = [p \in Path |-> IF p \in binds THEN "none" ELSE share[p]]

TakeStop ==
    /\ NextIs(Stop)
    /\ requests' = Tail(requests)
    /\ Says(Reply(Stop, "ok"))
    /\ doStop
    /\ UNCHANGED <<HostSees, helper, job, announcer, sigterm, virtiofsd>>

\* The end of stdin, or a signal.
EndServing ==
    /\ HelperGoesTo("serving", "ending")
    /\ sigterm \/ (~stdin /\ requests = <<>>)
    /\ doStop
    /\ UNCHANGED <<HostSees, requests, replies, job, announcer, sigterm, virtiofsd>>

\* exitCh is closed; lines that still wait are ignored.
ExitAfterVirtiofsd ==
    /\ helper \in {"serving", "ending"} /\ virtiofsd = "exited"
    /\ helper' = "exited"
    /\ UNCHANGED <<HostSees, requests, replies, job, announcer, sigterm, stopping, binds, share, virtiofsd>>

Serving ==
    \/ \E c \in Call : SkipBind(c) \/ TakeBind(c)
    \/ TakeStop \/ EndServing \/ ExitAfterVirtiofsd

Mounting == MountFails \/ Mount \/ Remount \/ RemountFails

\* It is told to, is killed, loses QEMU, or crashes.
VirtiofsdExits ==
    /\ virtiofsd = "up"
    /\ virtiofsd' = "exited"
    /\ UNCHANGED <<HostSees, requests, replies, helperVars>>

-----------------------------------------------------------------------------
\* The helper has started virtiofsd; Start waits.
VfsInit ==
    /\ starter = "waiting"
    /\ ready = FALSE
    /\ want \in [Binder -> Path \X {"rw", "ro"}]
    /\ call = [c \in Call |-> "idle"]
    /\ answer = [c \in Call |-> "none"]
    /\ pending = {}
    /\ active = {}
    /\ stopper = "none"
    /\ watcher = "waiting"
    /\ stdin = TRUE
    /\ requests = <<>>
    /\ replies = <<>>
    /\ helper = "serving"
    /\ job = Stop
    /\ announcer = "looking"
    /\ sigterm = FALSE
    /\ stopping = FALSE
    /\ binds = {}
    /\ share = [p \in Path |-> "none"]
    /\ virtiofsd = "up"

VfsNext ==
    \/ StartSucceeds \/ StartFails
    \/ \E c \in Binder : BeginBind(c) \/ Record(c)
    \/ \E c \in Call : Send(c) \/ Timeout(c)
    \/ HandleLine \/ WaitReturns \/ Drain
    \/ BeginStop \/ Stopping
    \/ AnnounceReady \/ GiveUp \/ Serving \/ Mounting
    \/ VirtiofsdExits

VfsSpec == VfsInit /\ [][VfsNext]_vfsVars

\* Goroutines run and the timers of Stop expire; a bind needs no timeout.  The
\* helper need not get out of a mount.  doStop kills virtiofsd in the end.
VfsFairness ==
    /\ \A c \in Call : WF_vfsVars(Send(c))
    /\ WF_vfsVars(Timeout(Stop))
    /\ WF_vfsVars(HandleLine)
    /\ WF_vfsVars(WaitReturns)
    /\ WF_vfsVars(Drain)
    /\ WF_vfsVars(Stopping)
    /\ WF_vfsVars(Serving)
    /\ WF_vfsVars(stopping /\ helper # "exited" /\ VirtiofsdExits)

VfsFairSpec == VfsSpec /\ VfsFairness

-----------------------------------------------------------------------------
(* Properties.                                                             *)

\* What Bind has confirmed is shared until the helper stops or dies: mounted, or
\* no directory; and it is writable only if somebody asked for that.
SharedAsAsked ==
    \A p \in active \ File :
        \/ stopping \/ helper = "exited"
        \/ share[p] = "ro"
        \/ share[p] = "rw" /\ \E c \in Binder : want[c] = <<p, "rw">>

\* A Bind in flight when the helper exits fails without waiting for its timeout,
\* also when it gets past the pending table after the watcher has emptied it.
ExitFailsBinds ==
    \A c \in Binder :
        (call[c] \in {"checked", "registered", "waiting"} /\ helper = "exited")
            ~> call[c] \in {"accepted", "done", "failed"}

\* Stop ends the helper, though it may hang in a mount or lose the request.
StopEndsHelper == (stopper # "none") ~> (helper = "exited")
=============================================================================
