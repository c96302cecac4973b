---------------------------- MODULE KvmLifecycle ----------------------------
(***************************************************************************)
(* The life of the virtual machines of vm/backend.go: StartVM's boot       *)
(* pipeline, StopVM, IsRunning's reaping, the keepalive watchdog and       *)
(* cleanupVMRuntime, all of which run in goroutines of their own and meet  *)
(* only at KvmBackend.mu.                                                  *)
(*                                                                         *)
(* Every StartVM call that passes the gate gets an identity of its own, an *)
(* element of Vm: its QEMU, its virtiofs helper, its guest bridge and its  *)
(* watchdog.  One step of the model is one critical section, or one call   *)
(* that changes something another goroutine can see.  Real time is left    *)
(* out: a wait is a step that may come at any time, and "thirty seconds    *)
(* without an RPC" is the flag idle.  Boot progress events, logging and    *)
(* QMP (used to ask for a graceful powerdown) are left out.                *)
(***************************************************************************)
EXTENDS FiniteSets

CONSTANTS Vm,     \* identities of VM runtimes, one per boot pipeline
          NoVm,   \* Go's nil
          Names   \* session names Desktop's calls carry; "" asks for a random one

ASSUME ConstantsAssumption ==
    /\ NoVm \notin Vm
    /\ Vm \intersect Names = {}

VARIABLES
    published, \* the runtime in b.qemu, b.helper, b.bridge...; b.started <=> not NoVm
    starting,  \* b.starting
    prober,    \* b.prober is not nil: the API is being probed
    pc,        \* where each boot pipeline is
    stale,     \* the exited runtime a pipeline still has to clean up
    session,   \* the session id; a VM's own identity stands for its randomID()
    clean,     \* how far cleanupVMRuntime got for each runtime
    qemu,      \* the QEMU process and the goroutine waiting for it
    helper,    \* the virtiofs helper
    bridge,    \* the guest bridge's vsock listener
    watchdog,  \* the keepalive watchdog goroutine
    files,     \* the VMs whose files in the session directory are still there
    pidfile,   \* whose pid each session directory's qemu.pid holds
    idle,      \* lastActivity is thirty seconds old
    desktop,   \* Claude Desktop is alive and may send RPCs
    dropped    \* history: runtimes taken out of the backend and never cleaned up

backendVars == <<published, starting, prober>>
threadVars  == <<pc, stale, session, clean, watchdog>>
hostVars    == <<qemu, helper, bridge, files, pidfile>>
envVars     == <<idle, desktop>>
vars == <<backendVars, threadVars, hostVars, envVars, dropped>>

Session == Names \union Vm

PcState == {"none", "prepare", "helper", "qemu", "bridge", "unwind", "publish",
            "guest", "probe", "announce", "returned"}
CleanState == {"none", "prober", "close", "qemu", "helper", "dir", "done"}

TypeOK ==
    /\ published \in Vm \union {NoVm}
    /\ starting \in BOOLEAN
    /\ prober \in BOOLEAN
    /\ pc \in [Vm -> PcState]
    /\ stale \in [Vm -> Vm \union {NoVm}]
    /\ session \in [Vm -> Session]
    /\ clean \in [Vm -> CleanState]
    /\ qemu \in [Vm -> {"none", "up", "exited", "reaped"}]
    /\ helper \in [Vm -> {"none", "up", "down"}]
    /\ bridge \in [Vm -> {"none", "open", "closed"}]
    /\ watchdog \in [Vm -> {"none", "watching", "closing", "fired", "ended"}]
    /\ files \in SUBSET Vm
    /\ pidfile \in [Session -> Vm \union {NoVm}]
    /\ idle \in BOOLEAN
    /\ desktop \in BOOLEAN
    /\ dropped \in SUBSET Vm

\* A StartVM call past the gate that has not returned.
InFlight(v) == pc[v] \notin {"none", "returned"}

-----------------------------------------------------------------------------
(* Taking the published runtime out of the backend, under b.mu.            *)

\* q.IsRunning() is false only after the waiting goroutine has reaped QEMU.
PublishedExited == published # NoVm /\ qemu[published] # "up"

NoTake == clean' = clean

\* takeVMRuntimeLocked, by a caller that goes on to cleanupVMRuntime.
Take(v) == clean' = [clean EXCEPT ![v] = "prober"]

\* A bug: the runtime stays in the backend's fields.
Mut_TakeWithoutClearing == published' = published

\* The fields takeVMRuntimeLocked clears.
ClearPublished == published' = NoVm

\* A bug: the sentinel is tested and not set.
Mut_GateWithoutSentinel == starting' = starting

\* b.starting = true
SetStarting == starting' = TRUE

\* Every RPC passes through Touch, whose store restarts the thirty seconds.
Rpc == desktop /\ idle' = FALSE /\ UNCHANGED desktop

-----------------------------------------------------------------------------
(* StartVM.  A call that finds a running VM returns nil and changes        *)
(* nothing, so it is a Touch.                                              *)

Touch == Rpc /\ UNCHANGED <<backendVars, threadVars, hostVars, dropped>>

\* StartVM when a pipeline is in flight.  An exited runtime has been taken by
\* then; the early return leaves it to nobody.
StartIgnored ==
    /\ Rpc
    /\ published = NoVm \/ PublishedExited
    /\ starting
    /\ published' = NoVm
    /\ dropped' = dropped \union ({published} \ {NoVm})
    /\ UNCHANGED <<starting, prober, threadVars, hostVars>>

\* A bug: no random id is made for an empty name.
Mut_SetSession(v, s) == session' = [session EXCEPT ![v] = IF s = v THEN NoVm ELSE s]

\* sessionID is the name, or randomID() when Desktop sends none.
SetSession(v, s) == session' = [session EXCEPT ![v] = s]

\* StartVM that passes the gate, under session id s.
StartBegins(v, s) ==
    /\ Rpc
    /\ pc[v] = "none"
    /\ published = NoVm \/ PublishedExited
    /\ ~starting
    /\ SetStarting
    /\ pc' = [pc EXCEPT ![v] = "prepare"]
    /\ SetSession(v, s)
    /\ stale' = [stale EXCEPT ![v] = published]
    /\ IF published = NoVm
       THEN NoTake /\ UNCHANGED published
       ELSE Take(published) /\ ClearPublished
    /\ UNCHANGED <<prober, watchdog, hostVars, dropped>>

\* A bug: the sentinel is cleared on no return path.
Mut_Return(v) ==
    /\ pc' = [pc EXCEPT ![v] = "returned"]
    /\ starting' = starting

\* A return, with or without an error: the deferred function clears the sentinel.
Return(v) ==
    /\ pc' = [pc EXCEPT ![v] = "returned"]
    /\ starting' = FALSE

GoesTo(v, p) ==
    /\ pc' = [pc EXCEPT ![v] = p]
    /\ UNCHANGED starting

\* The stale runtime's cleanupVMRuntime is a call of this pipeline's own.
StaleCleaned(v) == stale[v] # NoVm => clean[stale[v]] = "done"

\* No KVM, no bundle, no firmware, a failed conversion.
PrepareFails(v) ==
    /\ pc[v] = "prepare" /\ StaleCleaned(v)
    /\ stale' = [stale EXCEPT ![v] = NoVm]
    /\ Return(v)
    /\ UNCHANGED <<published, prober, session, clean, watchdog, hostVars, envVars, dropped>>

\* killStalePID kills the QEMU a pidfile left in the session directory names.
killStalePID(s) ==
    /\ qemu' = [v \in Vm |-> IF v = pidfile[s] /\ qemu[v] = "up" THEN "exited" ELSE qemu[v]]
    /\ pidfile' = [pidfile EXCEPT ![s] = NoVm]

\* MkdirAll of the session directory and killStalePID.
Prepare(v) ==
    /\ pc[v] = "prepare" /\ StaleCleaned(v)
    /\ files' = files \union {v}
    /\ killStalePID(session[v])
    /\ stale' = [stale EXCEPT ![v] = NoVm]
    /\ GoesTo(v, "helper")
    /\ UNCHANGED <<published, prober, session, clean, watchdog, helper, bridge, envVars, dropped>>

\* NVRAM copy, staging directory and VfsHelper.Start.
StartHelper(v) ==
    /\ pc[v] = "helper"
    /\ \/ helper' = [helper EXCEPT ![v] = "up"] /\ GoesTo(v, "qemu")
       \/ UNCHANGED helper /\ Return(v)
    /\ UNCHANGED <<published, prober, stale, session, clean, watchdog, qemu, bridge, files, pidfile,
                   envVars, dropped>>

\* startQEMU; the pidfile cannot be written once the directory is gone.
startQEMU(v) ==
    /\ pc[v] = "qemu"
    /\ \/ /\ qemu' = [qemu EXCEPT ![v] = "up"]
          /\ pidfile' = IF v \in files THEN [pidfile EXCEPT ![session[v]] = v] ELSE pidfile
          /\ GoesTo(v, "bridge")
          /\ UNCHANGED helper
       \/ /\ helper' = [helper EXCEPT ![v] = "down"]
          /\ Return(v)
          /\ UNCHANGED <<qemu, pidfile>>
    /\ UNCHANGED <<published, prober, stale, session, clean, watchdog, bridge, files, envVars, dropped>>

\* DialQMP and bridge.Listen, which fails when the vsock port is taken.
ListenBridge(v) ==
    /\ pc[v] = "bridge"
    /\ \/ /\ \A w \in Vm : bridge[w] # "open"
          /\ bridge' = [bridge EXCEPT ![v] = "open"]
          /\ GoesTo(v, "publish")
       \/ UNCHANGED bridge /\ GoesTo(v, "unwind")
    /\ UNCHANGED <<published, prober, stale, session, clean, watchdog, qemu, helper, files, pidfile,
                   envVars, dropped>>

\* A bug: the helper is not stopped when the bridge cannot listen.
Mut_Unwind(v) ==
    /\ pc[v] = "unwind" /\ qemu[v] # "up"
    /\ Return(v)
    /\ UNCHANGED <<published, prober, stale, session, clean, watchdog, hostVars, envVars, dropped>>

\* The failed Listen's teardown; qemu.Shutdown returns when QEMU has exited.
Unwind(v) ==
    /\ pc[v] = "unwind" /\ qemu[v] # "up"
    /\ helper' = [helper EXCEPT ![v] = "down"]
    /\ Return(v)
    /\ UNCHANGED <<published, prober, stale, session, clean, watchdog, qemu, bridge, files, pidfile,
                   envVars, dropped>>

\* started = true and the runtime's fields, under b.mu.
Publish(v) ==
    /\ pc[v] = "publish"
    /\ published' = v
    /\ GoesTo(v, "guest")
    /\ UNCHANGED <<prober, stale, session, clean, watchdog, hostVars, envVars, dropped>>

\* A bug: a guest that never connected leaves its VM without a watchdog.
Mut_ArmWatchdogWhenReady(v) ==
    /\ pc[v] = "guest"
    /\ IF published # NoVm
       THEN watchdog' \in {watchdog, [watchdog EXCEPT ![published] = "watching"]} /\ idle' = FALSE
       ELSE UNCHANGED <<watchdog, idle>>
    /\ GoesTo(v, "probe")
    /\ UNCHANGED <<published, prober, stale, session, clean, hostVars, desktop, dropped>>

\* The guest has connected, or ninety seconds have passed: the watchdog is
\* launched for what b.started and b.watchdogStop say by now.
ArmWatchdog(v) ==
    /\ pc[v] = "guest"
    /\ IF published # NoVm
       THEN watchdog' = [watchdog EXCEPT ![published] = "watching"] /\ idle' = FALSE
       ELSE UNCHANGED <<watchdog, idle>>
    /\ GoesTo(v, "probe")
    /\ UNCHANGED <<published, prober, stale, session, clean, hostVars, desktop, dropped>>

\* With an apiProbeURL the old prober is stopped and a new one started.
StartProber(v) ==
    /\ pc[v] = "probe"
    /\ prober' \in {prober, TRUE}
    /\ GoesTo(v, "announce")
    /\ UNCHANGED <<published, stale, session, clean, watchdog, hostVars, envVars, dropped>>

\* vmStarted is emitted and StartVM returns nil.
AnnounceStarted(v) ==
    /\ pc[v] = "announce"
    /\ Return(v)
    /\ UNCHANGED <<published, prober, stale, session, clean, watchdog, hostVars, envVars, dropped>>

Pipeline(v) ==
    \/ PrepareFails(v) \/ Prepare(v) \/ StartHelper(v) \/ startQEMU(v)
    \/ ListenBridge(v) \/ Unwind(v) \/ Publish(v) \/ ArmWatchdog(v)
    \/ StartProber(v) \/ AnnounceStarted(v)

-----------------------------------------------------------------------------
(* StopVM, IsRunning, Shutdown and the watchdog.                           *)

\* StopVM by RPC; without a started VM it is a Touch.
StopVM ==
    /\ Rpc
    /\ published # NoVm
    /\ Take(published) /\ ClearPublished
    /\ UNCHANGED <<starting, prober, pc, stale, session, watchdog, hostVars, dropped>>

\* main's signal handler: StopVM without an RPC.
Shutdown ==
    /\ published # NoVm
    /\ Take(published) /\ ClearPublished
    /\ UNCHANGED <<starting, prober, pc, stale, session, watchdog, hostVars, envVars, dropped>>

\* IsRunning cleans up a runtime whose QEMU has exited.
IsRunningReaps ==
    /\ Rpc
    /\ PublishedExited
    /\ Take(published) /\ ClearPublished
    /\ UNCHANGED <<starting, prober, pc, stale, session, watchdog, hostVars, dropped>>

\* The ticker finds thirty silent seconds, launches StopVM and the loop returns.
\* A select with the stop channel closed may still choose the tick.
WatchdogFires(v) ==
    /\ watchdog[v] \in {"watching", "closing"}
    /\ idle
    /\ watchdog' = [watchdog EXCEPT ![v] = "fired"]
    /\ UNCHANGED <<backendVars, pc, stale, session, clean, hostVars, envVars, dropped>>

\* The goroutine the watchdog launched stops whatever is published by then.
WatchdogStopsVM(v) ==
    /\ watchdog[v] = "fired"
    /\ watchdog' = [watchdog EXCEPT ![v] = "ended"]
    /\ IF published = NoVm
       THEN NoTake /\ UNCHANGED published
       ELSE Take(published) /\ ClearPublished
    /\ UNCHANGED <<starting, prober, pc, stale, session, hostVars, envVars, dropped>>

WatchdogQuits(v) ==
    /\ watchdog[v] = "closing"
    /\ watchdog' = [watchdog EXCEPT ![v] = "ended"]
    /\ UNCHANGED <<backendVars, pc, stale, session, clean, hostVars, envVars, dropped>>

-----------------------------------------------------------------------------
(* cleanupVMRuntime, in the goroutine that took the runtime.               *)

CleanGoesTo(v, from, to) ==
    /\ clean[v] = from
    /\ clean' = [clean EXCEPT ![v] = to]

\* b.prober is stopped and cleared, whichever VM it was started for.
CleanProber(v) ==
    /\ CleanGoesTo(v, "prober", "close")
    /\ prober' = FALSE
    /\ UNCHANGED <<published, starting, pc, stale, session, watchdog, hostVars, envVars, dropped>>

\* close(watchdogStop) and bridge.Close.
CleanClose(v) ==
    /\ CleanGoesTo(v, "close", "qemu")
    /\ watchdog' = [watchdog EXCEPT ![v] = IF @ = "watching" THEN "closing" ELSE @]
    /\ bridge' = [bridge EXCEPT ![v] = "closed"]
    /\ UNCHANGED <<backendVars, pc, stale, session, qemu, helper, files, pidfile, envVars, dropped>>

\* qemu.Shutdown and qmp.Close.
CleanQemu(v) ==
    /\ CleanGoesTo(v, "qemu", "helper")
    /\ qemu[v] # "up"
    /\ UNCHANGED <<backendVars, pc, stale, session, watchdog, hostVars, envVars, dropped>>

CleanHelper(v) ==
    /\ CleanGoesTo(v, "helper", "dir")
    /\ helper' = [helper EXCEPT ![v] = "down"]
    /\ UNCHANGED <<backendVars, pc, stale, session, watchdog, qemu, bridge, files, pidfile, envVars,
                   dropped>>

\* RemoveAll of the session directory, and of all a later VM of the same
\* session has put there; then the process table is emptied and networkStatus
\* and vmStopped are emitted.
CleanDir(v) ==
    /\ CleanGoesTo(v, "dir", "done")
    /\ files' = {w \in files : session[w] # session[v]}
    /\ pidfile' = [pidfile EXCEPT ![session[v]] = NoVm]
    /\ UNCHANGED <<backendVars, pc, stale, session, watchdog, qemu, helper, bridge, envVars, dropped>>

CleanUp(v) ==
    \/ CleanProber(v) \/ CleanClose(v) \/ CleanQemu(v)
    \/ CleanHelper(v) \/ CleanDir(v)

-----------------------------------------------------------------------------
(* The host and Claude Desktop.                                            *)

\* QEMU exits, by itself or shut down, and the waiting goroutine reaps it.
QemuExits(v) ==
    /\ qemu[v] = "up"
    /\ qemu' = [qemu EXCEPT ![v] = "exited"]
    /\ UNCHANGED <<backendVars, threadVars, helper, bridge, files, pidfile, envVars, dropped>>

\* The waiting goroutine then removes the pidfile by its path, whoever wrote it.
QemuPidfileRemoved(v) ==
    /\ qemu[v] = "exited"
    /\ qemu' = [qemu EXCEPT ![v] = "reaped"]
    /\ pidfile' = [pidfile EXCEPT ![session[v]] = NoVm]
    /\ UNCHANGED <<backendVars, threadVars, helper, bridge, files, envVars, dropped>>

\* Thirty seconds pass without an RPC.
GoesIdle ==
    /\ ~idle
    /\ idle' = TRUE
    /\ UNCHANGED <<backendVars, threadVars, hostVars, desktop, dropped>>

DesktopDies ==
    /\ desktop
    /\ desktop' = FALSE
    /\ UNCHANGED <<backendVars, threadVars, hostVars, idle, dropped>>

-----------------------------------------------------------------------------
Init ==
    /\ published = NoVm
    /\ starting = FALSE
    /\ prober = FALSE
    /\ pc = [v \in Vm |-> "none"]
    /\ stale = [v \in Vm |-> NoVm]
    /\ session = [v \in Vm |-> v]
    /\ clean = [v \in Vm |-> "none"]
    /\ qemu = [v \in Vm |-> "none"]
    /\ helper = [v \in Vm |-> "none"]
    /\ bridge = [v \in Vm |-> "none"]
    /\ watchdog = [v \in Vm |-> "none"]
    /\ files = {}
    /\ pidfile = [s \in Session |-> NoVm]
    /\ idle = FALSE
    /\ desktop = TRUE
    /\ dropped = {}

Next ==
    \/ Touch \/ StartIgnored \/ StopVM \/ Shutdown \/ IsRunningReaps
    \/ GoesIdle \/ DesktopDies
    \/ \E v \in Vm :
          \/ \E s \in Names \union {v} : StartBegins(v, s)
          \/ Pipeline(v) \/ CleanUp(v)
          \/ WatchdogFires(v) \/ WatchdogStopsVM(v) \/ WatchdogQuits(v)
          \/ QemuExits(v) \/ QemuPidfileRemoved(v)

\* Shutdown escalates from ACPI powerdown to SIGKILL.
ShuttingDown(v) == clean[v] = "qemu" \/ pc[v] = "unwind"

Spec == Init /\ [][Next]_vars

\* Goroutines run; QEMU exits when it is being shut down; with Desktop gone
\* nothing calls Touch, so the thirty seconds do pass.
Fairness ==
    /\ \A v \in Vm :
          /\ WF_vars(Pipeline(v))
          /\ WF_vars(CleanUp(v))
          /\ WF_vars(ShuttingDown(v) /\ QemuExits(v))
          /\ WF_vars(WatchdogFires(v))
          /\ WF_vars(WatchdogStopsVM(v))
    /\ WF_vars(~desktop /\ GoesIdle)

FairSpec == Spec /\ Fairness

-----------------------------------------------------------------------------
(* Safety.                                                                 *)

\* At most one boot pipeline runs at a time: what b.starting is for.
OneBoot == \A v, w \in Vm : InFlight(v) /\ InFlight(w) => v = w

\* A QEMU nobody has begun to tear down.
Serving(v) == qemu[v] = "up" /\ clean[v] = "none"

\* Two StartVM calls never leave two QEMUs running for the backend, though an
\* old one may still be powering down when a new one boots.
OneServingQemu == \A v, w \in Vm : Serving(v) /\ Serving(w) => v = w

\* Publishing a booted runtime never overwrites one that StopVM could still reach.
PublishNeverOverwrites == [][published # NoVm => published' \in {published, NoVm}]_vars

Cleaning(v) == clean[v] \notin {"none", "done"}

\* Something can still release what v holds: the backend's fields, its own
\* pipeline, or a goroutine inside cleanupVMRuntime.
Owned(v) == published = v \/ InFlight(v) \/ Cleaning(v)

HoldsResources(v) == qemu[v] = "up" \/ helper[v] = "up" \/ bridge[v] = "open"

\* No QEMU, helper or vsock listener is left to nobody, whatever races: StopVM
\* can reach it or a goroutine is about to release it.  The code does not keep
\* this; the next property says how far it does.
NoOrphan == \A v \in Vm : HoldsResources(v) => Owned(v)

\* The one way a runtime is orphaned is the ignored StartVM call that takes an
\* exited runtime and returns; its QEMU, at least, is dead.
OrphansAreDropped ==
    \A v \in Vm : HoldsResources(v) =>
        Owned(v) \/ (v \in dropped /\ qemu[v] # "up")

\* A watchdog that nobody told to stop watches a VM that runs (or that was dropped).
WatchdogHasVm ==
    \A v \in Vm : watchdog[v] = "watching" =>
        published = v \/ clean[v] \in {"prober", "close"} \/ v \in dropped

\* A VM whose StartVM has returned is never without a watchdog.
PublishedIsWatched ==
    \A v \in Vm : published = v /\ pc[v] = "returned" => watchdog[v] \in {"watching", "fired"}

\* No runtime is handed to cleanupVMRuntime twice: the second close of its
\* watchdogStop would panic.
TakenOnce ==
    \A v \in Vm : published = v => clean[v] = "none" /\ v \notin dropped

\* A VM with a session id of its own keeps its session directory as long as it runs.
RandomSessionKeepsDir ==
    \A v \in Vm : published = v /\ session[v] = v => v \in files

-----------------------------------------------------------------------------
(* Liveness.                                                               *)

\* Every StartVM call that passed the gate returns and frees the gate.
StartReturns == starting ~> ~starting

\* When Desktop dies without stopVM, its VM is shut down and stays down.
DeadDesktopStopsVm == ~desktop ~> [](published = NoVm /\ \A v \in Vm : qemu[v] # "up")
=============================================================================
