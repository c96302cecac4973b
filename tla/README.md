# A TLA+ model of claude-cowork-service

`claude-cowork-service` is a Go daemon that gives Claude Desktop on Linux what
its Windows and macOS services give it there: it starts and stops a "VM" in
which Claude Code sessions run, spawns and kills processes in it, and streams
their output and exits back.  There are two backends behind one Unix-socket
RPC: `native` runs the processes on the host, `kvm` boots QEMU and talks to a
guest daemon over vsock.

This directory holds TLA+ modules for the concurrent core of that daemon, TLC
configurations that check them on small instances, and TLAPS proofs of their
safety.  `PROJECT.json` names the source lines every
definition stands for.

## 1. The system

| Part (source) | State | Operations | Meets the others through |
|---|---|---|---|
| RPC server (`main.go`, `pipe/server.go`) | `quit`, listener, a wait group | Start, accept loop, one goroutine per connection and per request, Stop | the handlers, the signal in `main` |
| Handlers and framing (`pipe/handlers.go`, `pipe/protocol.go`) | per subscription: a cancelled flag, a write mutex | one per RPC; `subscribeEvents` keeps its connection | the backend interface; callbacks |
| Event fan-out (`native/backend.go`, `vm/backend.go`) | `subscribers` | subscribe, unsubscribe, emit (one goroutine per event and subscriber) | every part that emits |
| Process tracker (`native/process.go`) | `processes` by id, per process: stdin mutex, `done` | spawn, two readers and a waiter per process, kill, killAll, writeStdin, present_files | emit; the kernel's processes and pipes |
| Native sessions (`native/backend.go`, `workspace.go`, `diskmgmt.go`) | `sessionProcs`, `prober`, session directories, backups | startVM, stopVM, spawn, deleteSessionDirs, pruneSessionCaches | the tracker, the prober, the file system |
| Boot files (`vm/qemu.go`, `vm/uefi.go`, `vm/backend.go`) | the converted root, its stamp, the overlay, firmware variables, the session disk, the CID counter | prepared by startVM, each step inferring from the files what an earlier boot did | `qemu-img`, QEMU, Desktop's bundle, another daemon of the user |
| KVM life cycle (`vm/backend.go`, `vm/qemu.go`) | the published runtime, `starting`, `prober`, session directories, pid files | startVM (an eight-step pipeline), stopVM, isRunning, shutdown, the watchdog, cleanupVMRuntime | QEMU, virtiofs helper, bridge |
| Guest bridge (`vm/bridge.go`) | listener, `conn`, `connected`, `pending` | accept loop, read loop, Forward with a timeout, Close | the guest's sdk-daemon; spawn, kill, SDK calls |
| KVM processes and SDK (`vm/backend.go`) | `processes`, pending binds and SDK install | spawn, kill, installSdk, connect callback | the bridge, the helper |
| VFS helper (`vm/vfs.go`, `vm/helper.go`) | `activeBinds`, virtiofsd, request/reply pipes | bind, unbind, stop; a privileged child process | mounts, virtiofsd |
| Prober (`probe/probe.go`) | a stop channel | start, stop | emit |
| Transcript, native artifacts (`transcript/`, `native/workspace.go`, `vm/native_artifacts.go`) | the CLI's project directories | find and copy a transcript, choose the working directory, remove stale links | spawn of both backends, the CLI |
| QMP, preflight, paths, logging, scripts | none that is shared | | |

What is hard here, and what a unit test hardly reaches:

* **Ownership of a running VM.**  Six kinds of goroutine (startVM, stopVM,
  isRunning, shutdown, the watchdog, and the clean-up each of them may run) take
  and release one runtime, meeting only at `KvmBackend.mu`, and most of the work
  happens outside it.
* **The end of a process.**  Two readers, a waiter and any number of kills
  share a process, its group, its pipes and its pid, which the kernel reuses.
* **Delivery of events.**  Events are written by goroutines of their own, to
  clients that may stop reading or go away at any byte.
* **Disconnects of the guest** with calls in flight, racing their replies and
  their timeouts, and Close.
* **Shutdown** with clients that are connected and silent.
* **Directories without a lock**: requests list, check, copy and remove session
  directories while others create them.
* **Files as the only memory of a boot**: whether a root, an overlay or a disk is
  complete is inferred from its existence or a stamp, after kills at any point,
  with Desktop replacing images and another daemon at work on the same files.
* **A conversation that moves**: the CLI finds its transcript only under the slug
  of its directory, while folders come and go, backends change and copies race.
* **Pipes both ways**: a reader that answers on stdin can block on the CLI that
  waits for that reader.
* **Two processes and a hang**: the helper may be stuck in a mount, die with
  requests in flight, or disagree with the daemon about what is bound.

The hazards are listed, with the line where each bites, under `hazards` in
`PROJECT.json`; those without a property say why.

What makes each part correct: at most one VM boots or serves, nothing published
is overwritten, nothing is released twice or left to nobody; a dead Desktop ends
its VM; a VM runs on a complete root of the image Desktop ships, keeps what its
guest installed, has a CID of its own, and nothing half-done stops every later
boot; an exit event comes, once, after all the output; a kill that returns has
done something and signals no stranger; what the CLI reads on stdin is whole
messages in order, and each request it makes is answered once; a subscriber gets
every event once while its connection lives, whatever other clients do; a call
over the bridge ends when its guest goes; a slow request stalls no other; Stop
returns unless a client stays silent; a confirmed bind is shared as asked; a
session that runs keeps its directory, and a stop keeps the newest backups; a
resumed CLI finds its conversation, whole, and in its latest state.

## 2. The modules

| Module | Models | Companions |
|---|---|---|
| `KvmLifecycle` | StartVM to cleanupVMRuntime, the watchdog, QEMU | `MCKvmLifecycle`, `KvmLifecycle_proofs` |
| `BootFiles` | what StartVM prepares on disk, over kills and later boots | `HostFiles_proofs` |
| `GuestBridge` | the bridge, and spawn and kill over it | `GuestBridge_proofs` |
| `VfsHelper` | binds into the guest: the daemon's side, the privileged helper, virtiofsd | `HostFiles_proofs` |
| `ProcessTracker` | spawn, readers, waiter, kill, killAll | `ProcessTracker_proofs` |
| `ProcessStdin` | writeStdin, its timeout, the answers to present_files, full pipes | `ProcessStdin_proofs` |
| `SessionDisk` | the native backend's session directories: spawn, stopVM's backups, delete, prune | `MCSessionDisk`, `SessionDisk_proofs` |
| `Resume` | the working directory and the transcript of a resumed spawn, both backends | `MCResume`, `Resume_proofs` |
| `EventFeed` | what a subscriber is promised (abstract) | |
| `EventStream` | fan-out, callbacks, subscription handler; implements `EventFeed` | `Pipe_proofs` |
| `PipeServer` | the server's goroutines and the way down | `MCPipeServer`, `Pipe_proofs` |

Two proof modules each extend two components that share no state; where names
of the two would clash, those of `VfsHelper` begin with `Vfs` and those of
`PipeServer` with `Pipe`.

`EventStream` composes a part of the backends with a part of the handlers,
`GuestBridge` the bridge with the process table of the backend, `KvmLifecycle`
the backend with QEMU, helper, bridge and watchdog as far as their existence
goes.  In all modules a step is one critical section, or one call another
goroutine or process can observe; a wait in the code is an action whose guard
may stay false; a timer is an action that may come at any time.

**KvmLifecycle.**  A StartVM call that passes the gate gets an identity `v` in
`Vm`; `pc[v]` is where its pipeline is, and each of the steps `Prepare`,
`StartHelper`, `startQEMU`, `ListenBridge`, `Publish`, `ArmWatchdog`,
`StartProber`, `AnnounceStarted` is the code between two points where others can
interfere, with its error exit.  `published` stands for `b.qemu`, `b.helper`,
`b.bridge` and `b.started`, which are set and cleared together under `b.mu`.
`clean[v]` is how far `cleanupVMRuntime` is for that runtime, one step per
resource.  Files are by owner: `files` holds the VMs whose session directory
content is still there, `pidfile` which VM's pid a directory's `qemu.pid` names,
which is what `killStalePID` reads.  A session name may be shared (`Names`) or
random, and then the VM's identity stands for it.  Ignored calls (`StartIgnored`)
and RPCs that only store `lastActivity` (`Touch`) are actions, because both
matter: the first drops a runtime, the second holds the watchdog off.

**BootFiles.**  The state is the bundle: `vhdx` and `img` are what Desktop ships,
`qcow`, `overlay`, `disk` and each boot's `nvram` what the daemon makes of it, and
each is absent, a part, or whole, because `qemu-img` and file copies write in place.
`boot[d]` is the StartVM of one daemon and the VM it leads to; a step is one
command or one file operation, with an action for its failure where the code
handles one.  `Kill` takes a daemon down between any two steps, with its `qemu-img` and its
QEMU.  `counter` and `flock` are `.next_cid` and the lock on it, which the code does
without when it cannot have it (`AllocateFails`).  `doubt` records the events the
properties name as their excuses, and nothing reads it but they.

**ProcessTracker.**  A process is a leader and at most one descendant, which may
hold the pipes, redirect its output, or leave the group.  `table` is
`pt.processes`, `reader`, `waiter` and `killer` are goroutines.  A kill looks
its process up (`Visit`), drains with SIGINT (`DrainedReturns` when `done`
closes first, `Escalate` at the deadline), and signals the group, by pid, which
may be a stranger's by then (`stray`).

**ProcessStdin.**  The pipes between the daemon and one CLI.  Every writer, a call's
goroutine or a reader with an answer, takes `mu` (lp.mu) and writes a message of
two pieces, so that a full pipe or a death can stop it half-way.  `TimedOut` ends a
call while its goroutine writes on.  A CLI whose own output is blocked reads
nothing, and it may hang or die at any time.

**Resume.**  `store` holds the transcript under each slug, as the set of its turns
and whether it is torn.  A call of Spawn looks at all slugs at once, chooses
(`chooseSpawnCwd` on the host; the guest's directory is given), and then copies as
`CopyTranscript` does: stat of the destination, temporary file, contents, rename,
each of which may fail.  The temporary file is torn from its creation until the end of the
source is reached (`CreateTemp`, `CopySome`, `CopyContents`), and `Rename` publishes it as it is.  The list `orderedCwdCandidates` sorts is the order it has
(pairs of a folder and one behind it), and what its readers take is the `First` of the
candidates in that order.  The CLI is external: it loads, appends turns, exits.
Between steps the user's folders change, the backend is switched, and the daemon
may die.

**EventStream.**  `callbacks` is the set of goroutines of `emitEvent`, each
before its check of the cancelled flag or before its write.  A write is one step,
which the write mutex and the single `conn.Write` justify, and it waits while the
socket's buffer is full.

**PipeServer.**  Requests are quick, slow or `subscribeEvents`; `main` goes from
Start over the signal, `backend.Shutdown` and the deferred `Stop` to the exit.

**GuestBridge.**  Descriptors are modelled as Linux has them, because `Close`
depends on it: a blocked `accept4` holds the listening socket, and a file whose
descriptor is in blocking mode is not released while a read is in it.  Each
`Forward` is a call with its channel (`reply`), its entry in `pending` and the
connection it read (`over`).

**VfsHelper.**  Two programs and the pipes between them: `call`, `answer`,
`pending`, `active`, `watcher` and `stopper` are the daemon's (`vm/vfs.go`),
`helper`, `binds`, `share` and `announcer` the helper's (`vm/helper.go`).  The
helper serves one request at a time and may hang in a mount (`mounting`,
`remounting`), which is what the escalation in Stop is for; a mount is writable
until the second mount(8) makes it read-only, which may fail.

**SessionDisk.**  A directory is a pair of an owner and a time, `<<s, 0>>` for the
session itself and `<<s, t>>` for its copy of second `t`.  A request (`call`) is a
spawn, a stop, a delete or a prune, and is as far as its `at` says; `pruner` is the
goroutine a stop leaves behind.  Every listing is taken once and used until its
request ends, every removal is a step of its own and may fail, and `cp` may fail
before or while it copies.  StopVM is modelled with the name it gets: a session's,
or the empty one, which Desktop sends and which makes `filepath.Join` yield the
directory of all sessions (`Root`).

## 3. The runs

| Run | Checks | Bounds |
|---|---|---|
| `kvm_lifecycle` | `OneServingQemu`, `OrphansAreDropped`, `TakenOnce`; `StartReturns` and `DeadDesktopStopsVm` under fairness | two boots, one shared session name beside the random ones |
| `boot_files` | `RunsOnCompleteRoot`, `CidsDiffer`; the action property `GuestDataSurvives`; `BootsAgain` under fairness | two daemons, two versions of either image, two faults anywhere, CIDs 3 to 5 |
| `guest_bridge` | `NoPanic`; `DisconnectFailsCalls` under fairness | two connections, one process, its spawn and its kill |
| `vfs_helper` | `SharedAsAsked`; `ExitFailsBinds`, `StopEndsHelper` under fairness | two binds of one directory, each read-only or writable, and one Stop |
| `process_tracker` | `ExitAfterOutput`, `StrayOnlyForced`; `ExitIsReported` under fairness | one process with a descendant, both streams, one line in a pipe, two killers |
| `process_stdin` | `StdinMakesSense`; `RequestsSettled` under fairness | two calls, one stream of three lines, an output pipe of one line and a stdin of three pieces |
| `session_disk` | `BackupsBounded`; the action properties `RunningSessionKept`, `NewestBackupsKept` | one session and the store, three requests, two processes, one backup kept, backups of three different seconds, the oldest from before |
| `resume` | `ResumeFindsConversation`, `NoTornTranscript`, `SteadySessionResumesLatest`; the action property `NothingOverwritten` | two spawns, three folders, seven configurations, three turns |
| `event_stream` | `FeedSpec`: the stream implements `EventFeed`; `AttentiveClientsGetEvents` | two clients, one of which may stop reading, one source of two events, a buffer of one message |
| `pipe_server` | `SlowStallsNobody`; `StopReturnsWithoutIdleClients`: the daemon exits, or some client is connected and silent for ever; both under fairness | two connections, two requests pipelined on the first, one on the second |

Every run has its module's `TypeOK` (`VfsTypeOK`, `PipeTypeOK`) as well.  The bounds are where the
interesting cases begin.  Two boots are needed for any race between runtimes (a
third would only repeat one of the two roles, and the theorems cover it); two
killers for the race of a kill with killAll; two events and a buffer of one for
reordering and for a blocked writer; a second guest connection for a reconnect;
three requests for a process that dies, one that follows it and a delete that
meets both (sessions share nothing but a listing, so one is enough); two binds of
one directory for the idempotence of either table, for retries and for modes that
differ (paths do not interact, so one is enough).  Two daemons are what the files
of a bundle see when the service's and a user's meet; two versions make an image
stale, two faults let a failure follow a kill, and three CIDs let a guest run, another
start take the next, and the counter wrap round (two guests never run at once here:
QEMU's locks on the images they share forbid it, `CanLaunch`).  Two spawns are a race of copies or a resume and its
successor; three folders give an order of mounts, an order of hints that differs
from it and a slug that cannot be computed, and three turns a copy that is older than
its source.  A stdin of three pieces is full in the middle of a second message, which is
what blocks the reader while the CLI blocks on its output.

`KvmLifecycle` has no counter; in the other modules the bounds are the constants
named `Max...`, `InCap`, `OutCap`, `Buffer`, `CidLimit` and the sizes of the sets.
Deadlock is checked in `Resume` and `BootFiles`, where somebody can always go on, and not in
the others: each of those systems rests when its finite supply of boots, processes, events,
requests or calls is used up, as the daemon rests while nobody calls it.

Two runs show where the code does something other than its documentation says:

| Run | What TLC finds |
|---|---|
| `session_delete` | Spawn starts the process (`native/backend.go:488`) before it records it (`496`); a delete that arrives in between removes the directory of a running session.  `RunningSessionKept` of `session_disk` says that a recorded process is safe. |
| `stale_overlay` | Desktop replaces `rootfs.img`, and the next boot runs on the overlay of the old image (`vm/uefi.go:134`), although the overlay is said to mirror the VHDX path, which converts again when Desktop ships a fresh VHDX. |

Other places where the code differs from what one might read into its
documentation are in the models and have no run.  Where the module states what does
not hold, as a definition nothing checks, it is named:

* a start that is ignored because another is in flight has already taken the
  exited VM's runtime and drops it without a clean-up (`vm/backend.go:156`, `163`;
  `NoOrphan`); `OrphansAreDropped` says that this is the only way;
* a leader that exits on SIGINT ends the kill without a signal to its group
  (`native/process.go:532`; `KillReachesGroup`);
* an exit event may be handled between the acknowledgment of a spawn and its entry in
  `b.processes`, and the process stays "running" (`vm/backend.go:593`; `ExitedIsNotRunning`);
* stopVM without a name copies the whole sessions directory to a sibling of it
  (`native/backend.go:181`), where neither prune nor delete looks (`PruneReachesBackups`);
* the KVM prober may be started after the stopVM that should have stopped it
  (`StartProber` after `CleanProber`), an event may precede the acknowledgment of
  its subscription (`WriteEvent` before `SendAck`), and `Close` without a guest
  leaves the port bound until one connects (`bound` after `CloseListener`);
* two overlapping spawns that both find no transcript under the slug they copy to
  (`transcript/transcript.go:112`) both rename, and the second one replaces what the first
  one's CLI has loaded and appended to, although `CopyTranscript` "never overwrites" (`99`;
  `NeverOverwrites`); `NothingOverwritten` says that this race is the only way.

## 4. Fairness

Only what the code's scheduling gives: every goroutine that can run does (weak
fairness of each goroutine's steps, `Pipeline`, `CleanUp`, `Read`, `Wait`,
`Kill`, `Handler`, `Callback`, `Acceptor`, `Closer`, `Forward`), and timers that
nobody restarts expire.  Nothing outside the daemon is assumed to do anything,
except:

* QEMU exits while it is being shut down: `qemuInstance.Shutdown` ends in SIGKILL;
* a guest goes once Close has begun: the clean-up goes on to shut its QEMU down;
* the guest takes what is written to it while it is connected (`WriteRequest`);
  that this is an assumption, and that the write has no deadline, is a hazard of the list;
* attentive clients read (`AttentiveClientsGetEvents` is about those only);
* with Desktop gone nobody sends RPCs, so the thirty seconds of the watchdog pass;
* in `BootFiles` Desktop calls startVM again after one that failed, and commands end;
  kills and failures are bounded by `MaxFaults`, not excluded;
* in `ProcessStdin` a goroutine that waits for `lp.mu` gets it (strong fairness: a
  `sync.Mutex` hands itself to one that has waited for a millisecond), and the CLI's
  writes end and it goes on reading, unless it hangs;
* virtiofsd exits once the helper has begun to stop it: it is sent SIGKILL after two seconds.

The helper need not come out of a mount.  Processes need not exit, clients need not speak, read or hang up, guests need
not connect or answer.

## 5. The proofs

Every safety property the passing runs check, types, invariants and action
properties, is proved in a `_proofs` module for every value of the constants, and so
is the refinement of `EventFeed`.  The assumptions are the ones the modules name: `NoVm`, `NoProc`,
`NoConn` and "nobody" are not identities, session names and VM identities are
different things, attentive clients are clients, bounds are natural numbers (those on
images, buffers and pipes not 0), CIDs have room above 4, folders and slugs are numbers, the
empty name is no session's, the call that stops the helper is no bind, paths that are no
directories are paths, a request has one connection, calls, streams and lines are told apart by their names, and
ages and times are natural numbers.

**The life cycle** (`LifecycleSafe`).  The properties are not inductive: that a
runtime is never taken twice, for example, needs to know that what is published
has booted and is not being cleaned.  `IInv` relates, for each runtime, the
place of its pipeline, its clean-up and its resources: at most one pipeline is in
flight, and exactly then `starting` is set; what is published has passed
`Publish` and nobody cleans it; a pipeline before `Publish` holds resources that
match its place, and nothing is published while it is there, which is why publishing
overwrites nothing; a stale runtime a pipeline still has to clean is not
published; a watchdog that watches has a VM that is published, about to be
cleaned, or dropped.  One lemma per group of actions shows that a step keeps it
(`RpcStep`, `StartStep`, `PipelineStep`, `CleanUpStep`, `WatchdogStep`,
`QemuStep`), and each property follows from it.

**The process tracker** (`TrackerSafe`).  Here the argument runs along the life
of a process: the goroutines exist only once spawn has returned (`SpawnInv`); an
id names one process until that process is reported, so a reader finds its own
(`IdInv`); a reader that ended left nothing unread and nobody who could write
(`EofInv`); the waiter reaps after both readers (`DrainInv`), so the exit comes
after the output and a group with a member that holds the pipes keeps its pid; and
each process a kill was asked for is signalled, gone, or still on the kill's list
(`KillInv`).

**The stdin of a CLI** (`StdinIsSound`).  Half a message is at the end of stdin exactly
while the goroutine that holds `lp.mu` has another half to write, unless the CLI is dead
(`HalfInv`), so whatever comes next completes it.  A call that succeeded is in stdin to its
end, and so were the calls before it (`CallInv`), which is why a call that timed out and
still writes disturbs no order.  A request is in one place: unread, with one reader, passed on,
or answered (`PlaceInv`, `LineInv`), and a reader that could not write its answer has left
no end of it behind (`AnswerInv`).

**The session directories** (`LiveIndexed`, `RecordedSessionKept`).  That a
request leaves a running session alone is decided three steps before it removes
anything, so `IInv` carries the decision along (`KnownInv`): a process the request
found recorded stays recorded as long as it lives, because the index loses dead
ids only; between the look at the ids and the check it is among the ids looked
at; after the check nothing is left to remove if it lives.  What remains to be
removed belongs to the session that was looked at (`Ours`).  Other requests
cannot disturb this, since a process that has run keeps its home and never comes back to
life (`Lives`, `Indexes`, `OthersSafe`).  The first lemmas say what each step does
to the record of its request; one lemma per handler then preserves `IInv`, and
`RemovalIs` ties a vanished directory to the request that removed it.

**The backups** (`NewestKept`, `FewBackupsLeft`).  A prune works from a listing that
copies, other prunes and deletes overtake, so neither half can be argued from what is on the disk.
That it removes no new backup follows from `made`, which only grows: what
it listed for removal has `Keep` newer ones that were made, and they stay made
(`TodoInv`).  That few are left follows from `Left`, the backups no prune still has
on its list: from the last listing on they are at most `Keep` (`LeftInv`), because a
listing leaves the newest `Keep` of what it finds (`SurplusLeaves`), a removal by one
prune is on no other's conscience, and a stop that copies later lists again (`OnceInv`).
Both count sets, so they rest on lemmas about cardinalities, and on the existence of a least
number in a set of numbers that is not empty, proved by well-founded descent.

**The files of a boot** (`RootsAreComplete`, `DataSurvives`, `CidsAreDistinct`).
Nothing in a file says that it is complete, so the argument runs along the boot
that makes it: a boot that converts owns the root, which nobody runs on, until it is
whole and stamped (`RootInv`), under the excuse each conjunct names: two daemons
preparing at once (`AloneInv`), a VHDX replaced meanwhile (`VersionInv`), a deletion, a
stamp that failed (`KeptInv`).  For CIDs, what the counter holds, or what the one daemon that has it
locked took, is above every CID in use (`CounterInv`).

**The bridge** (`ChannelsUsedOnce`, `DisconnectReachesWaiters`).  A channel in
`g.pending` is open and its Forward registered or waiting (`PendingInv`), since
whoever uses a channel takes it out of the map in the same critical section.  That
a disconnect reaches every waiting call needs more: only the connection acceptLoop
handles is up (`LinkInv`), a request is written only to a connection that is up, so
a call that waits waits for that one (`WaitInv`), until the map is emptied.  This is
the safety half of `DisconnectFailsCalls`; Close, at any time, changes neither.

**The shared root** (`ConfirmedIsShared`).  The daemon's table says nothing about
mounts: it holds what an "ok" was received for.  `ShareInv` follows that word back to
the helper that gave it.  A path is `Settled` when it is bound, needs no mount, or
the helper has stopped or died, and a settled path stays so in every step.  An "ok" is about
a settled path on its way to the daemon (`RepliesInv`), in the channel or the state
of its call (`CallsInv`), and in the table (`ActiveInv`), however late it comes; and what is bound is
mounted in a mode somebody asked for (`BoundAsAsked`), since the helper never
mounts over a bound path (`MountingInv`), which is why a remount that fails cannot
make a bound directory writable.  `PendingInv`, a call in the table of pending
calls has an open channel, is what keeps a late reply and the watcher from closing one twice;
the types say so (`VfsTypeCorrect`).

**The copy of a transcript** (`CopiesAreWhole`, `NothingIsOverwritten`).  The temporary file of
a call that is about to rename is whole, and one that is still being filled is not
looked at (`FileInv`): it is whole because the source was when its end was reached, and
every failure in between leads away from the rename.  A copy has a source, and
until two copies race, what it found absent stays absent and nobody else copies to
it (`CopyInv`); a CLI that runs has a transcript or writes the first one
(`CliInv`).  Which folder `chooseSpawnCwd` picks is irrelevant here.

**The choice of a directory** (`ConversationIsFound`, `LatestIsResumed`).  Both need
that the choice is stable: once the transcript lies where the last choice led, the
same configuration chooses that place again (`ChoiceIsKept`).  The order of the candidates has
a first element in every nonempty set (`FirstIs`), as the places in the user's list and the
mount names are numbers; whatever the list repeats or leaves out does not matter.
`SteadyInv` then says, for as long as calls do not overlap, that every spawn under
the present configuration was led to where the next one will be (`Kept`), and that all that
was written since lies there.  A call left over from an earlier configuration is
the delicate case: it may still copy, but as long as it has not started its CLI nothing
of this configuration has begun.  `MustInv` ties what a call has to find to what
was written when it began.

**The event stream** (`StreamImplementsFeed`).  The refinement itself: under
`INSTANCE EventFeed WITH ...` the initial states map to the feed's, and every step
to a step of the feed or a stutter.  It needs that an event in flight is one
goroutine's alone (`CallbackInv`), or delivering it would leave it owed; that a
cancelled connection has failed (`CancelInv`), or dropping the event would lose it;
and that reading moves a message from the socket to the client and changes nothing that
was got (`ReadFront`).

**The requests** (`RequestsAreAnsweredOnce`).  Until the daemon exits, what waits in a connection's
buffer was sent on that connection, is not yet run (`WaitingInv`), and waits once
(`OnceInv`); so the goroutine a message starts is the first for its request, a subscription
drops only what nobody has run, and an answer or a loss is final.

Some theorems state what no run checks; the proof covers every value of the
constants: `BootsAreExclusive`, `WatchdogsMatchVms`, `RandomSessionsKeepDir`,
`NoOverwrite`, `GroupsStayAddressable`, `ReadersKnowProcesses`, `KillsFinish`, `LiveIndexed`,
`DisconnectReachesWaiters`, `RequestsAreAnsweredOnce`.

Only model-checked: liveness under fairness, which is out of the prover's reach.
It is `StartReturns`, `DeadDesktopStopsVm`, `BootsAgain`, `DisconnectFailsCalls`,
`ExitFailsBinds`, `StopEndsHelper`, `ExitIsReported`, `RequestsSettled`,
`AttentiveClientsGetEvents`, `SlowStallsNobody` and `StopReturnsWithoutIdleClients`.

## 6. What is not modelled

* Path remapping, JSON, framing bytes, log lines and command lines are data no
  property is about.
* QMP, preflight checks, paths and logging are sequential and share no state.
  Scripts and packaging are outside the daemon.
* The native backend's start-up goroutine emits a fixed sequence of events after
  delays; whether a stopVM comes in between changes the order of announcements only, and the
  prober it starts is modelled as running or not, its HTTP requests and thresholds not
  at all.
* The queue of SDK installs is a pending value forwarded by whoever sees it first;
  what a second install does is the guest's matter.
* `sanitizeNativeArtifacts` and the links spawn makes for mounts touch files
  no other step of the daemon reads; the smol-bin disk is converted by the code
  of the root disk.
* Of two daemons with one base directory, the second one's start for a session of the same name may kill the QEMU the
  first one's pid file names; `BootFiles` leaves that out, `KvmLifecycle` has it within one daemon.
* A folder attached under a symlinked spelling keeps it as a candidate
  (`native/workspace.go:62-64`), so that its slug may not be the CLI's; `Resume` takes folders to be
  attached under their real paths.
* Temporary files a crash leaves behind are seen by nobody and are not kept in the state of `Resume`.

Some steps are coarser than the code, on an assumption about what lies outside it:

* `Escalate` is the deadline of a drain, `Getpgid` and the signal: a pid is reused only long after
  its process was reported.
* `SessionDisk` gives each spawn an id of its own, which is Desktop's habit and not promised by the
  protocol; `RunningSessionKept` rests on it.  `ProcessTracker` assumes no more than that an id is
  not reused before its process has been reported.
* The helper's request pipe never fills, and so the write of the stop request, which has no deadline,
  ends.
* `ProcessTracker` emits events, and `ExitAfterOutput` is about that: each event goes to a subscriber by a
  goroutine of its own (`EventStream`), so a client may get the exit first.  A reader that is blocked in
  an answer to present_files is in `ProcessStdin`, not here.
