----------------------------- MODULE SessionDisk -----------------------------
(***************************************************************************)
(* The session directories of the native backend: Spawn, which makes them, *)
(* StopVM, which copies them before it kills, deleteSessionDirs and        *)
(* pruneSessionCaches, which remove them, and the goroutine pruneBackups   *)
(* (native/backend.go, native/diskmgmt.go).  Requests run concurrently;    *)
(* only sessionProcs has a mutex, the disk has none.                       *)
(*                                                                         *)
(* A directory is a pair of an owner and a time: <<s, 0>> is the directory *)
(* of session s, <<s, t>> the copy s.pre-stop-t.  Desktop calls stopVM     *)
(* without a name, which makes filepath.Join yield the directory that      *)
(* holds the sessions: Root, whose copies <<Root, t>> are its siblings.    *)
(* b.started and the prober are not read by any of this and left out.      *)
(***************************************************************************)
EXTENDS Integers, FiniteSets

CONSTANTS
    Session,   \* session names
    Root,      \* the empty name
    Proc,      \* process ids: Desktop gives each spawn a new one
    Call,      \* requests, each served by a goroutine of its own
    Keep,      \* the number of backups pruneBackups leaves, 5 in the code
    Age,       \* values of sessionTmpOlderThanSeconds, 0 for no limit
    MaxTime    \* bound on the clock, in seconds

ASSUME SessionDiskAssumption ==
    /\ Root \notin Session
    /\ Keep \in Nat \ {0}
    /\ Age \subseteq Nat
    /\ MaxTime \in Nat \ {0, 1}

VARIABLES
    disk,          \* the directories that exist
    proc,          \* what each process id stands for
    home,          \* the session each process was spawned for
    sessionProcs,  \* b.sessionProcs
    call,          \* what each request is doing
    pruner,        \* the pruneBackups goroutine that a stopVM starts
    now,           \* the clock that backups are named after
    made,          \* every backup there has ever been
    fault          \* owners of a copy that failed or a backup pruneBackups could not remove

vars == <<disk, proc, home, sessionProcs, call, pruner, now, made, fault>>

Owner == Session \cup {Root}
Time  == 0..MaxTime
Dir   == Owner \X Time

Main(o)   == <<o, 0>>
IsCopy(d) == d[2] > 0
CopiesOf(o, ds) == {d \in ds : d[1] = o /\ IsCopy(d)}
Alive == {p \in Proc : proc[p] = "alive"}

\* os.ReadDir of the directory that holds the sessions.
Listing == {d \in disk : d[1] # Root}

\* The fields of a request: the name it is for, the directories and names it has
\* still to look at, its copy of sessionProcs, and what it will answer; for the
\* properties, what was the case when it arrived: the live processes, those that
\* sessionProcs knew of, and the backups.
Idle == [op |-> "none", at |-> "idle", name |-> Root, todo |-> {}, names |-> {}, ids |-> {},
         found |-> {}, age |-> 0, time |-> 0, skipped |-> {}, errors |-> {},
         alive |-> {}, known |-> {}, copies |-> {}]

Step(c, new) == call' = [call EXCEPT ![c] = new]
At(c, op, at) == call[c].op = op /\ call[c].at = at
Goes(c, at)  == Step(c, [call[c] EXCEPT !.at = at])
Ends(c)      == Step(c, [Idle EXCEPT !.at = "done"])
Arrived == [Idle EXCEPT !.at = "next", !.alive = Alive,
                        !.known = {p \in Alive : p \in sessionProcs[home[p]]},
                        !.copies = {d \in disk : IsCopy(d)}]

Ops == {"none", "spawn", "stop", "delete", "prune"}
Places == {"idle", "launch", "index", "copy", "copying", "kill", "next", "look", "check", "forget",
           "remove", "done"}

Request == [op : Ops, at : Places, name : Owner, todo : SUBSET Dir, names : SUBSET Session,
            ids : SUBSET Proc, found : SUBSET Dir, age : Nat, time : Time, skipped : SUBSET Owner,
            errors : SUBSET Dir, alive : SUBSET Proc, known : SUBSET Proc, copies : SUBSET Dir]

\* What the requests hold are directories, names and ids there may be; delete
\* never works for the empty name, which would stand for the whole store.
TypeOK ==
    /\ disk \subseteq Dir
    /\ proc \in [Proc -> {"none", "spawning", "alive", "dead"}]
    /\ home \in [Proc -> Owner]
    /\ sessionProcs \in [Session -> SUBSET Proc]
    /\ call \in [Call -> Request]
    /\ pruner \in [Call -> [at : {"idle", "list", "remove"}, of : Owner, todo : SUBSET Dir]]
    /\ now \in 2..MaxTime
    /\ made \subseteq Dir /\ fault \subseteq Owner

Init ==
    /\ disk \in SUBSET {d \in Dir : d[2] \in {0, 1}}
    /\ (\E s \in Session : \E t \in Time : <<s, t>> \in disk) => Main(Root) \in disk
    /\ proc = [p \in Proc |-> "none"]
    /\ home = [p \in Proc |-> Root]
    /\ sessionProcs = [s \in Session |-> {}]
    /\ call = [c \in Call |-> Idle]
    /\ pruner = [c \in Call |-> [at |-> "idle", of |-> Root, todo |-> {}]]
    /\ now = 2
    /\ made = {d \in disk : IsCopy(d)}
    /\ fault = {}

-----------------------------------------------------------------------------
(* Spawn: the directory first, the process next, sessionProcs last.        *)

\* os.MkdirAll of the session's mnt directory.
MakeSessionDir(c) ==
    \E s \in Session, p \in Proc :
        /\ call[c].at = "idle" /\ proc[p] = "none"
        /\ disk' = disk \cup {Main(Root), Main(s)}
        /\ proc' = [proc EXCEPT ![p] = "spawning"]
        /\ home' = [home EXCEPT ![p] = s]
        /\ Step(c, [Idle EXCEPT !.op = "spawn", !.at = "launch", !.name = s, !.ids = {p}])
        /\ UNCHANGED <<sessionProcs, pruner, now, made, fault>>

\* tracker.spawn starts the process, or Spawn returns its error and leaves the directory.
Launch(c) ==
    /\ At(c, "spawn", "launch")
    /\ \E ok \in BOOLEAN :
        /\ proc' = [p \in Proc |-> IF p \notin call[c].ids THEN proc[p]
                                   ELSE IF ok THEN "alive" ELSE "none"]
        /\ IF ok THEN Goes(c, "index") ELSE Ends(c)
    /\ UNCHANGED <<disk, home, sessionProcs, pruner, now, made, fault>>

\* The process may have exited by now.
IndexProcess(c) ==
    /\ At(c, "spawn", "index")
    /\ sessionProcs' = [sessionProcs EXCEPT ![call[c].name] = @ \cup call[c].ids]
    /\ Ends(c)
    /\ UNCHANGED <<disk, proc, home, pruner, now, made, fault>>

Spawn(c) == MakeSessionDir(c) \/ Launch(c) \/ IndexProcess(c)

ProcessExits(p) ==
    /\ proc[p] = "alive"
    /\ proc' = [proc EXCEPT ![p] = "dead"]
    /\ UNCHANGED <<disk, home, sessionProcs, call, pruner, now, made, fault>>

-----------------------------------------------------------------------------
(* StopVM: a copy, if there is something to copy, then killAll.            *)

\* StopVM looks whether there is a directory to copy.
BeginStop(c) ==
    \E o \in Owner :
        /\ call[c].at = "idle"
        /\ Step(c, [Idle EXCEPT !.op = "stop", !.at = IF Main(o) \in disk THEN "copy" ELSE "kill",
                                !.name = o, !.time = now])
        /\ UNCHANGED <<disk, proc, home, sessionProcs, pruner, now, made, fault>>

\* cp makes the target (or copies into the one of the same second).
BeginCopy(c) ==
    LET target == <<call[c].name, call[c].time>>
    IN  /\ At(c, "stop", "copy") /\ Main(call[c].name) \in disk
        /\ disk' = disk \cup {target}
        /\ made' = made \cup {target}
        /\ Goes(c, "copying")
        /\ UNCHANGED <<proc, home, sessionProcs, pruner, now, fault>>

\* cp fails before or while it copies, when the disk is full or the source is
\* gone; what it has copied stays, and nothing is pruned.
CopyFails(c) ==
    /\ call[c].op = "stop" /\ call[c].at \in {"copy", "copying"}
    /\ fault' = fault \cup {call[c].name}
    /\ Goes(c, "kill")
    /\ UNCHANGED <<disk, proc, home, sessionProcs, pruner, now, made>>

\* go pruneBackups(sessionDir, 5)
CopyDone(c) ==
    /\ At(c, "stop", "copying")
    /\ pruner' = [pruner EXCEPT ![c] = [at |-> "list", of |-> call[c].name, todo |-> {}]]
    /\ Goes(c, "kill")
    /\ UNCHANGED <<disk, proc, home, sessionProcs, now, made, fault>>

\* killAll signals the processes it finds one after the other and waits three
\* seconds for each: any of them may be gone when StopVM returns.
KillAll(c) ==
    /\ At(c, "stop", "kill")
    /\ \E gone \in SUBSET Alive :
        proc' = [p \in Proc |-> IF p \in gone THEN "dead" ELSE proc[p]]
    /\ Ends(c)
    /\ UNCHANGED <<disk, home, sessionProcs, pruner, now, made, fault>>

StopVM(c) == BeginStop(c) \/ BeginCopy(c) \/ CopyFails(c) \/ CopyDone(c) \/ KillAll(c)

-----------------------------------------------------------------------------
(* pruneBackups: a listing, then the oldest go, oldest first.              *)

Newer(d, ds) == {e \in ds : e[1] = d[1] /\ e[2] > d[2]}

\* A bug: the names are sorted the other way round.
Mut_SurplusNewestFirst(copies) ==
    {d \in copies : Cardinality({e \in copies : e[2] < d[2]}) >= Keep}

\* A bug: one backup too many is left.
Mut_SurplusOffByOne(copies) == {d \in copies : Cardinality(Newer(d, copies)) > Keep}

\* backups[:len(backups)-keep] of the sorted names.
Surplus(copies) == {d \in copies : Cardinality(Newer(d, copies)) >= Keep}

ListBackups(c) ==
    /\ pruner[c].at = "list"
    /\ pruner' = [pruner EXCEPT ![c].at = "remove",
                                ![c].todo = Surplus(CopiesOf(pruner[c].of, disk))]
    /\ UNCHANGED <<disk, proc, home, sessionProcs, call, now, made, fault>>

\* A backup that cannot be removed is logged and passed over.
RemoveOldest(c) ==
    /\ pruner[c].at = "remove"
    /\ \E d \in pruner[c].todo :
        /\ \A e \in pruner[c].todo : d[2] <= e[2]
        /\ pruner' = [pruner EXCEPT ![c].todo = @ \ {d}]
        /\ \/ disk' = disk \ {d} /\ UNCHANGED fault
           \/ fault' = fault \cup {pruner[c].of} /\ UNCHANGED disk
    /\ UNCHANGED <<proc, home, sessionProcs, call, now, made>>

pruneBackups(c) == ListBackups(c) \/ RemoveOldest(c)

Pruning(c) == pruner[c].at = "list" \/ pruner[c].todo # {}

-----------------------------------------------------------------------------
(* isSessionRunning: the ids under the read lock, whether each is alive    *)
(* without it, and the dead ones deleted under the write lock.  An id that *)
(* has died stays dead, so one look at all of them tells the same.         *)

\* delete(b.sessionProcs[name], id) for the dead ids.
Unindex(s, dead) == [sessionProcs EXCEPT ![s] = @ \ dead]

\* A bug: the last id looked at decides.
Mut_Busy(ids) == ids # {} /\ ids \subseteq Alive

\* Some process of the session runs.
Busy(ids) == ids \cap Alive # {}

CopyIds(c) ==
    /\ call[c].at = "look"
    /\ Step(c, [call[c] EXCEPT !.at = "check", !.ids = sessionProcs[call[c].name]])
    /\ UNCHANGED <<disk, proc, home, sessionProcs, pruner, now, made, fault>>

\* A session with a live process is skipped by prune and an error for delete;
\* the dead ids are remembered in both cases.
CheckIds(c) ==
    LET dead == call[c].ids \ Alive
        next == [call[c] EXCEPT !.ids = dead, !.at = IF dead = {} THEN "remove" ELSE "forget"]
    IN  /\ call[c].at = "check"
        /\ IF Busy(call[c].ids)
           THEN Step(c, [next EXCEPT !.todo = {}, !.skipped = @ \cup {call[c].name}])
           ELSE Step(c, next)
        /\ UNCHANGED <<disk, proc, home, sessionProcs, pruner, now, made, fault>>

ForgetDead(c) ==
    /\ call[c].at = "forget"
    /\ sessionProcs' = Unindex(call[c].name, call[c].ids)
    /\ Goes(c, "remove")
    /\ UNCHANGED <<disk, proc, home, pruner, now, made, fault>>

isSessionRunning(c) == CopyIds(c) \/ CheckIds(c) \/ ForgetDead(c)

-----------------------------------------------------------------------------
(* deleteSessionDirs and pruneSessionCaches: one listing for the request,  *)
(* then session by session, or backup by backup.                           *)

\* A bug: the empty name is let through.
Mut_Valid == Owner

\* Other names, the empty one among them, are answered with "invalid session name".
Valid == Session

BeginDelete(c) ==
    \E names \in SUBSET Valid \ {{}} :
        /\ call[c].at = "idle"
        /\ Step(c, [Arrived EXCEPT !.op = "delete", !.names = names, !.found = Listing])
        /\ UNCHANGED <<disk, proc, home, sessionProcs, pruner, now, made, fault>>

\* The request has begun, or is done with a name or a backup.
Ready(c, op) == At(c, op, "next") \/ (At(c, op, "remove") /\ call[c].todo = {})

\* The directory of the next name and all its backups are to be removed.
NextName(c) ==
    /\ Ready(c, "delete")
    /\ \E s \in call[c].names :
        Step(c, [call[c] EXCEPT !.at = "look", !.name = s, !.names = @ \ {s},
                                !.todo = {d \in call[c].found : d[1] = s}])
    /\ UNCHANGED <<disk, proc, home, sessionProcs, pruner, now, made, fault>>

\* Also the early returns: nothing to prune without includeSessionTmp, or with
\* enough free space.
BeginPrune(c) ==
    \E age \in Age :
        /\ call[c].at = "idle"
        /\ \/ Step(c, [Arrived EXCEPT !.op = "prune", !.age = age, !.time = now,
                                      !.found = {d \in Listing : IsCopy(d)}])
           \/ Ends(c)
        /\ UNCHANGED <<disk, proc, home, sessionProcs, pruner, now, made, fault>>

NextBackup(c) ==
    /\ Ready(c, "prune")
    /\ \E d \in call[c].found :
        /\ \A e \in call[c].found : e[1] = d[1] => d[2] <= e[2]
        /\ Step(c, [call[c] EXCEPT !.at = "look", !.name = d[1], !.todo = {d}, !.found = @ \ {d}])
    /\ UNCHANGED <<disk, proc, home, sessionProcs, pruner, now, made, fault>>

TooYoung(c, d) == call[c].age > 0 /\ d[2] > call[c].time - call[c].age

\* os.RemoveAll of the next directory, in the order of their names.
RemoveDir(c) ==
    /\ call[c].op \in {"delete", "prune"} /\ call[c].at = "remove"
    /\ \E d \in call[c].todo :
        /\ \A e \in call[c].todo : d[2] <= e[2]
        /\ call[c].op = "prune" => ~TooYoung(c, d)
        /\ \/ /\ disk' = disk \ {d}
              /\ Step(c, [call[c] EXCEPT !.todo = @ \ {d}])
           \/ /\ Step(c, [call[c] EXCEPT !.todo = @ \ {d}, !.errors = @ \cup {d}])
              /\ UNCHANGED disk
    /\ UNCHANGED <<proc, home, sessionProcs, pruner, now, made, fault>>

SkipYoung(c) ==
    /\ At(c, "prune", "remove")
    /\ \E d \in call[c].todo :
        /\ TooYoung(c, d)
        /\ Step(c, [call[c] EXCEPT !.todo = {}, !.skipped = @ \cup {d[1]}])
    /\ UNCHANGED <<disk, proc, home, sessionProcs, pruner, now, made, fault>>

Answer(c) ==
    /\ \/ Ready(c, "delete") /\ call[c].names = {}
       \/ Ready(c, "prune") /\ call[c].found = {}
    /\ Step(c, [Idle EXCEPT !.op = call[c].op, !.at = "done", !.age = call[c].age,
                            !.skipped = call[c].skipped, !.errors = call[c].errors,
                            !.copies = call[c].copies])
    /\ UNCHANGED <<disk, proc, home, sessionProcs, pruner, now, made, fault>>

DeleteSessionDirs(c) == BeginDelete(c) \/ NextName(c)
PruneSessionCaches(c) == BeginPrune(c) \/ NextBackup(c) \/ SkipYoung(c)

ClockTicks ==
    /\ now < MaxTime
    /\ now' = now + 1
    /\ UNCHANGED <<disk, proc, home, sessionProcs, call, pruner, made, fault>>

Next ==
    \/ \E c \in Call :
        \/ Spawn(c) \/ StopVM(c) \/ pruneBackups(c) \/ isSessionRunning(c)
        \/ DeleteSessionDirs(c) \/ PruneSessionCaches(c) \/ RemoveDir(c) \/ Answer(c)
    \/ \E p \in Proc : ProcessExits(p)
    \/ ClockTicks

Spec == Init /\ [][Next]_vars

-----------------------------------------------------------------------------
(* Properties.                                                             *)

\* A live process whose Spawn has returned is in sessionProcs, however many
\* requests delete dead ids from it meanwhile.
LiveStaysIndexed ==
    \A p \in Alive :
        \/ p \in sessionProcs[home[p]]
        \/ \E c \in Call : At(c, "spawn", "index") /\ p \in call[c].ids

\* The step removes something for the request c, and not for pruneBackups.
RemovedFor(c, d) == d \in disk \ disk' /\ call'[c] # call[c]

\* Neither delete nor prune touches a session whose process was recorded when the
\* request arrived and is still alive.  A process is recorded by the id its spawn
\* was called with, and the model gives each spawn an id of its own, as Desktop
\* does.
RunningSessionKept ==
    [][\A c \in Call, d \in Dir : RemovedFor(c, d) =>
          \A p \in call[c].known : home[p] = d[1] => proc[p] # "alive"]_vars

\* "Sessions that still have a running process are rejected": the same for every
\* process that was running when the request arrived.
LiveSessionKept ==
    [][\A c \in Call, d \in Dir : RemovedFor(c, d) =>
          \A p \in call[c].alive : home[p] = d[1] => proc[p] # "alive"]_vars

\* pruneBackups removes a backup only if Keep newer ones of its session were made,
\* however the listings and removals of several stops interleave.
NewestBackupsKept ==
    [][\A c \in Call : pruner'[c] # pruner[c] =>
          \A d \in disk \ disk' : Cardinality(Newer(d, made)) >= Keep]_vars

\* With no stop copying and no pruneBackups under way, a session that has been
\* pruned has at most Keep backups, unless a copy or a removal failed.
BackupsBounded ==
    \A o \in Owner \ fault :
        (/\ \E c \in Call : pruner[c].of = o /\ pruner[c].at = "remove"
         /\ \A c \in Call : /\ pruner[c].of = o => ~Pruning(c)
                            /\ call[c].name = o => call[c].at # "copying")
        => Cardinality(CopiesOf(o, disk)) <= Keep

\* "Prune everything unconditionally": a prune without an age limit that skipped
\* nothing and met no error leaves no backup that stopVM had made before it.  The
\* code does not keep this for the copies of a stopVM without a name.
PruneReachesBackups ==
    \A c \in Call :
        (/\ At(c, "prune", "done") /\ call[c].age = 0
         /\ call[c].skipped = {} /\ call[c].errors = {})
        => call[c].copies \cap disk = {}
=============================================================================
