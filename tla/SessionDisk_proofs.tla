------------------------- MODULE SessionDisk_proofs -------------------------
(***************************************************************************)
(* A recorded live process protects the directories of its session, and    *)
(* pruneBackups leaves the newest backups and no more than it is told to,  *)
(* for any number of sessions, processes, requests and backups to keep.    *)
(***************************************************************************)
EXTENDS SessionDisk, FiniteSetTheorems, WellFoundedInduction, TLAPS

-----------------------------------------------------------------------------
(* What the steps of a request do to its record.                           *)

Others(c) == \A b \in Call \ {c} : call'[b] = call[b]

\* The step leaves the request c with the record new.
Becomes(c, new) == call' \in [Call -> Request] /\ Others(c) /\ call'[c] = new

\* The step takes these fields of the request c from r.
Keeps(c, r) ==
    /\ call'[c].name = r.name /\ call'[c].todo = r.todo /\ call'[c].ids = r.ids
    /\ call'[c].found = r.found /\ call'[c].known = r.known /\ call'[c].op = r.op

Typed == call' \in [Call -> Request]

\* An idle request, which every step that begins or ends one starts from.
LEMMA IdleIs ==
    /\ Idle \in Request
    /\ Idle.op = "none" /\ Idle.at = "idle" /\ Idle.name = Root
    /\ Idle.todo = {} /\ Idle.ids = {} /\ Idle.found = {} /\ Idle.known = {}
  BY SessionDiskAssumption DEF Idle, Request, Ops, Places, Owner, Time

\* The types of the fields of a request.
LEMMA Fields ==
  ASSUME NEW r \in Request
  PROVE  /\ r.op \in Ops /\ r.at \in Places /\ r.name \in Owner
         /\ r.todo \subseteq Dir /\ r.names \subseteq Session /\ r.ids \subseteq Proc
         /\ r.found \subseteq Dir /\ r.age \in Nat /\ r.time \in Time
         /\ r.skipped \subseteq Owner /\ r.errors \subseteq Dir
         /\ r.alive \subseteq Proc /\ r.known \subseteq Proc /\ r.copies \subseteq Dir
  BY DEF Request

\* A step of the request c changes its record only.
LEMMA Update ==
  ASSUME call \in [Call -> Request], NEW c \in Call, NEW new \in Request, Step(c, new)
  PROVE  Becomes(c, new)
  BY DEF Step, Becomes, Others

\* A request that goes to the next place keeps the rest.
LEMMA GoesStep ==
  ASSUME call \in [Call -> Request], NEW c \in Call, NEW a \in Places, Goes(c, a)
  PROVE  Typed /\ Others(c) /\ Keeps(c, call[c]) /\ call'[c].at = a
<1> DEFINE new == [call[c] EXCEPT !.at = a]
<1>1. call[c] \in Request
  OBVIOUS
<1>2. /\ new \in Request /\ new.op = call[c].op /\ new.name = call[c].name
      /\ new.todo = call[c].todo /\ new.ids = call[c].ids /\ new.found = call[c].found
      /\ new.known = call[c].known /\ new.at = a
  BY <1>1 DEF Request
<1>3. Becomes(c, new)
  BY <1>2, Update DEF Goes
<1> HIDE DEF new
<1> QED
  BY <1>2, <1>3 DEF Becomes, Keeps, Typed

\* A request that ends forgets all it held.
LEMMA EndsStep ==
  ASSUME call \in [Call -> Request], NEW c \in Call, Ends(c)
  PROVE  Typed /\ Others(c) /\ Keeps(c, Idle) /\ call'[c].at = "done"
<1> DEFINE new == [Idle EXCEPT !.at = "done"]
<1>1. Idle \in Request
  BY IdleIs
<1>2. /\ new \in Request /\ new.op = Idle.op /\ new.name = Idle.name
      /\ new.todo = Idle.todo /\ new.ids = Idle.ids /\ new.found = Idle.found
      /\ new.known = Idle.known /\ new.at = "done"
  BY <1>1 DEF Request, Places
<1>3. Becomes(c, new)
  BY <1>2, Update DEF Ends
<1> HIDE DEF new
<1> QED
  BY <1>2, <1>3 DEF Becomes, Keeps, Typed

\* The request holds the new process and its session.
LEMMA SpawnStep ==
  ASSUME call \in [Call -> Request], NEW c \in Call, NEW s \in Session, NEW p \in Proc,
         Step(c, [Idle EXCEPT !.op = "spawn", !.at = "launch", !.name = s, !.ids = {p}])
  PROVE  /\ Typed /\ Others(c)
         /\ call'[c].at = "launch" /\ call'[c].name = s /\ call'[c].ids = {p}
         /\ call'[c].todo = {} /\ call'[c].found = {} /\ call'[c].known = {}
<1> DEFINE new == [Idle EXCEPT !.op = "spawn", !.at = "launch", !.name = s, !.ids = {p}]
<1>1. Idle \in Request
  BY IdleIs
<1>2. /\ new \in Request /\ new.at = "launch" /\ new.name = s /\ new.ids = {p}
      /\ new.todo = Idle.todo /\ new.found = Idle.found /\ new.known = Idle.known
  BY <1>1 DEF Request, Ops, Places, Owner
<1>3. Becomes(c, new)
  BY <1>2, Update
<1> HIDE DEF new
<1> QED
  BY <1>2, <1>3, IdleIs DEF Becomes, Typed

\* A stop begins with a copy or with the kill.
LEMMA StopStep ==
  ASSUME call \in [Call -> Request], now \in 2..MaxTime, NEW c \in Call, BeginStop(c)
  PROVE  /\ Typed /\ Others(c) /\ call'[c].at \in {"copy", "kill"}
         /\ call'[c].todo = {} /\ call'[c].found = {} /\ call'[c].known = {}
<1>1. PICK o \in Owner :
        Step(c, [Idle EXCEPT !.op = "stop", !.at = IF Main(o) \in disk THEN "copy" ELSE "kill",
                             !.name = o, !.time = now])
  BY DEF BeginStop
<1> DEFINE at  == IF Main(o) \in disk THEN "copy" ELSE "kill"
           new == [Idle EXCEPT !.op = "stop", !.at = at, !.name = o, !.time = now]
<1>2. Step(c, new)
  BY <1>1
<1>3. Idle \in Request /\ at \in {"copy", "kill"} /\ now \in Time
  BY SessionDiskAssumption, IdleIs DEF Time
<1> HIDE DEF at
<1>4. /\ new \in Request /\ new.at = at
      /\ new.todo = Idle.todo /\ new.found = Idle.found /\ new.known = Idle.known
  BY <1>3 DEF Request, Ops, Places
<1>5. Becomes(c, new)
  BY <1>2, <1>4, Update
<1> HIDE DEF new
<1> QED
  BY <1>3, <1>4, <1>5, IdleIs DEF Becomes, Typed

\* What a delete or a prune notes of the processes when it arrives.
LEMMA ArrivedIs ==
  ASSUME TypeOK
  PROVE  /\ Arrived \in Request /\ Arrived.at = "next" /\ Arrived.name = Root
         /\ Arrived.todo = {} /\ Arrived.ids = {}
         /\ Arrived.known = {p \in Alive : p \in sessionProcs[home[p]]}
<1> DEFINE known  == {p \in Alive : p \in sessionProcs[home[p]]}
           copies == {d \in disk : IsCopy(d)}
<1>1. Idle \in Request /\ known \subseteq Proc /\ copies \subseteq Dir /\ Alive \subseteq Proc
  BY IdleIs DEF TypeOK, Alive
<1>2. Arrived = [Idle EXCEPT !.at = "next", !.alive = Alive, !.known = known, !.copies = copies]
  BY DEF Arrived
<1> HIDE DEF known, copies
<1>3. /\ Arrived \in Request /\ Arrived.at = "next" /\ Arrived.name = Idle.name
      /\ Arrived.todo = Idle.todo /\ Arrived.ids = Idle.ids /\ Arrived.known = known
  BY <1>1, <1>2 DEF Request, Places
<1> QED
  BY <1>3, IdleIs DEF known

\* A delete begins with the listing of its directories.
LEMMA DeleteStep ==
  ASSUME TypeOK, NEW c \in Call, BeginDelete(c)
  PROVE  /\ Typed /\ Others(c) /\ call'[c].at = "next" /\ call'[c].todo = {}
         /\ call'[c].found = Listing
         /\ call'[c].known = {p \in Alive : p \in sessionProcs[home[p]]}
<1>1. PICK names \in SUBSET Valid \ {{}} :
        Step(c, [Arrived EXCEPT !.op = "delete", !.names = names, !.found = Listing])
  BY DEF BeginDelete
<1> DEFINE new == [Arrived EXCEPT !.op = "delete", !.names = names, !.found = Listing]
<1>2. Listing \in SUBSET Dir /\ names \in SUBSET Session /\ Arrived \in Request
  BY ArrivedIs DEF Listing, TypeOK, Valid
<1>3. /\ new \in Request /\ new.at = Arrived.at /\ new.todo = Arrived.todo
      /\ new.found = Listing /\ new.known = Arrived.known
  BY <1>2 DEF Request, Ops
<1>4. Becomes(c, new)
  BY <1>1, <1>3, Update DEF TypeOK
<1> HIDE DEF new
<1> QED
  BY <1>3, <1>4, ArrivedIs DEF Becomes, Typed

\* A prune begins with the listing of all backups, unless there is nothing to do.
LEMMA PruneStep ==
  ASSUME TypeOK, NEW c \in Call, BeginPrune(c)
  PROVE  /\ Typed /\ Others(c) /\ call'[c].at \in {"next", "done"} /\ call'[c].todo = {}
         /\ call'[c].found \subseteq Listing
         /\ call'[c].known \subseteq {p \in Alive : p \in sessionProcs[home[p]]}
<1>1. PICK age \in Age :
        \/ Step(c, [Arrived EXCEPT !.op = "prune", !.age = age, !.time = now,
                                   !.found = {d \in Listing : IsCopy(d)}])
        \/ Ends(c)
  BY DEF BeginPrune
<1> DEFINE copies == {d \in Listing : IsCopy(d)}
           new == [Arrived EXCEPT !.op = "prune", !.age = age, !.time = now, !.found = copies]
<1>2. CASE Step(c, new)
  <2>1. /\ copies \in SUBSET Dir /\ copies \subseteq Listing
        /\ Arrived \in Request /\ now \in Time /\ age \in Nat
    BY ArrivedIs, SessionDiskAssumption DEF Listing, TypeOK, Time
  <2> HIDE DEF copies
  <2>2. /\ new \in Request /\ new.at = Arrived.at /\ new.todo = Arrived.todo
        /\ new.found = copies /\ new.known = Arrived.known
    BY <2>1 DEF Request, Ops
  <2>3. Becomes(c, new)
    BY <1>2, <2>2, Update DEF TypeOK
  <2> HIDE DEF new
  <2> QED
    BY <2>1, <2>2, <2>3, ArrivedIs DEF Becomes, Typed
<1>3. CASE Ends(c)
  BY <1>3, EndsStep, IdleIs DEF TypeOK, Keeps
<1> QED
  BY <1>1, <1>2, <1>3

\* Nothing to remove, or nothing but directories of the session that is looked at.
Ours(c) == \A d \in call[c].todo : d[1] = call[c].name

\* The next name of a delete: all that the listing has of it.
LEMMA NextNameStep ==
  ASSUME call \in [Call -> Request], NEW c \in Call, NextName(c)
  PROVE  /\ Typed /\ Others(c) /\ call'[c].at = "look" /\ call'[c].name \in Session
         /\ Ours(c)' /\ call'[c].found = call[c].found /\ call'[c].known = call[c].known
<1>1. PICK s \in call[c].names :
        Step(c, [call[c] EXCEPT !.at = "look", !.name = s, !.names = @ \ {s},
                                !.todo = {d \in call[c].found : d[1] = s}])
  BY DEF NextName
<1> DEFINE todo == {d \in call[c].found : d[1] = s}
           rest == call[c].names \ {s}
           new  == [call[c] EXCEPT !.at = "look", !.name = s, !.names = rest, !.todo = todo]
<1>2. Step(c, new)
  BY <1>1
<1>3. /\ todo \in SUBSET Dir /\ rest \in SUBSET Session /\ s \in Session /\ call[c] \in Request
      /\ \A d \in todo : d[1] = s
  BY Fields
<1> HIDE DEF todo, rest
<1>4. /\ new \in Request /\ new.at = "look" /\ new.name = s /\ new.todo = todo
      /\ new.found = call[c].found /\ new.known = call[c].known
  BY <1>3 DEF Request, Places, Owner
<1>5. Becomes(c, new)
  BY <1>2, <1>4, Update
<1> HIDE DEF new
<1> QED
  BY <1>3, <1>4, <1>5 DEF Becomes, Typed, Ours

\* The next backup of a prune, which belongs to a session.
LEMMA NextBackupStep ==
  ASSUME call \in [Call -> Request], NEW c \in Call, NextBackup(c),
         \A d \in call[c].found : d[1] \in Session
  PROVE  /\ Typed /\ Others(c) /\ call'[c].at = "look" /\ call'[c].name \in Session
         /\ Ours(c)' /\ call'[c].found \subseteq call[c].found /\ call'[c].known = call[c].known
<1>1. PICK d \in call[c].found :
        Step(c, [call[c] EXCEPT !.at = "look", !.name = d[1], !.todo = {d}, !.found = @ \ {d}])
  BY DEF NextBackup
<1> DEFINE s    == d[1]
           rest == call[c].found \ {d}
           new  == [call[c] EXCEPT !.at = "look", !.name = s, !.todo = {d}, !.found = rest]
<1>2. Step(c, new)
  BY <1>1
<1>3. /\ d \in Dir /\ s \in Session /\ rest \in SUBSET Dir /\ rest \subseteq call[c].found
      /\ call[c] \in Request
  BY Fields
<1> HIDE DEF s, rest
<1>4. /\ new \in Request /\ new.at = "look" /\ new.name = s /\ new.todo = {d}
      /\ new.found = rest /\ new.known = call[c].known
  BY <1>3 DEF Request, Places, Owner
<1>5. Becomes(c, new)
  BY <1>2, <1>4, Update
<1> HIDE DEF new
<1> QED
  BY <1>3, <1>4, <1>5 DEF Becomes, Typed, Ours, s

\* The ids recorded for the session, at the time of the look.
LEMMA CopyIdsStep ==
  ASSUME TypeOK, NEW c \in Call, CopyIds(c), call[c].name \in Session
  PROVE  /\ Typed /\ Others(c) /\ call'[c].at = "check" /\ call'[c].name = call[c].name
         /\ call'[c].ids = sessionProcs[call[c].name] /\ call'[c].todo = call[c].todo
         /\ call'[c].found = call[c].found /\ call'[c].known = call[c].known
<1> DEFINE ids == sessionProcs[call[c].name]
           new == [call[c] EXCEPT !.at = "check", !.ids = ids]
<1>1. ids \in SUBSET Proc /\ call[c] \in Request /\ Step(c, new)
  BY DEF TypeOK, CopyIds
<1> HIDE DEF ids
<1>2. /\ new \in Request /\ new.at = "check" /\ new.name = call[c].name /\ new.ids = ids
      /\ new.todo = call[c].todo /\ new.found = call[c].found /\ new.known = call[c].known
  BY <1>1 DEF Request, Places
<1>3. Becomes(c, new)
  BY <1>1, <1>2, Update DEF TypeOK
<1> HIDE DEF new
<1> QED
  BY <1>2, <1>3 DEF Becomes, Typed, ids

\* The dead ids remain to be forgotten; with a live one there is nothing to remove.
LEMMA CheckIdsStep ==
  ASSUME call \in [Call -> Request], NEW c \in Call, CheckIds(c)
  PROVE  /\ Typed /\ Others(c) /\ call'[c].at \in {"remove", "forget"}
         /\ call'[c].ids = call[c].ids \ Alive /\ call'[c].name = call[c].name
         /\ call'[c].todo = IF Busy(call[c].ids) THEN {} ELSE call[c].todo
         /\ call'[c].found = call[c].found /\ call'[c].known = call[c].known
<1> DEFINE dead == call[c].ids \ Alive
           at   == IF dead = {} THEN "remove" ELSE "forget"
           next == [call[c] EXCEPT !.ids = dead, !.at = at]
           skip == [next EXCEPT !.todo = {}, !.skipped = @ \cup {call[c].name}]
<1>1. /\ call[c] \in Request /\ dead \in SUBSET Proc /\ at \in {"remove", "forget"}
  BY Fields
<1>2. IF Busy(call[c].ids) THEN Step(c, skip) ELSE Step(c, next)
  BY DEF CheckIds
<1> HIDE DEF dead, at
<1>3. /\ next \in Request /\ next.at = at /\ next.name = call[c].name /\ next.ids = dead
      /\ next.todo = call[c].todo /\ next.found = call[c].found /\ next.known = call[c].known
  BY <1>1 DEF Request, Places
<1> HIDE DEF next
<1>4. /\ skip \in Request /\ skip.at = next.at /\ skip.name = next.name /\ skip.ids = next.ids
      /\ skip.todo = {} /\ skip.found = next.found /\ skip.known = next.known
  BY <1>1, <1>3 DEF Request
<1> HIDE DEF skip
<1>5. IF Busy(call[c].ids) THEN Becomes(c, skip) ELSE Becomes(c, next)
  BY <1>2, <1>3, <1>4, Update
<1> QED
  BY <1>1, <1>3, <1>4, <1>5 DEF Becomes, Typed, dead

\* One directory less to remove, for a session that stays the same.
LEMMA RemoveDirStep ==
  ASSUME call \in [Call -> Request], NEW c \in Call, RemoveDir(c)
  PROVE  /\ Typed /\ Others(c) /\ call'[c].at = "remove" /\ call'[c].name = call[c].name
         /\ call'[c].todo \subseteq call[c].todo /\ call'[c].found = call[c].found
         /\ call'[c].known = call[c].known
         /\ \E d \in call[c].todo : disk \ disk' \subseteq {d} /\ disk' \subseteq disk
<1>1. PICK d \in call[c].todo :
        \/ /\ disk' = disk \ {d}
           /\ Step(c, [call[c] EXCEPT !.todo = @ \ {d}])
        \/ /\ Step(c, [call[c] EXCEPT !.todo = @ \ {d}, !.errors = @ \cup {d}])
           /\ UNCHANGED disk
  BY DEF RemoveDir
<1> DEFINE rest   == call[c].todo \ {d}
           errors == call[c].errors \cup {d}
           gone   == [call[c] EXCEPT !.todo = rest]
           failed == [call[c] EXCEPT !.todo = rest, !.errors = errors]
<1>2. /\ (disk' = disk \ {d} /\ Step(c, gone)) \/ (Step(c, failed) /\ UNCHANGED disk)
      /\ call[c] \in Request /\ call[c].at = "remove"
      /\ rest \in SUBSET Dir /\ rest \subseteq call[c].todo /\ errors \in SUBSET Dir
  BY <1>1, Fields DEF RemoveDir
<1> HIDE DEF rest, errors
<1>3. /\ gone \in Request /\ gone.at = "remove" /\ gone.name = call[c].name /\ gone.todo = rest
      /\ gone.found = call[c].found /\ gone.known = call[c].known
  BY <1>2 DEF Request
<1>4. /\ failed \in Request /\ failed.at = "remove" /\ failed.name = call[c].name
      /\ failed.todo = rest /\ failed.found = call[c].found /\ failed.known = call[c].known
  BY <1>2 DEF Request
<1> HIDE DEF gone, failed
<1>5. (disk' = disk \ {d} /\ Becomes(c, gone)) \/ (Becomes(c, failed) /\ UNCHANGED disk)
  BY <1>2, <1>3, <1>4, Update
<1> QED
  BY <1>2, <1>3, <1>4, <1>5 DEF Becomes, Typed

\* A backup that is too young is passed over.
LEMMA SkipYoungStep ==
  ASSUME call \in [Call -> Request], NEW c \in Call, SkipYoung(c)
  PROVE  /\ Typed /\ Others(c) /\ call'[c].at = "remove" /\ call'[c].todo = {}
         /\ call'[c].found = call[c].found /\ call'[c].known = call[c].known
<1>1. PICK d \in call[c].todo :
        Step(c, [call[c] EXCEPT !.todo = {}, !.skipped = @ \cup {d[1]}])
  BY DEF SkipYoung
<1> DEFINE skipped == call[c].skipped \cup {d[1]}
           new == [call[c] EXCEPT !.todo = {}, !.skipped = skipped]
<1>2. Step(c, new)
  BY <1>1
<1>3. skipped \in SUBSET Owner /\ call[c] \in Request /\ call[c].at = "remove"
  BY Fields DEF SkipYoung, At, Dir
<1> HIDE DEF skipped
<1>4. /\ new \in Request /\ new.at = "remove" /\ new.todo = {}
      /\ new.found = call[c].found /\ new.known = call[c].known
  BY <1>3 DEF Request
<1>5. Becomes(c, new)
  BY <1>2, <1>4, Update
<1> HIDE DEF new
<1> QED
  BY <1>4, <1>5 DEF Becomes, Typed

\* The answer keeps what it tells, and nothing to do.
LEMMA AnswerStep ==
  ASSUME call \in [Call -> Request], NEW c \in Call, Answer(c)
  PROVE  /\ Typed /\ Others(c) /\ call[c].at \in {"next", "remove"} /\ call'[c].at = "done"
         /\ call'[c].todo = {} /\ call'[c].found = {} /\ call'[c].known = {}
<1> DEFINE r == call[c]
           new == [Idle EXCEPT !.op = r.op, !.at = "done", !.age = r.age, !.skipped = r.skipped,
                               !.errors = r.errors, !.copies = r.copies]
<1>1. Step(c, new) /\ r \in Request /\ r.at \in {"next", "remove"}
  BY DEF Answer, Ready, At
<1> HIDE DEF r
<1>2. /\ r.op \in Ops /\ r.age \in Nat /\ r.skipped \in SUBSET Owner
      /\ r.errors \in SUBSET Dir /\ r.copies \in SUBSET Dir /\ Idle \in Request
  BY <1>1, Fields, IdleIs
<1>3. /\ new \in Request /\ new.at = "done" /\ new.todo = Idle.todo /\ new.found = Idle.found
      /\ new.known = Idle.known
  BY <1>2 DEF Request, Places
<1>4. Becomes(c, new)
  BY <1>1, <1>3, Update
<1> HIDE DEF new
<1> QED
  BY <1>1, <1>3, <1>4, IdleIs DEF Becomes, Typed, r

-----------------------------------------------------------------------------
(* The inductive invariant.                                                *)

Ran(p) == proc[p] \in {"alive", "dead"}

\* What each request may rely on: a spawn knows its process and its home; the ids
\* that were looked up have run, and those to be forgotten are dead; directories
\* to remove belong to the session looked at.
CallInv(c) ==
    /\ call[c].at \in {"launch", "index"} =>
        call[c].name \in Session /\ \A p \in call[c].ids : home[p] = call[c].name
    /\ call[c].at = "launch" => \A p \in call[c].ids : proc[p] = "spawning"
    /\ call[c].at \in {"index", "check"} => \A p \in call[c].ids : Ran(p)
    /\ call[c].at = "forget" => \A p \in call[c].ids : proc[p] = "dead"
    /\ call[c].at \in {"look", "check", "forget"} => call[c].name \in Session
    /\ Ours(c)
    /\ \A d \in call[c].found : d[1] \in Session

\* The processes a request found recorded stay recorded as long as they live; once
\* it has looked at their session, either none of them lives or nothing is left to
\* remove.
KnownInv(c) ==
    \A p \in call[c].known :
        /\ Ran(p)
        /\ proc[p] = "alive" => p \in sessionProcs[home[p]]
        /\ (proc[p] = "alive" /\ home[p] = call[c].name) =>
            /\ call[c].at = "check" => p \in call[c].ids
            /\ call[c].at \in {"forget", "remove"} => call[c].todo = {}

\* No two spawns start the same process.
LaunchInv ==
    \A b, c \in Call : (b # c /\ call[b].at = "launch" /\ call[c].at = "launch") =>
        call[b].ids \cap call[c].ids = {}

\* A process has a session from its spawn on, and what is recorded has run.
ProcInv ==
    /\ \A p \in Proc : proc[p] # "none" => home[p] \in Session
    /\ \A s \in Session : \A p \in sessionProcs[s] : Ran(p)

IInv ==
    /\ TypeOK /\ ProcInv /\ LaunchInv /\ LiveStaysIndexed
    /\ \A c \in Call : CallInv(c) /\ KnownInv(c)

\* What a process may become: its home stays, and no process that has run comes
\* back to life.
Lives ==
    \A p \in Proc :
        /\ proc[p] # "none" => home'[p] = home[p]
        /\ Ran(p) => Ran(p)'
        /\ proc[p] = "dead" => proc'[p] = "dead"

\* What the index may lose: processes that are dead.
Indexes ==
    \A s \in Session, p \in Proc :
        (p \in sessionProcs[s] /\ proc'[p] = "alive") => p \in sessionProcs'[s]

\* The other requests are as safe after a step as before, when the processes and
\* the index change only so, and no process of theirs that waits to run changes.
LEMMA OthersSafe ==
  ASSUME TypeOK, ProcInv, Lives, Indexes, NEW b \in Call, CallInv(b), KnownInv(b),
         call'[b] = call[b], call[b].at = "launch" => \A p \in call[b].ids : proc'[p] = proc[p]
  PROVE  CallInv(b)' /\ KnownInv(b)'
<1>1. call[b] \in Request /\ call[b].ids \subseteq Proc /\ call[b].known \subseteq Proc
  BY Fields DEF TypeOK
<1>2. CallInv(b)'
  BY <1>1 DEF CallInv, Lives, Ran, Ours
<1>3. KnownInv(b)'
  <2> SUFFICES ASSUME NEW p \in call[b].known
               PROVE  /\ Ran(p)'
                      /\ proc'[p] = "alive" => p \in sessionProcs'[home'[p]]
                      /\ (proc'[p] = "alive" /\ home'[p] = call[b].name) =>
                          /\ call[b].at = "check" => p \in call[b].ids
                          /\ call[b].at \in {"forget", "remove"} => call[b].todo = {}
    BY DEF KnownInv
  <2>1. p \in Proc /\ Ran(p) /\ home[p] \in Session /\ home'[p] = home[p] /\ Ran(p)'
    BY <1>1 DEF KnownInv, Ran, ProcInv, Lives
  <2>2. proc'[p] = "alive" => proc[p] = "alive"
    BY <2>1 DEF Lives, Ran
  <2> QED
    BY <2>1, <2>2 DEF KnownInv, Indexes
<1> QED
  BY <1>2, <1>3

\* A step of a request that is no spawn, and leaves processes and index alone.
LEMMA QuietStep ==
  ASSUME IInv, TypeOK', NEW c \in Call, UNCHANGED <<proc, home, sessionProcs>>, Others(c),
         call[c].at \notin {"launch", "index"}, call'[c].at \notin {"launch", "index"},
         CallInv(c)', KnownInv(c)'
  PROVE  IInv'
<1>1. Lives /\ Indexes /\ ProcInv'
  BY DEF IInv, Lives, Indexes, ProcInv, Ran
<1>2. \A b \in Call : CallInv(b)' /\ KnownInv(b)'
  BY <1>1, OthersSafe DEF Others, IInv
<1>3. LaunchInv'
  BY DEF IInv, LaunchInv, Others
<1>4. LiveStaysIndexed'
  BY DEF IInv, LiveStaysIndexed, Others, Alive, At
<1> QED
  BY <1>1, <1>2, <1>3, <1>4 DEF IInv

\* The processes that are recorded when a request arrives have run, and live.
LEMMA ArrivalKnown ==
  ASSUME IInv, NEW c \in Call, UNCHANGED <<proc, home, sessionProcs>>,
         call'[c].at \in {"next", "done"},
         call'[c].known \subseteq {p \in Alive : p \in sessionProcs[home[p]]}
  PROVE  KnownInv(c)'
  BY DEF KnownInv, Alive, Ran

\* The initial states satisfy the inductive invariant.
LEMMA InitInv == Init => IInv
<1> SUFFICES ASSUME Init PROVE IInv
  OBVIOUS
<1>1. TypeOK
  BY SessionDiskAssumption, IdleIs DEF Init, TypeOK, Owner, Time, Dir
<1>2. ProcInv /\ LaunchInv /\ LiveStaysIndexed
  BY IdleIs DEF Init, ProcInv, LaunchInv, LiveStaysIndexed, Alive
<1>3. ASSUME NEW c \in Call PROVE CallInv(c) /\ KnownInv(c)
  BY IdleIs DEF Init, CallInv, KnownInv, Ours
<1> QED
  BY <1>1, <1>2, <1>3 DEF IInv

\* Every step of a spawn preserves the inductive invariant.
LEMMA SpawnInv ==
  ASSUME IInv, NEW c \in Call, Spawn(c)
  PROVE  IInv'
<1> USE DEF IInv
<1>1. CASE MakeSessionDir(c)
  <2>1. PICK s \in Session, p \in Proc :
          /\ proc[p] = "none" /\ disk' = disk \cup {Main(Root), Main(s)}
          /\ proc' = [proc EXCEPT ![p] = "spawning"] /\ home' = [home EXCEPT ![p] = s]
          /\ Step(c, [Idle EXCEPT !.op = "spawn", !.at = "launch", !.name = s, !.ids = {p}])
    BY <1>1 DEF MakeSessionDir
  <2>2. /\ Typed /\ Others(c)
        /\ call'[c].at = "launch" /\ call'[c].name = s /\ call'[c].ids = {p}
        /\ call'[c].todo = {} /\ call'[c].found = {} /\ call'[c].known = {}
    BY <2>1, SpawnStep DEF TypeOK
  <2>3. UNCHANGED <<sessionProcs, pruner, now, made, fault>> /\ call[c].at = "idle"
    BY <1>1 DEF MakeSessionDir
  <2>4. TypeOK'
    BY <2>1, <2>2, <2>3, SessionDiskAssumption DEF TypeOK, Typed, Owner, Dir, Time, Main
  <2>5. Lives /\ Indexes /\ ProcInv'
    BY <2>1, <2>3 DEF TypeOK, Lives, Indexes, ProcInv, Ran
  <2>6. ASSUME NEW b \in Call \ {c} PROVE CallInv(b)' /\ KnownInv(b)'
    <3>1. call[b].at = "launch" => \A q \in call[b].ids : proc'[q] = proc[q]
      BY <2>1 DEF CallInv, TypeOK
    <3> QED
      BY <2>2, <2>5, <3>1, OthersSafe DEF Others
  <2>7. CallInv(c)' /\ KnownInv(c)'
    BY <2>1, <2>2 DEF CallInv, KnownInv, Ours, TypeOK
  <2>8. LaunchInv'
    BY <2>1, <2>2 DEF LaunchInv, Others, CallInv
  <2>9. LiveStaysIndexed'
    <3> SUFFICES ASSUME NEW q \in Proc, proc'[q] = "alive"
                 PROVE  \/ q \in sessionProcs'[home'[q]]
                        \/ \E b \in Call : At(b, "spawn", "index")' /\ q \in call'[b].ids
      BY DEF LiveStaysIndexed, Alive
    <3>1. proc[q] = "alive" /\ home'[q] = home[q] /\ q # p
      BY <2>1 DEF TypeOK
    <3>2. CASE q \in sessionProcs[home[q]]
      BY <3>1, <3>2, <2>3
    <3>3. CASE \E b \in Call : At(b, "spawn", "index") /\ q \in call[b].ids
      BY <3>3, <2>2, <2>3 DEF At, Others
    <3> QED
      BY <3>1, <3>2, <3>3 DEF LiveStaysIndexed, Alive
  <2> QED
    BY <2>2, <2>4, <2>5, <2>6, <2>7, <2>8, <2>9
<1>2. CASE Launch(c)
  <2>1. PICK ok \in BOOLEAN :
          /\ proc' = [p \in Proc |-> IF p \notin call[c].ids THEN proc[p]
                                     ELSE IF ok THEN "alive" ELSE "none"]
          /\ IF ok THEN Goes(c, "index") ELSE Ends(c)
    BY <1>2 DEF Launch
  <2>2. /\ UNCHANGED <<disk, home, sessionProcs, pruner, now, made, fault>>
        /\ call[c].op = "spawn" /\ call[c].at = "launch"
    BY <1>2 DEF Launch, At
  <2>3. /\ Typed /\ Others(c) /\ Keeps(c, IF ok THEN call[c] ELSE Idle)
        /\ call'[c].at = IF ok THEN "index" ELSE "done"
    BY <2>1, GoesStep, EndsStep DEF TypeOK, Places
  <2>4. /\ call[c].ids \subseteq Proc
        /\ \A p \in call[c].ids : proc[p] = "spawning" /\ home[p] = call[c].name
        /\ call[c].name \in Session
    BY <2>2, Fields DEF CallInv, TypeOK
  <2>5. TypeOK'
    BY <2>1, <2>2, <2>3 DEF TypeOK, Typed
  <2>6. Lives /\ Indexes /\ ProcInv'
    BY <2>1, <2>2, <2>4 DEF TypeOK, Lives, Indexes, ProcInv, Ran
  <2>7. ASSUME NEW b \in Call \ {c} PROVE CallInv(b)' /\ KnownInv(b)'
    <3>1. call[b].at = "launch" => \A q \in call[b].ids : proc'[q] = proc[q]
      BY <2>1, <2>2, Fields DEF LaunchInv, TypeOK
    <3> QED
      BY <2>3, <2>6, <3>1, OthersSafe DEF Others
  <2>8. CallInv(c)' /\ KnownInv(c)'
    <3>1. CASE ok
      <4>1. \A p \in call[c].ids : proc'[p] = "alive"
        BY <2>1, <2>4, <3>1
      <4>2. \A p \in call[c].known : p \notin call[c].ids /\ proc'[p] = proc[p]
        BY <2>1, <2>4, Fields DEF KnownInv, Ran, TypeOK
      <4> QED
        BY <2>2, <2>3, <2>4, <3>1, <4>1, <4>2 DEF CallInv, KnownInv, Ours, Keeps, Ran
    <3>2. CASE ~ok
      BY <2>3, <3>2, IdleIs DEF CallInv, KnownInv, Ours, Keeps
    <3> QED
      BY <3>1, <3>2
  <2>9. LaunchInv'
    BY <2>3 DEF LaunchInv, Others
  <2>10. LiveStaysIndexed'
    <3> SUFFICES ASSUME NEW q \in Proc, proc'[q] = "alive"
                 PROVE  \/ q \in sessionProcs'[home'[q]]
                        \/ \E b \in Call : At(b, "spawn", "index")' /\ q \in call'[b].ids
      BY DEF LiveStaysIndexed, Alive
    <3>1. CASE q \in call[c].ids
      BY <2>1, <2>2, <2>3, <3>1 DEF At, Keeps
    <3>2. CASE q \notin call[c].ids
      <4>1. proc[q] = "alive" /\ home'[q] = home[q]
        BY <2>1, <2>2, <3>2
      <4> QED
        BY <2>2, <2>3, <4>1 DEF At, Others, LiveStaysIndexed, Alive
    <3> QED
      BY <3>1, <3>2
  <2> QED
    BY <2>5, <2>6, <2>7, <2>8, <2>9, <2>10
<1>3. CASE IndexProcess(c)
  <2>1. /\ sessionProcs' = [sessionProcs EXCEPT ![call[c].name] = @ \cup call[c].ids]
        /\ UNCHANGED <<disk, proc, home, pruner, now, made, fault>>
        /\ call[c].op = "spawn" /\ call[c].at = "index" /\ Ends(c)
    BY <1>3 DEF IndexProcess, At
  <2>2. Typed /\ Others(c) /\ Keeps(c, Idle) /\ call'[c].at = "done"
    BY <2>1, EndsStep DEF TypeOK
  <2>3. /\ call[c].ids \subseteq Proc /\ call[c].name \in Session
        /\ \A p \in call[c].ids : Ran(p) /\ home[p] = call[c].name
    BY <2>1, Fields DEF CallInv, TypeOK
  <2>4. TypeOK'
    BY <2>1, <2>2, <2>3 DEF TypeOK, Typed
  <2>5. Lives /\ Indexes /\ ProcInv'
    BY <2>1, <2>3 DEF TypeOK, Lives, Indexes, ProcInv, Ran
  <2>6. ASSUME NEW b \in Call \ {c} PROVE CallInv(b)' /\ KnownInv(b)'
    BY <2>1, <2>2, <2>5, OthersSafe DEF Others
  <2>7. CallInv(c)' /\ KnownInv(c)'
    BY <2>2, IdleIs DEF CallInv, KnownInv, Ours, Keeps
  <2>8. LaunchInv'
    BY <2>2 DEF LaunchInv, Others
  <2>9. LiveStaysIndexed'
    <3> SUFFICES ASSUME NEW q \in Proc, proc[q] = "alive"
                 PROVE  \/ q \in sessionProcs'[home[q]]
                        \/ \E b \in Call : At(b, "spawn", "index")' /\ q \in call'[b].ids
      BY <2>1 DEF LiveStaysIndexed, Alive
    <3>1. CASE q \in call[c].ids
      BY <2>1, <2>3, <3>1 DEF TypeOK
    <3>2. CASE q \in sessionProcs[home[q]]
      <4>1. home[q] \in Session
        BY DEF ProcInv
      <4> QED
        BY <2>1, <3>2, <4>1 DEF TypeOK
    <3>3. CASE \E b \in Call \ {c} : At(b, "spawn", "index") /\ q \in call[b].ids
      BY <2>2, <3>3 DEF At, Others
    <3> QED
      BY <3>1, <3>2, <3>3 DEF LiveStaysIndexed, Alive
  <2> QED
    BY <2>4, <2>5, <2>6, <2>7, <2>8, <2>9
<1> QED
  BY <1>1, <1>2, <1>3 DEF Spawn

\* Processes that only die leave everything else as it was.
LEMMA DeathStep ==
  ASSUME IInv, TypeOK', UNCHANGED <<home, sessionProcs>>,
         \A p \in Proc : proc'[p] = proc[p] \/ (proc[p] = "alive" /\ proc'[p] = "dead"),
         \A b \in Call : call'[b] = call[b] \/
            (/\ call[b].at \notin {"launch", "index"} /\ call'[b].at = "done"
             /\ Keeps(b, Idle))
  PROVE  IInv'
<1> USE DEF IInv
<1>1. Lives /\ Indexes /\ ProcInv'
  BY DEF Lives, Indexes, ProcInv, Ran, TypeOK
<1>2. ASSUME NEW b \in Call PROVE CallInv(b)' /\ KnownInv(b)'
  <2>1. CASE call'[b] = call[b]
    <3>1. call[b].at = "launch" => \A q \in call[b].ids : proc'[q] = proc[q]
      BY Fields DEF CallInv, TypeOK
    <3> QED
      BY <1>1, <2>1, <3>1, OthersSafe
  <2>2. CASE call'[b].at = "done" /\ Keeps(b, Idle)
    BY <2>2, IdleIs DEF CallInv, KnownInv, Ours, Keeps
  <2> QED
    BY <2>1, <2>2
<1>3. LaunchInv'
  BY DEF LaunchInv
<1>4. LiveStaysIndexed'
  BY DEF LiveStaysIndexed, Alive, At
<1> QED
  BY <1>1, <1>2, <1>3, <1>4

\* Every step of a stop preserves the inductive invariant.
LEMMA StopInv ==
  ASSUME IInv, NEW c \in Call, StopVM(c)
  PROVE  IInv'
<1> USE DEF IInv
<1>1. CASE BeginStop(c)
  <2>1. /\ Typed /\ Others(c) /\ call'[c].at \in {"copy", "kill"} /\ call[c].at = "idle"
        /\ call'[c].todo = {} /\ call'[c].found = {} /\ call'[c].known = {}
        /\ UNCHANGED <<disk, proc, home, sessionProcs, pruner, now, made, fault>>
    BY <1>1, StopStep DEF TypeOK, BeginStop
  <2>2. TypeOK'
    BY <2>1 DEF TypeOK, Typed
  <2>3. CallInv(c)' /\ KnownInv(c)'
    BY <2>1 DEF CallInv, KnownInv, Ours
  <2> QED
    BY <2>1, <2>2, <2>3, QuietStep
<1>2. ASSUME NEW a \in {"copying", "kill"}, Goes(c, a), call[c].at \in {"copy", "copying"},
             UNCHANGED <<proc, home, sessionProcs, now>>,
             disk' \subseteq Dir, made' \subseteq Dir, fault' \subseteq Owner,
             pruner' \in [Call -> [at : {"idle", "list", "remove"}, of : Owner, todo : SUBSET Dir]]
      PROVE  IInv'
  <2>1. Typed /\ Others(c) /\ Keeps(c, call[c]) /\ call'[c].at = a
    BY <1>2, GoesStep DEF TypeOK, Places
  <2>2. TypeOK'
    BY <1>2, <2>1 DEF TypeOK, Typed
  <2>3. CallInv(c)' /\ KnownInv(c)'
    BY <1>2, <2>1 DEF CallInv, KnownInv, Ours, Keeps, Ran
  <2> QED
    BY <1>2, <2>1, <2>2, <2>3, QuietStep
<1>3. CASE BeginCopy(c)
  <2>1. <<call[c].name, call[c].time>> \in Dir
    BY Fields DEF TypeOK, Dir
  <2> QED
    BY <1>2, <1>3, <2>1 DEF BeginCopy, At, TypeOK
<1>4. CASE CopyFails(c)
  BY <1>2, <1>4, Fields DEF CopyFails, TypeOK
<1>5. CASE CopyDone(c)
  <2>1. [at |-> "list", of |-> call[c].name, todo |-> {}]
          \in [at : {"idle", "list", "remove"}, of : Owner, todo : SUBSET Dir]
    BY Fields DEF TypeOK
  <2> QED
    BY <1>2, <1>5, <2>1 DEF CopyDone, At, TypeOK
<1>6. CASE KillAll(c)
  <2>1. PICK gone \in SUBSET Alive :
          proc' = [p \in Proc |-> IF p \in gone THEN "dead" ELSE proc[p]]
    BY <1>6 DEF KillAll
  <2>2. /\ UNCHANGED <<disk, home, sessionProcs, pruner, now, made, fault>>
        /\ call[c].at = "kill" /\ Ends(c)
    BY <1>6 DEF KillAll, At
  <2>3. Typed /\ Others(c) /\ Keeps(c, Idle) /\ call'[c].at = "done"
    BY <2>2, EndsStep DEF TypeOK
  <2>4. TypeOK'
    BY <2>1, <2>2, <2>3 DEF TypeOK, Typed
  <2>5. \A p \in Proc : proc'[p] = proc[p] \/ (proc[p] = "alive" /\ proc'[p] = "dead")
    BY <2>1 DEF Alive
  <2> QED
    BY <2>2, <2>3, <2>4, <2>5, DeathStep DEF Others
<1> QED
  BY <1>1, <1>3, <1>4, <1>5, <1>6 DEF StopVM

\* The steps of pruneBackups touch nothing that the invariant reads but its type.
LEMMA PruneBackupsInv ==
  ASSUME IInv, NEW c \in Call, pruneBackups(c)
  PROVE  IInv'
<1> DEFINE Job == [at : {"idle", "list", "remove"}, of : Owner, todo : SUBSET Dir]
<1>1. UNCHANGED <<proc, home, sessionProcs, call, now, made>> /\ pruner[c] \in Job
  BY DEF IInv, TypeOK, pruneBackups, ListBackups, RemoveOldest
<1>2. disk' \subseteq Dir /\ fault' \subseteq Owner
  BY <1>1 DEF IInv, TypeOK, pruneBackups, ListBackups, RemoveOldest
<1>3. pruner' \in [Call -> Job]
  <2>1. CASE ListBackups(c)
    <3> DEFINE todo == Surplus(CopiesOf(pruner[c].of, disk))
    <3>1. todo \in SUBSET Dir
      BY DEF Surplus, CopiesOf, IInv, TypeOK
    <3>2. pruner' = [pruner EXCEPT ![c].at = "remove", ![c].todo = todo]
      BY <2>1 DEF ListBackups
    <3> HIDE DEF todo
    <3> QED
      BY <1>1, <3>1, <3>2 DEF IInv, TypeOK
  <2>2. CASE RemoveOldest(c)
    <3>1. PICK d \in pruner[c].todo : pruner' = [pruner EXCEPT ![c].todo = @ \ {d}]
      BY <2>2 DEF RemoveOldest
    <3> QED
      BY <1>1, <3>1 DEF IInv, TypeOK
  <2> QED
    BY <2>1, <2>2 DEF pruneBackups
<1>4. TypeOK'
  BY <1>1, <1>2, <1>3 DEF IInv, TypeOK
<1> QED
  BY <1>1, <1>4, DeathStep DEF IInv

\* Every step of isSessionRunning preserves the inductive invariant.
LEMMA RunningInv ==
  ASSUME IInv, NEW c \in Call, isSessionRunning(c)
  PROVE  IInv'
<1> USE DEF IInv
<1>1. CASE CopyIds(c)
  <2>1. call[c].at = "look" /\ call[c].name \in Session
        /\ UNCHANGED <<disk, proc, home, sessionProcs, pruner, now, made, fault>>
    BY <1>1 DEF CopyIds, CallInv
  <2>2. /\ Typed /\ Others(c) /\ call'[c].at = "check" /\ call'[c].name = call[c].name
        /\ call'[c].ids = sessionProcs[call[c].name] /\ call'[c].todo = call[c].todo
        /\ call'[c].found = call[c].found /\ call'[c].known = call[c].known
    BY <1>1, <2>1, CopyIdsStep
  <2>3. TypeOK'
    BY <2>1, <2>2 DEF TypeOK, Typed
  <2>4. CallInv(c)' /\ KnownInv(c)'
    BY <2>1, <2>2 DEF CallInv, KnownInv, Ours, ProcInv, Ran
  <2> QED
    BY <2>1, <2>2, <2>3, <2>4, QuietStep
<1>2. CASE CheckIds(c)
  <2>1. call[c].at = "check" /\ call[c].ids \subseteq Proc
        /\ UNCHANGED <<disk, proc, home, sessionProcs, pruner, now, made, fault>>
    BY <1>2, Fields DEF CheckIds, TypeOK
  <2>2. /\ Typed /\ Others(c) /\ call'[c].at \in {"remove", "forget"}
        /\ call'[c].ids = call[c].ids \ Alive /\ call'[c].name = call[c].name
        /\ call'[c].todo = IF Busy(call[c].ids) THEN {} ELSE call[c].todo
        /\ call'[c].found = call[c].found /\ call'[c].known = call[c].known
    BY <1>2, CheckIdsStep DEF TypeOK
  <2>3. TypeOK'
    BY <2>1, <2>2 DEF TypeOK, Typed
  <2>4. CallInv(c)'
    BY <2>1, <2>2 DEF CallInv, Ours, Ran, Alive
  <2>5. KnownInv(c)'
    <3>1. ASSUME NEW p \in call[c].known, proc[p] = "alive", home[p] = call[c].name
          PROVE  call'[c].todo = {}
      BY <2>1, <2>2, <3>1 DEF KnownInv, Busy, Alive
    <3> QED
      BY <2>1, <2>2, <3>1 DEF KnownInv, Ran
  <2> QED
    BY <2>1, <2>2, <2>3, <2>4, <2>5, QuietStep
<1>3. CASE ForgetDead(c)
  <2>1. /\ sessionProcs' = [sessionProcs EXCEPT ![call[c].name] = @ \ call[c].ids]
        /\ UNCHANGED <<disk, proc, home, pruner, now, made, fault>>
        /\ call[c].at = "forget" /\ Goes(c, "remove")
    BY <1>3 DEF ForgetDead, Unindex
  <2>2. Typed /\ Others(c) /\ Keeps(c, call[c]) /\ call'[c].at = "remove"
    BY <2>1, GoesStep DEF TypeOK, Places
  <2>3. /\ \A p \in call[c].ids : proc[p] = "dead"
        /\ \A s \in Session : sessionProcs'[s] \subseteq sessionProcs[s]
    BY <2>1 DEF CallInv, TypeOK
  <2>4. TypeOK'
    BY <2>1, <2>2 DEF TypeOK, Typed
  <2>5. Lives /\ Indexes /\ ProcInv'
    BY <2>1, <2>3 DEF TypeOK, Lives, Indexes, ProcInv, Ran
  <2>6. ASSUME NEW b \in Call \ {c} PROVE CallInv(b)' /\ KnownInv(b)'
    BY <2>1, <2>2, <2>5, OthersSafe DEF Others
  <2>7. CallInv(c)'
    BY <2>1, <2>2 DEF CallInv, Ours, Keeps
  <2>8. KnownInv(c)'
    <3>1. ASSUME NEW p \in call[c].known, proc[p] = "alive" PROVE p \in sessionProcs'[home[p]]
      <4>1. p \in Proc /\ p \in sessionProcs[home[p]] /\ home[p] \in Session
        BY <3>1, Fields DEF KnownInv, ProcInv, TypeOK
      <4> QED
        BY <2>1, <2>5, <3>1, <4>1 DEF Indexes
    <3> QED
      BY <2>1, <2>2, <3>1 DEF KnownInv, Keeps, Ran
  <2>9. LaunchInv'
    BY <2>2 DEF LaunchInv, Others
  <2>10. LiveStaysIndexed'
    <3> SUFFICES ASSUME NEW q \in Proc, proc[q] = "alive"
                 PROVE  \/ q \in sessionProcs'[home[q]]
                        \/ \E b \in Call : At(b, "spawn", "index")' /\ q \in call'[b].ids
      BY <2>1 DEF LiveStaysIndexed, Alive
    <3>1. CASE q \in sessionProcs[home[q]]
      BY <2>1, <2>5, <3>1 DEF Indexes, ProcInv
    <3>2. CASE \E b \in Call \ {c} : At(b, "spawn", "index") /\ q \in call[b].ids
      BY <2>2, <3>2 DEF At, Others
    <3> QED
      BY <2>1, <3>1, <3>2 DEF LiveStaysIndexed, Alive, At
  <2> QED
    BY <2>2, <2>4, <2>5, <2>6, <2>7, <2>8, <2>9, <2>10
<1> QED
  BY <1>1, <1>2, <1>3 DEF isSessionRunning

\* The steps of a delete, a prune or their answer preserve the inductive invariant.
LEMMA RequestsInv ==
  ASSUME IInv, NEW c \in Call,
         DeleteSessionDirs(c) \/ PruneSessionCaches(c) \/ RemoveDir(c) \/ Answer(c)
  PROVE  IInv'
<1> USE DEF IInv
<1>1. /\ UNCHANGED <<proc, home, sessionProcs, pruner, now, made, fault>>
      /\ call[c].at \in {"idle", "next", "remove"} /\ disk' \subseteq disk
  BY DEF DeleteSessionDirs, PruneSessionCaches, RemoveDir, Answer, BeginDelete, NextName,
         BeginPrune, NextBackup, SkipYoung, Ready, At
<1>2. \A d \in Listing : d[1] \in Session
  BY DEF TypeOK, Listing, Dir, Owner
\* It remains to see what the request itself becomes.
<1>3. SUFFICES /\ Typed /\ Others(c) /\ call'[c].at \notin {"launch", "index"}
               /\ CallInv(c)' /\ KnownInv(c)'
  <2>1. TypeOK'
    BY <1>1, <1>3 DEF TypeOK, Typed
  <2> QED
    BY <1>1, <1>3, <2>1, QuietStep
<1>4. CASE BeginDelete(c)
  <2>1. /\ Typed /\ Others(c) /\ call'[c].at = "next" /\ call'[c].todo = {}
        /\ call'[c].found = Listing
        /\ call'[c].known \subseteq {p \in Alive : p \in sessionProcs[home[p]]}
    BY <1>4, DeleteStep
  <2>2. KnownInv(c)'
    BY <1>1, <2>1, ArrivalKnown
  <2> QED
    BY <1>2, <2>1, <2>2 DEF CallInv, Ours
<1>5. CASE BeginPrune(c)
  <2>1. /\ Typed /\ Others(c) /\ call'[c].at \in {"next", "done"} /\ call'[c].todo = {}
        /\ call'[c].found \subseteq Listing
        /\ call'[c].known \subseteq {p \in Alive : p \in sessionProcs[home[p]]}
    BY <1>5, PruneStep
  <2>2. KnownInv(c)'
    BY <1>1, <2>1, ArrivalKnown
  <2> QED
    BY <1>2, <2>1, <2>2 DEF CallInv, Ours
<1>6. CASE NextName(c)
  <2>1. /\ Typed /\ Others(c) /\ call'[c].at = "look" /\ call'[c].name \in Session
        /\ Ours(c)' /\ call'[c].found = call[c].found /\ call'[c].known = call[c].known
    BY <1>6, NextNameStep DEF TypeOK
  <2> QED
    BY <1>1, <2>1 DEF CallInv, KnownInv, Ran
<1>7. CASE NextBackup(c)
  <2>1. /\ Typed /\ Others(c) /\ call'[c].at = "look" /\ call'[c].name \in Session
        /\ Ours(c)' /\ call'[c].found \subseteq call[c].found /\ call'[c].known = call[c].known
    BY <1>7, NextBackupStep DEF TypeOK, CallInv
  <2> QED
    BY <1>1, <2>1 DEF CallInv, KnownInv, Ran
<1>8. CASE RemoveDir(c)
  <2>1. /\ Typed /\ Others(c) /\ call'[c].at = "remove" /\ call'[c].name = call[c].name
        /\ call'[c].todo \subseteq call[c].todo /\ call'[c].found = call[c].found
        /\ call'[c].known = call[c].known /\ call[c].at = "remove"
    BY <1>8, RemoveDirStep DEF TypeOK, RemoveDir
  <2> QED
    BY <1>1, <2>1 DEF CallInv, KnownInv, Ours, Ran
<1>9. CASE SkipYoung(c)
  <2>1. /\ Typed /\ Others(c) /\ call'[c].at = "remove" /\ call'[c].todo = {}
        /\ call'[c].found = call[c].found /\ call'[c].known = call[c].known
    BY <1>9, SkipYoungStep DEF TypeOK
  <2> QED
    BY <1>1, <2>1 DEF CallInv, KnownInv, Ours, Ran
<1>10. CASE Answer(c)
  <2>1. /\ Typed /\ Others(c) /\ call'[c].at = "done"
        /\ call'[c].todo = {} /\ call'[c].found = {} /\ call'[c].known = {}
    BY <1>10, AnswerStep DEF TypeOK
  <2> QED
    BY <2>1 DEF CallInv, KnownInv, Ours
<1> QED
  BY <1>4, <1>5, <1>6, <1>7, <1>8, <1>9, <1>10 DEF DeleteSessionDirs, PruneSessionCaches

\* Every step preserves the inductive invariant.
LEMMA NextInv == IInv /\ [Next]_vars => IInv'
<1> SUFFICES ASSUME IInv, [Next]_vars PROVE IInv'
  OBVIOUS
<1>1. ASSUME NEW p \in Proc, ProcessExits(p) PROVE IInv'
  <2>1. /\ UNCHANGED <<disk, home, sessionProcs, call, pruner, now, made, fault>>
        /\ \A q \in Proc : proc'[q] = proc[q] \/ (proc[q] = "alive" /\ proc'[q] = "dead")
    BY <1>1 DEF ProcessExits, IInv, TypeOK
  <2>2. TypeOK'
    BY <1>1, <2>1 DEF ProcessExits, IInv, TypeOK
  <2> QED
    BY <2>1, <2>2, DeathStep
<1>2. ASSUME ClockTicks \/ UNCHANGED vars PROVE IInv'
  <2>1. UNCHANGED <<disk, proc, home, sessionProcs, call, pruner, made, fault>>
    BY <1>2 DEF ClockTicks, vars
  <2>2. TypeOK'
    BY <1>2, <2>1, SessionDiskAssumption DEF ClockTicks, vars, IInv, TypeOK
  <2> QED
    BY <2>1, <2>2, DeathStep
<1> QED
  BY <1>1, <1>2, SpawnInv, StopInv, PruneBackupsInv, RunningInv, RequestsInv DEF Next

-----------------------------------------------------------------------------
(* Results.                                                                *)

\* The inductive invariant holds throughout.
LEMMA Invariance == Spec => []IInv
  BY InitInv, NextInv, PTL DEF Spec

\* Requests hold nothing but directories, ids and names there may be, and no delete
\* ever works for the empty name.
THEOREM TypeCorrect == Spec => []TypeOK
<1>1. IInv => TypeOK
  BY DEF IInv
<1> QED
  BY <1>1, Invariance, PTL

\* A live process whose Spawn has returned is recorded, however many requests
\* delete the dead ids meanwhile.
THEOREM LiveIndexed == Spec => []LiveStaysIndexed
<1>1. IInv => LiveStaysIndexed
  BY DEF IInv
<1> QED
  BY <1>1, Invariance, PTL

\* Only RemoveDir removes something for a request, and it is a directory of the
\* session that the request has looked at.
LEMMA RemovalIs ==
  ASSUME IInv, [Next]_vars, NEW c \in Call, NEW d \in Dir, RemovedFor(c, d)
  PROVE  call[c].at = "remove" /\ d \in call[c].todo /\ d[1] = call[c].name
<1>1. PICK b \in Call : RemoveDir(b) \/ RemoveOldest(b)
  <2>1. d \in disk /\ d \notin disk'
    BY DEF RemovedFor
  <2> QED
    BY <2>1 DEF Next, vars, Spawn, StopVM, pruneBackups, isSessionRunning, DeleteSessionDirs,
         PruneSessionCaches, MakeSessionDir, Launch, IndexProcess, BeginStop, BeginCopy,
         CopyFails, CopyDone, KillAll, ListBackups, CopyIds, CheckIds, ForgetDead,
         BeginDelete, NextName, BeginPrune, NextBackup, SkipYoung, Answer, ProcessExits,
         ClockTicks
<1>2. RemoveDir(b)
  BY <1>1 DEF RemovedFor, RemoveOldest
<1>3. Others(b) /\ \E e \in call[b].todo : disk \ disk' \subseteq {e} /\ disk' \subseteq disk
  BY <1>2, RemoveDirStep DEF IInv, TypeOK
<1>4. b = c
  BY <1>3 DEF RemovedFor, Others
<1> QED
  BY <1>2, <1>3, <1>4 DEF RemovedFor, RemoveDir, IInv, CallInv, Ours

\* Neither delete nor prune removes a directory of a session that has a live process
\* recorded when the request arrived.
THEOREM RecordedSessionKept == Spec => RunningSessionKept
<1> DEFINE Kept == \A c \in Call, d \in Dir : RemovedFor(c, d) =>
                     \A p \in call[c].known : home[p] = d[1] => proc[p] # "alive"
<1>1. IInv /\ [Next]_vars => [Kept]_vars
  <2> SUFFICES ASSUME IInv, [Next]_vars, NEW c \in Call, NEW d \in Dir, RemovedFor(c, d),
                      NEW p \in call[c].known, home[p] = d[1]
               PROVE  proc[p] # "alive"
    OBVIOUS
  <2>1. call[c].at = "remove" /\ d \in call[c].todo /\ d[1] = call[c].name
    BY RemovalIs
  <2> QED
    BY <2>1 DEF IInv, KnownInv
<1> QED
  BY <1>1, Invariance, PTL DEF Spec, RunningSessionKept

-----------------------------------------------------------------------------
(* Counting backups.                                                       *)

\* A set of natural numbers that is not empty has a least one.
LEMMA LeastIs ==
  ASSUME NEW S \in SUBSET Nat, S # {}
  PROVE  \E x \in S : \A y \in S : x <= y
<1> DEFINE Less == {p \in Nat \X Nat : p[1] < p[2]}
<1>1. Less = OpToRel(<, Nat)
  BY DEF OpToRel
<1>2. IsWellFoundedOn(Less, Nat)
  BY <1>1, NatLessThanWellFounded
<1>3. PICK x \in S : \A y \in S : ~ (<<y, x>> \in Less)
  <2> HIDE DEF Less
  <2> QED BY <1>2, WFMin
<1>4. \A y \in S : x <= y
  <2> TAKE y \in S
  <2>1. x \in Nat /\ y \in Nat
    OBVIOUS
  <2>2. <<y, x>> \in Less <=> y < x
    BY <2>1
  <2> QED BY <1>3, <2>1, <2>2
<1> QED
  BY <1>4

\* The copies of one owner are finitely many, and so are those newer than one.
LEMMA CopiesFinite ==
  ASSUME NEW ds \in SUBSET Dir, NEW o
  PROVE  /\ IsFiniteSet(CopiesOf(o, ds))
         /\ \A d : IsFiniteSet(Newer(d, ds))
<1>1. IsFiniteSet(Time)
  BY SessionDiskAssumption, FS_Interval DEF Time
<1>2. \A x : IsFiniteSet({x} \X Time)
  BY <1>1, FS_Singleton, FS_Product
<1>3. CopiesOf(o, ds) \subseteq {o} \X Time
  BY DEF CopiesOf, Dir
<1>4. \A d : Newer(d, ds) \subseteq {d[1]} \X Time
  BY DEF Newer, Dir
<1> QED
  BY <1>2, <1>3, <1>4, FS_Subset

\* Newer backups only become more as more are known of.
LEMMA NewerGrows ==
  ASSUME NEW fewer, NEW ds \in SUBSET Dir, fewer \subseteq ds, NEW d
  PROVE  /\ Cardinality(Newer(d, fewer)) \in Nat /\ Cardinality(Newer(d, ds)) \in Nat
         /\ Cardinality(Newer(d, fewer)) <= Cardinality(Newer(d, ds))
<1>1. Newer(d, fewer) \in SUBSET Newer(d, ds) /\ IsFiniteSet(Newer(d, ds))
  BY CopiesFinite DEF Newer
<1> QED
  BY <1>1, FS_Subset, FS_CardinalityType

\* What pruneBackups does not put on its list is at most Keep backups: all of
\* them but the oldest are newer than that.
LEMMA SurplusLeaves ==
  ASSUME NEW ds \in SUBSET Dir, NEW o
  PROVE  LET copies == CopiesOf(o, ds)
         IN  /\ IsFiniteSet(copies \ Surplus(copies))
             /\ Cardinality(copies \ Surplus(copies)) <= Keep
<1> DEFINE copies == CopiesOf(o, ds)
           left   == copies \ Surplus(copies)
<1>0. \A d \in Dir : d = <<d[1], d[2]>> /\ d[2] \in Nat
  BY SessionDiskAssumption DEF Dir, Time
<1>1. /\ IsFiniteSet(copies) /\ copies \in SUBSET Dir
      /\ \A d \in copies : d[1] = o /\ d[2] \in Nat /\ d = <<o, d[2]>>
  <2>1. \A d \in copies : d \in Dir /\ d[1] = o
    BY DEF CopiesOf
  <2> QED
    BY <1>0, <2>1, CopiesFinite
<1>2. /\ IsFiniteSet(left) /\ left \subseteq copies /\ Keep \in Nat
      /\ \A d \in left : ~ (Cardinality(Newer(d, copies)) >= Keep)
  BY <1>1, FS_Subset, SessionDiskAssumption DEF Surplus
<1> HIDE DEF copies, left
<1>3. CASE left = {}
  BY <1>2, <1>3, FS_EmptySet DEF left, copies
<1>4. CASE left # {}
  <2> DEFINE times == {d[2] : d \in left}
  <2>1. times \in SUBSET Nat /\ times # {}
    BY <1>1, <1>2, <1>4
  <2>2. PICK t \in times : \A u \in times : t <= u
    BY <2>1, LeastIs
  <2>3. PICK m \in left : m[2] = t
    OBVIOUS
  <2>4. ASSUME NEW e \in left \ {m} PROVE e \in Newer(m, copies)
    <3>1. e \in copies /\ m \in copies /\ e # m /\ m[2] <= e[2]
      BY <1>2, <2>2, <2>3
    <3>2. e[2] # m[2]
      BY <1>1, <3>1
    <3> QED
      BY <1>1, <3>1, <3>2 DEF Newer
  <2>5. /\ Cardinality(left \ {m}) = Cardinality(left) - 1
        /\ Cardinality(left) \in Nat
    BY <1>2, <2>3, FS_RemoveElement, FS_CardinalityType
  <2>6. IsFiniteSet(Newer(m, copies)) /\ Cardinality(Newer(m, copies)) \in Nat
    BY <1>1, CopiesFinite, FS_CardinalityType
  <2>7. Cardinality(left \ {m}) <= Cardinality(Newer(m, copies))
    BY <2>4, <2>6, FS_Subset
  <2>8. ~ (Cardinality(Newer(m, copies)) >= Keep)
    BY <1>2, <2>3
  <2>9. Cardinality(left \ {m}) \in Int
    BY <2>5
  <2>10. Cardinality(left) <= Keep
    BY <1>2, <2>5, <2>6, <2>7, <2>8
  <2> QED
    BY <1>2, <2>10 DEF left, copies
<1> QED
  BY <1>3, <1>4

-----------------------------------------------------------------------------
(* The invariant of the backups.                                           *)

Job == [at : {"idle", "list", "remove"}, of : Owner, todo : SUBSET Dir]

\* Every backup there is was made.
MadeInv == \A d \in disk : IsCopy(d) => d \in made

\* What a pruneBackups is to remove has Keep newer ones that were made, whatever
\* others have removed since it listed.
TodoInv == \A c \in Call : \A d \in pruner[c].todo : Cardinality(Newer(d, made)) >= Keep

\* A stopVM starts its pruneBackups after its copy, and copies once.
OnceInv ==
    \A c \in Call : call[c].at \in {"idle", "copy", "copying"} =>
                       pruner[c].at = "idle" /\ pruner[c].todo = {}

\* A pruneBackups of the owner has made its list, no other is still to make it, and
\* no copy is being made.
Listed(o) ==
    /\ \E c \in Call : pruner[c].of = o /\ pruner[c].at = "remove"
    /\ \A c \in Call : /\ pruner[c].of = o => pruner[c].at # "list"
                       /\ call[c].name = o => call[c].at # "copying"

\* The backups no pruneBackups of the owner is to remove.
Left(o) == {d \in CopiesOf(o, disk) : \A c \in Call : pruner[c].of = o => d \notin pruner[c].todo}

\* They are few enough from the last list on: what is made later makes a new list.
LeftInv == \A o \in Owner \ fault : Listed(o) => Cardinality(Left(o)) <= Keep

BackupInv == MadeInv /\ TodoInv /\ OnceInv /\ LeftInv

\* With less left the bound still holds.
LEMMA LeftShrinks ==
  ASSUME TypeOK, NEW o, NEW fewer, fewer \subseteq Left(o), Cardinality(Left(o)) <= Keep
  PROVE  Cardinality(fewer) <= Keep
<1>1. IsFiniteSet(Left(o))
  <2>1. Left(o) \in SUBSET CopiesOf(o, disk) /\ IsFiniteSet(CopiesOf(o, disk))
    BY CopiesFinite DEF Left, TypeOK
  <2> QED
    BY <2>1, FS_Subset
<1>2. /\ Cardinality(fewer) <= Cardinality(Left(o))
      /\ IsFiniteSet(fewer)
  BY <1>1, FS_Subset
<1> QED
  BY <1>1, <1>2, FS_CardinalityType, SessionDiskAssumption

\* The request neither begins nor ends a copy.
Apart(c) ==
    \/ call'[c] = call[c]
    \/ /\ call[c].at # "copying" /\ call'[c].at \notin {"idle", "copying"}
       /\ call'[c].at = "copy" => call[c].at = "idle"

\* All steps but those of copies and of pruneBackups: no backup appears.
LEMMA ApartStep ==
  ASSUME TypeOK, BackupInv, UNCHANGED <<pruner, made, fault>>,
         \A d \in disk' : IsCopy(d) => d \in disk, \A c \in Call : Apart(c)
  PROVE  BackupInv'
<1>1. MadeInv' /\ TodoInv'
  BY DEF BackupInv, MadeInv, TodoInv, IsCopy
<1>2. OnceInv'
  BY DEF BackupInv, OnceInv, Apart
<1>3. LeftInv'
  <2> SUFFICES ASSUME NEW o \in Owner \ fault, Listed(o)' PROVE Cardinality(Left(o)') <= Keep
    BY DEF LeftInv
  <2>1. \A c \in Call : call'[c] = call[c] \/ call[c].at # "copying"
    BY DEF Apart
  <2>2. Listed(o)
    BY <2>1 DEF Listed
  <2>3. Left(o)' \subseteq Left(o)
    BY DEF Left, CopiesOf, IsCopy
  <2> QED
    BY <2>2, <2>3, LeftShrinks DEF BackupInv, LeftInv
<1> QED
  BY <1>1, <1>2, <1>3 DEF BackupInv

\* A spawn, isSessionRunning, a delete, a prune and their answers are such steps.
LEMMA RequestsApart ==
  ASSUME IInv, BackupInv, NEW c \in Call,
         \/ Spawn(c) \/ isSessionRunning(c) \/ DeleteSessionDirs(c)
         \/ PruneSessionCaches(c) \/ RemoveDir(c) \/ Answer(c)
  PROVE  BackupInv'
<1>1. UNCHANGED <<pruner, made, fault>> /\ TypeOK /\ call \in [Call -> Request]
  BY DEF Spawn, MakeSessionDir, Launch, IndexProcess, isSessionRunning, CopyIds, CheckIds,
         ForgetDead, DeleteSessionDirs, BeginDelete, NextName, PruneSessionCaches, BeginPrune,
         NextBackup, SkipYoung, RemoveDir, Answer, IInv, TypeOK
<1>2. \A d \in disk' : IsCopy(d) => d \in disk
  <2>1. CASE MakeSessionDir(c)
    <3>1. \A s \in Owner : ~IsCopy(Main(s))
      BY DEF IsCopy, Main
    <3> QED
      BY <2>1, <3>1 DEF MakeSessionDir, Owner
  <2>2. CASE RemoveDir(c)
    BY <1>1, <2>2, RemoveDirStep
  <2>3. CASE UNCHANGED disk
    BY <2>3
  <2> QED
    BY <2>1, <2>2, <2>3
       DEF Spawn, Launch, IndexProcess, isSessionRunning, CopyIds, CheckIds, ForgetDead,
           DeleteSessionDirs, BeginDelete, NextName, PruneSessionCaches, BeginPrune,
           NextBackup, SkipYoung, Answer
<1>3. Others(c) /\ call[c].at # "copying" /\ call'[c].at \notin {"idle", "copy", "copying"}
  <2>1. CASE MakeSessionDir(c)
    BY <1>1, <2>1, SpawnStep DEF MakeSessionDir
  <2>2. CASE Launch(c) \/ IndexProcess(c)
    <3>1. (Goes(c, "index") \/ Ends(c)) /\ call[c].at \in {"launch", "index"}
      BY <2>2 DEF Launch, IndexProcess, At
    <3> QED
      BY <1>1, <3>1, GoesStep, EndsStep DEF Places
  <2>3. CASE CopyIds(c)
    BY <1>1, <2>3, CopyIdsStep DEF CopyIds, IInv, CallInv
  <2>4. CASE CheckIds(c)
    BY <1>1, <2>4, CheckIdsStep DEF CheckIds
  <2>5. CASE ForgetDead(c)
    BY <1>1, <2>5, GoesStep DEF ForgetDead, Places
  <2>6. CASE BeginDelete(c)
    BY <1>1, <2>6, DeleteStep DEF BeginDelete
  <2>7. CASE NextName(c)
    BY <1>1, <2>7, NextNameStep DEF NextName, Ready, At
  <2>8. CASE BeginPrune(c)
    BY <1>1, <2>8, PruneStep DEF BeginPrune
  <2>9. CASE NextBackup(c)
    BY <1>1, <2>9, NextBackupStep DEF NextBackup, Ready, At, IInv, CallInv
  <2>10. CASE SkipYoung(c)
    BY <1>1, <2>10, SkipYoungStep DEF SkipYoung, At
  <2>11. CASE RemoveDir(c)
    BY <1>1, <2>11, RemoveDirStep DEF RemoveDir
  <2>12. CASE Answer(c)
    BY <1>1, <2>12, AnswerStep
  <2> QED
    BY <2>1, <2>2, <2>3, <2>4, <2>5, <2>6, <2>7, <2>8, <2>9, <2>10, <2>11, <2>12
       DEF Spawn, isSessionRunning, DeleteSessionDirs, PruneSessionCaches
<1> QED
  BY <1>1, <1>2, <1>3, ApartStep DEF Apart, Others

\* Every step of a stop preserves the invariant of the backups.
LEMMA StopBackups ==
  ASSUME IInv, IInv', BackupInv, NEW c \in Call, StopVM(c)
  PROVE  BackupInv'
<1>1. TypeOK /\ TypeOK' /\ call \in [Call -> Request] /\ call[c] \in Request
  BY DEF IInv, TypeOK
<1>2. CASE BeginStop(c)
  <2>1. Others(c) /\ call'[c].at \in {"copy", "kill"} /\ call[c].at = "idle"
        /\ UNCHANGED <<disk, pruner, made, fault>>
    BY <1>1, <1>2, StopStep DEF BeginStop, TypeOK
  <2> QED
    BY <1>1, <2>1, ApartStep DEF Apart, Others
<1>3. CASE KillAll(c)
  <2>1. Others(c) /\ call'[c].at = "done" /\ call[c].at = "kill"
        /\ UNCHANGED <<disk, pruner, made, fault>>
    BY <1>1, <1>3, EndsStep DEF KillAll, At
  <2> QED
    BY <1>1, <2>1, ApartStep DEF Apart, Others
<1>4. CASE BeginCopy(c)
  <2> DEFINE o == call[c].name
             target == <<o, call[c].time>>
  <2>1. /\ Others(c) /\ call'[c].at = "copying" /\ call'[c].name = o /\ call[c].at = "copy"
        /\ disk' = disk \cup {target} /\ made' = made \cup {target}
        /\ UNCHANGED <<pruner, fault>>
    BY <1>1, <1>4, GoesStep DEF BeginCopy, At, Keeps, Places
  <2>2. target[1] = o
    OBVIOUS
  <2> HIDE DEF target, o
  <2>3. MadeInv' /\ OnceInv'
    BY <2>1 DEF BackupInv, MadeInv, OnceInv, Others
  <2>4. TodoInv'
    <3> SUFFICES ASSUME NEW b \in Call, NEW d \in pruner[b].todo
                 PROVE  Cardinality(Newer(d, made')) >= Keep
      BY <2>1 DEF TodoInv
    <3>1. /\ Cardinality(Newer(d, made)) <= Cardinality(Newer(d, made'))
          /\ Cardinality(Newer(d, made)) \in Nat /\ Cardinality(Newer(d, made')) \in Nat
      BY <1>1, <2>1, NewerGrows DEF TypeOK
    <3> QED
      BY <3>1, SessionDiskAssumption DEF BackupInv, TodoInv
  <2>5. LeftInv'
    <3> SUFFICES ASSUME NEW w \in Owner \ fault, Listed(w)' PROVE Cardinality(Left(w)') <= Keep
      BY <2>1 DEF LeftInv
    <3>1. w # o
      BY <2>1 DEF Listed
    <3>2. Listed(w)
      BY <2>1, <3>1 DEF Listed, Others
    <3>3. Left(w)' \subseteq Left(w)
      BY <2>1, <2>2, <3>1 DEF Left, CopiesOf
    <3> QED
      BY <1>1, <3>2, <3>3, LeftShrinks DEF BackupInv, LeftInv
  <2> QED
    BY <2>3, <2>4, <2>5 DEF BackupInv
<1>5. CASE CopyFails(c)
  <2>1. /\ Others(c) /\ call'[c].at = "kill" /\ call[c].at \in {"copy", "copying"}
        /\ fault' = fault \cup {call[c].name} /\ UNCHANGED <<disk, pruner, made>>
    BY <1>1, <1>5, GoesStep DEF CopyFails, Places
  <2>2. MadeInv' /\ TodoInv' /\ OnceInv'
    BY <2>1 DEF BackupInv, MadeInv, TodoInv, OnceInv, Others
  <2>3. LeftInv'
    <3> SUFFICES ASSUME NEW w \in Owner \ fault', Listed(w)' PROVE Cardinality(Left(w)') <= Keep
      BY DEF LeftInv
    <3>1. Listed(w) /\ w \in Owner \ fault
      BY <2>1 DEF Listed, Others
    <3>2. Left(w)' = Left(w)
      BY <2>1 DEF Left, CopiesOf
    <3> QED
      BY <3>1, <3>2 DEF BackupInv, LeftInv
  <2> QED
    BY <2>2, <2>3 DEF BackupInv
<1>6. CASE CopyDone(c)
  <2> DEFINE o == call[c].name
             job == [at |-> "list", of |-> o, todo |-> {}]
  <2>1. /\ Others(c) /\ call'[c].at = "kill" /\ call[c].at = "copying"
        /\ pruner' = [pruner EXCEPT ![c] = job] /\ UNCHANGED <<disk, made, fault>>
    BY <1>1, <1>6, GoesStep DEF CopyDone, At, Places
  <2>2. job.at = "list" /\ job.of = o /\ job.todo = {}
    OBVIOUS
  <2> HIDE DEF job, o
  <2>3. pruner'[c] = job /\ \A b \in Call \ {c} : pruner'[b] = pruner[b]
    BY <1>1, <2>1 DEF TypeOK
  <2>4. pruner[c].at = "idle" /\ pruner[c].todo = {}
    BY <2>1 DEF BackupInv, OnceInv
  <2>5. MadeInv' /\ TodoInv' /\ OnceInv'
    BY <2>1, <2>2, <2>3 DEF BackupInv, MadeInv, TodoInv, OnceInv, Others
  <2>6. LeftInv'
    <3> SUFFICES ASSUME NEW w \in Owner \ fault, Listed(w)' PROVE Cardinality(Left(w)') <= Keep
      BY <2>1 DEF LeftInv
    <3>1. w # o
      BY <2>2, <2>3 DEF Listed
    <3>2. Listed(w)
      BY <2>1, <2>2, <2>3, <2>4, <3>1 DEF Listed, Others, o
    <3>3. Left(w)' \subseteq Left(w)
      BY <2>1, <2>2, <2>3, <2>4 DEF Left, CopiesOf
    <3> QED
      BY <1>1, <3>2, <3>3, LeftShrinks DEF BackupInv, LeftInv
  <2> QED
    BY <2>5, <2>6 DEF BackupInv
<1> QED
  BY <1>2, <1>3, <1>4, <1>5, <1>6 DEF StopVM

\* The steps of pruneBackups: a list leaves Keep backups of its owner, and what
\* leaves a list leaves the disk, or is a fault.
LEMMA PruneStepBackups ==
  ASSUME IInv, BackupInv, NEW c \in Call, pruneBackups(c)
  PROVE  BackupInv'
<1>1. /\ UNCHANGED <<call, made>> /\ TypeOK /\ pruner[c] \in Job
      /\ pruner \in [Call -> Job] /\ disk' \subseteq disk /\ fault \subseteq fault'
  BY DEF pruneBackups, ListBackups, RemoveOldest, IInv, TypeOK, Job
<1>2. CASE ListBackups(c)
  <2> DEFINE o      == pruner[c].of
             copies == CopiesOf(o, disk)
             todo   == Surplus(copies)
             job    == [pruner[c] EXCEPT !.at = "remove", !.todo = todo]
  <2>1. /\ pruner[c].at = "list" /\ pruner' = [pruner EXCEPT ![c] = job]
        /\ UNCHANGED <<disk, fault>>
    BY <1>1, <1>2 DEF ListBackups
  <2>2. job.at = "remove" /\ job.of = o /\ job.todo = todo
    BY <1>1 DEF Job
  <2>3. /\ copies \subseteq made /\ \A d \in todo : Cardinality(Newer(d, copies)) >= Keep
        /\ Cardinality(copies \ todo) <= Keep
    <3>1. copies \subseteq made
      BY DEF BackupInv, MadeInv, CopiesOf
    <3>2. \A d \in todo : Cardinality(Newer(d, copies)) >= Keep
      BY DEF Surplus
    <3>3. disk \in SUBSET Dir
      BY <1>1 DEF TypeOK
    <3> QED
      BY <3>1, <3>2, <3>3, SurplusLeaves
  <2> HIDE DEF job
  <2>4. pruner'[c] = job /\ \A b \in Call \ {c} : pruner'[b] = pruner[b]
    BY <1>1, <2>1
  <2> HIDE DEF todo
  <2>5. MadeInv' /\ OnceInv'
    BY <1>1, <2>1, <2>4 DEF BackupInv, MadeInv, OnceInv
  <2>6. TodoInv'
    <3>1. ASSUME NEW d \in todo PROVE Cardinality(Newer(d, made)) >= Keep
      <4>1. /\ Cardinality(Newer(d, copies)) <= Cardinality(Newer(d, made))
            /\ Cardinality(Newer(d, copies)) \in Nat /\ Cardinality(Newer(d, made)) \in Nat
        BY <1>1, <2>3, NewerGrows DEF TypeOK
      <4> QED
        BY <2>3, <4>1, SessionDiskAssumption
    <3> QED
      BY <1>1, <2>2, <2>4, <3>1 DEF BackupInv, TodoInv
  <2>7. LeftInv'
    <3> SUFFICES ASSUME NEW w \in Owner \ fault, Listed(w)' PROVE Cardinality(Left(w)') <= Keep
      BY <2>1 DEF LeftInv
    <3>1. CASE w = o
      <4>1. Left(w)' \subseteq copies \ todo
        BY <2>1, <2>2, <2>4, <3>1 DEF Left, CopiesOf
      <4>2. IsFiniteSet(copies \ todo)
        BY <1>1, SurplusLeaves DEF TypeOK, todo
      <4>3. IsFiniteSet(Left(w)') /\ Cardinality(Left(w)') <= Cardinality(copies \ todo)
        BY <4>1, <4>2, FS_Subset
      <4>4. Cardinality(Left(w)') \in Nat /\ Cardinality(copies \ todo) \in Nat
        BY <4>2, <4>3, FS_CardinalityType
      <4> QED
        BY <2>3, <4>3, <4>4, SessionDiskAssumption
    <3>2. CASE w # o
      <4>1. Listed(w)
        BY <1>1, <2>1, <2>2, <2>4, <3>2 DEF Listed
      <4>2. Left(w)' \subseteq Left(w)
        BY <2>1, <2>2, <2>4, <3>2 DEF Left, CopiesOf
      <4> QED
        BY <1>1, <4>1, <4>2, LeftShrinks DEF BackupInv, LeftInv
    <3> QED
      BY <3>1, <3>2
  <2> QED
    BY <2>5, <2>6, <2>7 DEF BackupInv
<1>3. CASE RemoveOldest(c)
  <2>1. PICK d \in pruner[c].todo :
          /\ pruner[c].at = "remove"
          /\ pruner' = [pruner EXCEPT ![c].todo = @ \ {d}]
          /\ \/ disk' = disk \ {d} /\ UNCHANGED fault
             \/ fault' = fault \cup {pruner[c].of} /\ UNCHANGED disk
    BY <1>3 DEF RemoveOldest
  <2> DEFINE rest == pruner[c].todo \ {d}
             job  == [pruner[c] EXCEPT !.todo = rest]
  <2>2. pruner' = [pruner EXCEPT ![c] = job]
    BY <1>1, <2>1
  <2>3. job.at = "remove" /\ job.of = pruner[c].of /\ job.todo = rest
    BY <1>1, <2>1 DEF Job
  <2> HIDE DEF job
  <2>4. pruner'[c] = job /\ \A b \in Call \ {c} : pruner'[b] = pruner[b]
    BY <1>1, <2>2
  <2>5. MadeInv' /\ TodoInv' /\ OnceInv'
    BY <1>1, <2>1, <2>3, <2>4 DEF BackupInv, MadeInv, TodoInv, OnceInv
  <2>6. LeftInv'
    <3> SUFFICES ASSUME NEW w \in Owner \ fault', Listed(w)' PROVE Cardinality(Left(w)') <= Keep
      BY DEF LeftInv
    <3>1. Listed(w) /\ w \in Owner \ fault
      BY <1>1, <2>1, <2>3, <2>4 DEF Listed
    <3>2. Left(w)' \subseteq Left(w)
      <4> SUFFICES ASSUME NEW x \in Left(w)' PROVE x \in Left(w)
        OBVIOUS
      <4>1. x \in disk' /\ x \in CopiesOf(w, disk)
        BY <1>1 DEF Left, CopiesOf
      <4>2. ASSUME NEW b \in Call, pruner[b].of = w PROVE x \notin pruner[b].todo
        <5>1. pruner'[b].of = w /\ x \notin pruner'[b].todo
          BY <2>3, <2>4, <4>2 DEF Left
        <5>2. CASE b = c
          BY <2>1, <2>3, <2>4, <4>1, <4>2, <5>1, <5>2
        <5> QED
          BY <2>4, <5>1, <5>2
      <4> QED
        BY <4>1, <4>2 DEF Left
    <3> QED
      BY <1>1, <3>1, <3>2, LeftShrinks DEF BackupInv, LeftInv
  <2> QED
    BY <2>5, <2>6 DEF BackupInv
<1> QED
  BY <1>2, <1>3 DEF pruneBackups

\* Nothing has been pruned or copied at the beginning.
LEMMA InitBackups == Init => BackupInv
<1> SUFFICES ASSUME Init PROVE BackupInv
  OBVIOUS
<1>1. \A c \in Call : pruner[c].at = "idle" /\ pruner[c].todo = {}
  BY DEF Init
<1> QED
  BY <1>1 DEF Init, BackupInv, MadeInv, TodoInv, OnceInv, LeftInv, Listed

\* The invariant of the backups holds throughout.
LEMMA BackupInvariance == Spec => []BackupInv
<1>1. IInv /\ IInv' /\ BackupInv /\ [Next]_vars => BackupInv'
  <2> SUFFICES ASSUME IInv, IInv', BackupInv, [Next]_vars PROVE BackupInv'
    OBVIOUS
  <2>1. CASE \/ ClockTicks \/ UNCHANGED vars \/ \E p \in Proc : ProcessExits(p)
    <3>1. UNCHANGED <<disk, call, pruner, made, fault>>
      BY <2>1 DEF ClockTicks, vars, ProcessExits
    <3> QED
      BY <3>1, ApartStep DEF Apart, IInv
  <2> QED
    BY <2>1, RequestsApart, StopBackups, PruneStepBackups DEF Next
<1> QED
  BY <1>1, InitBackups, Invariance, PTL DEF Spec

\* pruneBackups never removes one of the newest Keep backups a session ever had,
\* although it works from a listing that copies, other prunes and deletes overtake.
THEOREM NewestKept == Spec => NewestBackupsKept
<1> DEFINE Kept == \A c \in Call : pruner'[c] # pruner[c] =>
                     \A d \in disk \ disk' : Cardinality(Newer(d, made)) >= Keep
<1>1. BackupInv /\ [Next]_vars => [Kept]_vars
  <2> SUFFICES ASSUME BackupInv, [Next]_vars, NEW c \in Call, pruner'[c] # pruner[c],
                      NEW d \in disk \ disk'
               PROVE  Cardinality(Newer(d, made)) >= Keep
    OBVIOUS
  <2>1. \E b \in Call : RemoveOldest(b)
    BY DEF Next, vars, Spawn, StopVM, pruneBackups, isSessionRunning, DeleteSessionDirs,
         PruneSessionCaches, MakeSessionDir, Launch, IndexProcess, BeginStop, BeginCopy,
         CopyFails, CopyDone, KillAll, ListBackups, CopyIds, CheckIds, ForgetDead,
         BeginDelete, NextName, BeginPrune, NextBackup, SkipYoung, RemoveDir, Answer,
         ProcessExits, ClockTicks
  <2>2. \E b \in Call : d \in pruner[b].todo
    BY <2>1 DEF RemoveOldest
  <2> QED
    BY <2>2 DEF BackupInv, TodoInv
<1> QED
  BY <1>1, BackupInvariance, PTL DEF Spec, NewestBackupsKept

\* When the stops of a session and their prunes are done, Keep backups are left at
\* most, however those overlapped, unless a copy or a removal failed.
THEOREM FewBackupsLeft == Spec => []BackupsBounded
<1>1. TypeOK /\ BackupInv => BackupsBounded
  <2> SUFFICES ASSUME TypeOK, BackupInv, NEW o \in Owner \ fault,
                      \E c \in Call : pruner[c].of = o /\ pruner[c].at = "remove",
                      \A c \in Call : /\ pruner[c].of = o => ~Pruning(c)
                                      /\ call[c].name = o => call[c].at # "copying"
               PROVE  Cardinality(CopiesOf(o, disk)) <= Keep
    BY DEF BackupsBounded
  <2>1. Listed(o) /\ Left(o) = CopiesOf(o, disk)
    BY DEF Listed, Left, Pruning
  <2> QED
    BY <2>1 DEF BackupInv, LeftInv
<1> QED
  BY <1>1, BackupInvariance, TypeCorrect, PTL
=============================================================================
