------------------------------- MODULE Resume -------------------------------
(***************************************************************************)
(* Where a spawned CLI finds the conversation it is told to resume.        *)
(*                                                                         *)
(* The CLI keeps the transcript of a conversation in a project directory   *)
(* named after its working directory, the slug, and looks for it nowhere   *)
(* else.  Native Spawn therefore picks the working directory by where the  *)
(* transcript lies (native/workspace.go), and when no folder it may pick   *)
(* has one, copies it under the slug of the folder it picks                *)
(* (transcript/transcript.go).  The KVM backend cannot choose: the guest   *)
(* works in /sessions/<name>, and it copies to the slug of that            *)
(* (vm/native_artifacts.go).                                               *)
(*                                                                         *)
(* One conversation is modelled, and spawns of it that may overlap.  A     *)
(* copy is the code's sequence of file operations, each of which may fail, *)
(* and the daemon may die between two of them.  The user attaches and      *)
(* detaches folders, folders come and go, and the backend is switched      *)
(* between spawns.                                                         *)
(*                                                                         *)
(* Abstracted: a transcript is the set of its turns, and the CLI appends   *)
(* one at once; folders are numbers in the order of their mount names and  *)
(* slugs numbers in the order of their names.  A folder is attached under  *)
(* the path the CLI sees it by, not the one of a symlink to it.  Desktop   *)
(* mounts the CLI's configuration directory into every session, so it is   *)
(* always known.                                                           *)
(***************************************************************************)
EXTENDS Integers, Sequences, FiniteSets, FiniteSetsExt

CONSTANTS
    Spawns,       \* the calls of Spawn, each with the CLI it starts
    Folders,      \* the folders a user may attach: numbers, by mount name
    Slugs,        \* the project directories: numbers, by name
    SlugOf,       \* the slug the CLI derives from each folder
    Long,         \* the folders whose slug the CLI shortens with a hash
    HomeSlug,     \* the slug of the session's own directory on the host
    GuestSlug,    \* the slug of /sessions/<name> in the guest
    Configs,      \* the configurations a session goes through
    MaxTurns      \* bound: turns of the conversation

ASSUME FoldersAssumption ==
    /\ Folders \subseteq Nat /\ IsFiniteSet(Folders)
    /\ Slugs \subseteq Nat /\ IsFiniteSet(Slugs)
    /\ SlugOf \in [Folders -> Slugs]
    /\ Long \subseteq Folders
    /\ HomeSlug \in Slugs /\ GuestSlug \in Slugs
ASSUME ConfigsAssumption ==
    Configs \subseteq [backend : {"native", "kvm"},
                       mounts : SUBSET Folders,     \* attached to the session
                       present : SUBSET Folders,    \* directories, made by
                                                    \* Spawn if they were not
                       hint : Seq(Folders)]         \* in the order attached
ASSUME BoundAssumption == MaxTurns \in Nat

VARIABLES
    config,       \* the session's configuration
    store,        \* slug -> the transcript there
    spawn,        \* the calls, and the CLIs they started
    turns,        \* how many turns the conversation has had
    \* history, read by the properties only:
    steady,       \* turns written under the current configuration, all of them
    overlap,      \* two calls of Spawn were under way at once
    raced         \* two of them copied to one slug at once

vars == <<config, store, spawn, turns, steady, overlap, raced>>
history == <<steady, overlap, raced>>

NoSlug == -1
Absent == [turns |-> {}, state |-> "absent"]

\* Steps of a call: check the destination, open the source and create a
\* temporary file, copy, rename; then the CLI starts, and runs.
Copying == {"check", "create", "copy", "rename"}

Idle == [pc |-> "idle", from |-> 0, to |-> 0, temp |-> Absent, found |-> FALSE,
         failed |-> FALSE, reachable |-> FALSE, steady |-> FALSE, must |-> {}]

Turn == 1..MaxTurns
Transcripts == [turns : SUBSET Turn, state : {"absent", "torn", "whole"}]

(***************************************************************************)
(* The choice of the working directory.                                    *)
(***************************************************************************)

Slugify(f) == IF f \in Long THEN NoSlug ELSE SlugOf[f]

\* The mounts that are directories when Spawn has made those that did not
\* exist: the others are files, or could not be made.
eligibleWorkspaceMounts(c) == c.mounts \cap c.present

\* The places of a folder in the user's list.
Hints(c, f) == {i \in DOMAIN c.hint : c.hint[i] = f}

\* Mutation: the other mounts in the order a Go map happens to have.
Mut_orderedCwdCandidates(c) ==
    {p \in eligibleWorkspaceMounts(c) \X eligibleWorkspaceMounts(c) :
        IF Hints(c, p[1]) \cup Hints(c, p[2]) = {}
        THEN IF turns % 2 = 0 THEN p[1] < p[2] ELSE p[2] < p[1]
        ELSE \E i \in Hints(c, p[1]) : \A j \in Hints(c, p[2]) : i < j}

\* The list as its order, pairs of a folder and one behind it: hinted folders
\* as the user first names them, then the others by mount name.
orderedCwdCandidates(c) ==
    {p \in eligibleWorkspaceMounts(c) \X eligibleWorkspaceMounts(c) :
        IF Hints(c, p[1]) \cup Hints(c, p[2]) = {}
        THEN p[1] < p[2]
        ELSE \E i \in Hints(c, p[1]) : \A j \in Hints(c, p[2]) : i < j}

\* The first of some candidates.
First(c, fs) == CHOOSE f \in fs : \A g \in fs \ {f} : <<f, g>> \in orderedCwdCandidates(c)

\* The project directories that hold the transcript, torn or not.
FindTranscript == {d \in Slugs : store[d].state # "absent"}

\* The candidates whose slug has it.
Holding(c, dirs) == {f \in eligibleWorkspaceMounts(c) : Slugify(f) \in dirs}

\* Where the CLI will look, and whether the transcript is to be copied there.
Choice(to, copies) == [to |-> to, copies |-> copies]

\* Mutation: no copy when no candidate has the transcript.
Mut_chooseSpawnCwd(c, dirs) ==
    LET candidates == eligibleWorkspaceMounts(c)
        holding    == Holding(c, dirs)
    IN  CASE candidates = {} -> Choice(HomeSlug, FALSE)
          [] candidates # {} /\ holding # {} -> Choice(SlugOf[First(c, holding)], FALSE)
          [] OTHER -> Choice(SlugOf[First(c, candidates)], FALSE)

chooseSpawnCwd(c, dirs) ==
    LET candidates == eligibleWorkspaceMounts(c)
        holding    == Holding(c, dirs)
        first      == First(c, candidates)
    IN  CASE candidates = {} -> Choice(HomeSlug, FALSE)
          [] candidates # {} /\ holding # {} -> Choice(SlugOf[First(c, holding)], FALSE)
          [] candidates # {} /\ holding = {} /\ HomeSlug \in dirs -> Choice(HomeSlug, FALSE)
          [] OTHER -> Choice(SlugOf[first], dirs # {} /\ Slugify(first) # NoSlug)

\* Mutation: a slug that cannot be computed is not recognised as such.
Mut_migrateTranscriptForResume(dirs) ==
    Choice(NoSlug, dirs # {} /\ GuestSlug \notin dirs)

\* The guest's working directory is given; only the copy is the daemon's.
migrateTranscriptForResume(dirs) ==
    Choice(GuestSlug, dirs # {} /\ GuestSlug \notin dirs)

Decide(c, dirs) ==
    IF c.backend = "kvm" THEN migrateTranscriptForResume(dirs)
                         ELSE chooseSpawnCwd(c, dirs)

(***************************************************************************)
(* The session between spawns.                                             *)
(***************************************************************************)

\* Folders are attached, detached or vanish, or the daemon comes back with
\* the other backend.
Reconfigure(c) ==
    /\ c # config
    /\ config' = c
    /\ steady' = {}
    /\ spawn' = [s \in Spawns |-> [spawn[s] EXCEPT !.steady = FALSE, !.must = {}]]
    /\ UNCHANGED <<store, turns, overlap, raced>>

UnderWay == {s \in Spawns : spawn[s].pc \in Copying \cup {"start"}}

Enter(s, r) ==
    /\ spawn[s].pc = "idle"
    /\ spawn' = [spawn EXCEPT ![s] = r]
    /\ overlap' = (overlap \/ UnderWay # {})
    /\ UNCHANGED <<config, store, turns, steady, raced>>

\* The first spawn of the conversation; its CLI will create the transcript.
SpawnFresh(s) ==
    /\ turns = 0 /\ \A r \in Spawns : spawn[r].pc = "idle"
    /\ Enter(s, [Idle EXCEPT !.pc = "run", !.to = Decide(config, {}).to,
                             !.steady = TRUE])

\* A spawn with --resume: the search and the decision.
SpawnResume(s) ==
    LET dirs   == FindTranscript
        choice == Decide(config, dirs)
    IN  /\ turns > 0
        /\ Enter(s, [pc |-> IF choice.copies THEN "check" ELSE "start",
                     from |-> IF choice.copies THEN Min(dirs) ELSE 0,
                     to |-> choice.to, temp |-> Absent, failed |-> FALSE,
                     found |-> dirs # {},
                     reachable |-> \/ config.backend = "kvm"
                                   \/ LET fs == eligibleWorkspaceMounts(config)
                                      IN  fs # {} /\ First(config, fs) \notin Long,
                     steady |-> TRUE, must |-> steady])

(***************************************************************************)
(* CopyTranscript, one file operation a step.                              *)
(***************************************************************************)

Step(s, pc) ==
    /\ spawn' = [spawn EXCEPT ![s].pc = pc]
    /\ UNCHANGED <<config, turns, steady, overlap>>

\* The CLI is started; nothing of the copy is remembered.
Launch(s, failed) ==
    /\ spawn' = [spawn EXCEPT ![s].pc = "start", ![s].failed = failed,
                              ![s].from = 0, ![s].temp = Absent]
    /\ UNCHANGED <<config, turns, history>>

\* The destination exists: the copy is skipped.
DestinationExists(s) ==
    /\ spawn[s].pc = "check" /\ store[spawn[s].to].state # "absent"
    /\ Launch(s, FALSE)
    /\ UNCHANGED store

\* Mutation: the copy does not look for the destination first.
Mut_StatDestination(s) ==
    /\ spawn[s].pc = "check"
    /\ Step(s, "create")
    /\ raced' = (raced \/ \E r \in Spawns \ {s} :
                    /\ spawn[r].pc \in Copying \ {"check"}
                    /\ spawn[r].to = spawn[s].to)
    /\ UNCHANGED store

StatDestination(s) ==
    /\ spawn[s].pc = "check" /\ store[spawn[s].to].state = "absent"
    /\ Step(s, "create")
    /\ raced' = (raced \/ \E r \in Spawns \ {s} :
                    /\ spawn[r].pc \in Copying \ {"check"}
                    /\ spawn[r].to = spawn[s].to)
    /\ UNCHANGED store

\* What the call's temporary file holds by now.
Fill(s, pc, file) ==
    /\ spawn' = [spawn EXCEPT ![s].pc = pc, ![s].temp = file]
    /\ UNCHANGED <<config, store, turns, history>>

\* Opens the source, makes the project directory and an empty temporary file.
CreateTemp(s) ==
    /\ spawn[s].pc = "create"
    /\ Fill(s, "copy", [turns |-> {}, state |-> "torn"])

\* Part of the source is written, as far as one of its turns.
CopySome(s) ==
    LET source == store[spawn[s].from].turns
    IN  /\ spawn[s].pc = "copy"
        /\ \E last \in source \ spawn[s].temp.turns :
               Fill(s, "copy", [turns |-> {t \in source : t <= last}, state |-> "torn"])

\* The end of the source is reached, and the temporary file is closed: it holds
\* what the source does, be that half a transcript.
CopyContents(s) ==
    /\ spawn[s].pc = "copy"
    /\ Fill(s, "rename", store[spawn[s].from])

Rename(s) ==
    /\ spawn[s].pc = "rename"
    /\ store' = [store EXCEPT ![spawn[s].to] = spawn[s].temp]
    /\ Launch(s, FALSE)

\* Mutation: an error while the contents are copied is not looked at.
Mut_CopyFails(s) ==
    \/ spawn[s].pc \in {"create", "rename"} /\ Launch(s, TRUE) /\ UNCHANGED store
    \/ spawn[s].pc = "copy" /\ Fill(s, "rename", spawn[s].temp)

\* An operation fails, before or after a part is written: the temporary file is
\* removed and the spawn goes on.
CopyFails(s) ==
    /\ spawn[s].pc \in {"create", "copy", "rename"}
    /\ Launch(s, TRUE)
    /\ UNCHANGED store

\* The daemon dies: the calls are gone, and so is what they had not renamed.
\* CLIs that run already may go on.
Crash ==
    /\ UnderWay # {}
    /\ spawn' = [s \in Spawns |-> IF s \in UnderWay THEN Idle ELSE spawn[s]]
    /\ UNCHANGED <<config, store, turns, history>>

(***************************************************************************)
(* The CLI, as the daemon relies on it.                                    *)
(***************************************************************************)

\* It loads the conversation from the slug of its directory, or gives up.
CliLoads(s) ==
    /\ spawn[s].pc = "start"
    /\ spawn' = [spawn EXCEPT ![s] =
          IF store[spawn[s].to].state = "absent" THEN Idle
          ELSE [Idle EXCEPT !.pc = "run", !.to = spawn[s].to,
                            !.steady = spawn[s].steady]]
    /\ UNCHANGED <<config, store, turns, history>>

CliAppends(s) ==
    /\ spawn[s].pc = "run" /\ turns < MaxTurns
    /\ turns' = turns + 1
    /\ store' = [store EXCEPT ![spawn[s].to] =
                    [turns |-> @.turns \cup {turns'},
                     state |-> IF @.state = "torn" THEN "torn" ELSE "whole"]]
    /\ steady' = IF spawn[s].steady THEN steady \cup {turns'} ELSE steady
    /\ UNCHANGED <<config, spawn, overlap, raced>>

CliExits(s) ==
    /\ spawn[s].pc = "run"
    /\ spawn' = [spawn EXCEPT ![s] = Idle]
    /\ UNCHANGED <<config, store, turns, history>>

(***************************************************************************)
(* Specification.                                                          *)
(***************************************************************************)

Init ==
    /\ config \in Configs
    /\ store = [d \in Slugs |-> Absent]
    /\ spawn = [s \in Spawns |-> Idle]
    /\ turns = 0 /\ steady = {} /\ overlap = FALSE /\ raced = FALSE

Next ==
    \/ \E c \in Configs : Reconfigure(c)
    \/ \E s \in Spawns :
        \/ SpawnFresh(s) \/ SpawnResume(s)
        \/ DestinationExists(s) \/ StatDestination(s) \/ CreateTemp(s)
        \/ CopySome(s) \/ CopyContents(s)
        \/ Rename(s) \/ CopyFails(s)
        \/ CliLoads(s) \/ CliAppends(s) \/ CliExits(s)
    \/ Crash

Spec == Init /\ [][Next]_vars

TypeOK ==
    /\ config \in Configs
    /\ store \in [Slugs -> Transcripts]
    /\ \A s \in Spawns :
        /\ spawn[s].pc \in Copying \cup {"idle", "start", "run"}
        /\ spawn[s].from \in Slugs \cup {0} /\ spawn[s].to \in Slugs \cup {0}
        /\ spawn[s].temp \in Transcripts /\ spawn[s].must \subseteq Turn
    /\ turns \in 0..MaxTurns
    /\ steady \subseteq Turn /\ {overlap, raced} \subseteq BOOLEAN

(***************************************************************************)
(* Properties.                                                             *)
(***************************************************************************)

\* A resumed CLI finds the conversation if it was anywhere: whatever folders
\* were detached and whichever backend wrote it, chooseSpawnCwd and
\* migrateTranscriptForResume end with a transcript under the slug of the
\* CLI's directory.  Excepted, as the code excepts them: a copy that failed,
\* a session with no folder to choose, and a first folder whose slug the
\* daemon cannot compute.
ResumeFindsConversation ==
    \A s \in Spawns :
        spawn[s].pc = "start" /\ spawn[s].found /\ spawn[s].reachable
            /\ ~spawn[s].failed
        => store[spawn[s].to].state # "absent"

\* No CLI is shown half a transcript, however far a copy gets before it fails
\* or the daemon dies: a temporary file that is not complete never gets the
\* transcript's name, and the one it is copied from, which may be a copy itself
\* and is appended to meanwhile, is not half either.
NoTornTranscript ==
    \A d \in Slugs : store[d].state # "torn"

\* While a session keeps its folders and its backend, each resume continues
\* where the last run ended, although older copies may lie under other slugs:
\* the candidates come in a fixed order, never in that of a Go map.
SteadySessionResumesLatest ==
    \A s \in Spawns :
        spawn[s].pc = "start" /\ spawn[s].steady /\ ~overlap
        => spawn[s].must \subseteq store[spawn[s].to].turns

\* No transcript loses a turn: CopyTranscript looks for the destination before
\* it copies, however long ago the search for transcripts was.  Excepted: two
\* copies to one slug that both looked before either renamed, of which the
\* second replaces the file the first one's CLI may have written to.
NothingOverwritten ==
    [][\A d \in Slugs : raced' \/ store[d].turns \subseteq store'[d].turns]_vars

\* The same without the exception, as CopyTranscript's comment has it ("without
\* touching anything when the destination file already exists", "never
\* overwrites").  The code looks once, before it copies, and its rename replaces
\* what two overlapping spawns have put there since: this does not hold.
NeverOverwrites ==
    [][\A d \in Slugs : store[d].turns \subseteq store'[d].turns]_vars

=============================================================================
