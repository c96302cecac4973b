---------------------------- MODULE Resume_proofs ----------------------------
(***************************************************************************)
(* The copy of a transcript is atomic and, but for two copies that race,   *)
(* replaces nothing; a resumed CLI finds its conversation, and the latest  *)
(* of it while the session does not change: for any number of spawns,      *)
(* folders, slugs and configurations.  Of the choice of a directory only   *)
(* this counts: it is one of the candidates, and it is made again once the *)
(* transcript lies where the last choice led.                              *)
(***************************************************************************)
EXTENDS Resume, WellFoundedInduction, TLAPS

-----------------------------------------------------------------------------
(* The invariant.                                                          *)

\* The steps of a copy after its look at the destination.
Past == {"create", "copy", "rename"}

Records == [pc : Copying \cup {"idle", "start", "run"}, from : Slugs \cup {0},
            to : Slugs \cup {0}, temp : Transcripts, found : BOOLEAN,
            failed : BOOLEAN, reachable : BOOLEAN, steady : BOOLEAN,
            must : SUBSET Turn]

ShapeInv ==
    /\ config \in Configs
    /\ store \in [Slugs -> Transcripts]
    /\ spawn \in [Spawns -> Records]
    /\ turns \in 0..MaxTurns /\ steady \subseteq Turn
    /\ raced \in BOOLEAN

\* Transcripts appear whole, and what is absent holds nothing.
StoreInv ==
    \A d \in Slugs : /\ store[d].state # "torn"
                     /\ store[d].state = "absent" => store[d].turns = {}

\* Before the first turn there is one CLI and no copy; after it, each CLI has
\* a transcript under the slug of its directory.
CliInv ==
    /\ turns = 0 => /\ \A s \in Spawns : spawn[s].pc \in {"idle", "run"}
                    /\ \A s, r \in Spawns :
                           spawn[s].pc = "run" /\ spawn[r].pc = "run" => s = r
    /\ turns > 0 => \A s \in Spawns, d \in Slugs :
                        spawn[s].pc = "run" /\ spawn[s].to = d
                        => store[d].state # "absent"

\* A copy has a source, and until two copies race, what one has found absent
\* stays absent and nobody else copies to it.
CopyInv ==
    \A s \in Spawns :
        /\ spawn[s].pc \in {"check", "create", "copy"} => spawn[s].from \in Slugs
        /\ spawn[s].pc \in Past /\ ~raced
           => /\ \A d \in Slugs : spawn[s].to = d => store[d].state = "absent"
              /\ \A r \in Spawns \ {s} :
                     spawn[r].pc \in Past => spawn[r].to # spawn[s].to

\* A copy reads a transcript, and what it is about to rename is complete.
FileInv ==
    \A s \in Spawns :
        /\ spawn[s].pc \in {"check", "create", "copy"}
           => \A d \in Slugs : spawn[s].from = d => store[d].state # "absent"
        /\ spawn[s].pc = "rename" => spawn[s].temp.state = "whole"

IInv == ShapeInv /\ StoreInv /\ CliInv /\ CopyInv /\ FileInv

-----------------------------------------------------------------------------
(* What the choice and the steps of a call do.                             *)

\* A set of natural numbers that is not empty has a least one.
LEMMA MinIs ==
  ASSUME NEW S \in SUBSET Nat, S # {}
  PROVE  Min(S) \in S /\ \A y \in S : Min(S) <= y
<1> DEFINE Less == {p \in Nat \X Nat : p[1] < p[2]}
<1>1. Less = OpToRel(<, Nat)
  BY DEF OpToRel
<1>2. IsWellFoundedOn(Less, Nat)
  BY <1>1, NatLessThanWellFounded
<1>3. PICK x \in S : \A y \in S : ~ (<<y, x>> \in Less)
  <2> HIDE DEF Less
  <2> QED BY <1>2, WFMin
<1>4. \A y \in S : x <= y
  <2> TAKE y \in S
  <2>1. x \in Nat /\ y \in Nat
    OBVIOUS
  <2>2. <<y, x>> \in Less <=> y < x
    BY <2>1
  <2> QED BY <1>3, <2>1, <2>2
<1>5. \E z \in S : \A y \in S : z <= y
  BY <1>4
<1> QED
  BY <1>5 DEF Min

\* Of the candidates that are left one comes first, whatever the user's list.
LEMMA FirstIs ==
  ASSUME NEW c \in Configs, NEW fs \in SUBSET eligibleWorkspaceMounts(c), fs # {}
  PROVE  First(c, fs) \in fs
<1> DEFINE named == {i \in DOMAIN c.hint : c.hint[i] \in fs}
<1>1. fs \subseteq Nat /\ named \subseteq Nat
      /\ \A i \in named : i \in DOMAIN c.hint /\ c.hint[i] \in fs
  BY FoldersAssumption, ConfigsAssumption DEF eligibleWorkspaceMounts
<1>2. SUFFICES \E f \in fs : \A g \in fs \ {f} : <<f, g>> \in orderedCwdCandidates(c)
  BY DEF First
<1>3. CASE named = {}
  <2> DEFINE f == Min(fs)
  <2>1. f \in fs /\ \A g \in fs : f <= g
    BY <1>1, MinIs
  <2> HIDE DEF f
  <2>2. \A g \in fs \ {f} : f < g
    <3> TAKE g \in fs \ {f}
    <3>1. f \in Nat /\ g \in Nat /\ f <= g /\ g # f
      BY <1>1, <2>1
    <3> QED
      BY <3>1
  <2>3. \A g \in fs : Hints(c, g) = {}
    BY <1>3 DEF Hints
  <2>4. \A g \in fs \ {f} : <<f, g>> \in orderedCwdCandidates(c)
    BY <2>1, <2>2, <2>3 DEF orderedCwdCandidates
  <2> QED
    BY <2>1, <2>4
<1>4. CASE named # {}
  <2> DEFINE i == Min(named)
             f == c.hint[i]
  <2>1. i \in named /\ \A j \in named : i <= j
    BY <1>1, <1>4, MinIs
  <2>2. i \in Hints(c, f) /\ f \in fs
    BY <1>1, <2>1 DEF Hints
  <2>3. ASSUME NEW g \in fs \ {f}, NEW j \in Hints(c, g) PROVE i < j
    <3>1. j \in named /\ c.hint[j] = g
      BY <2>3 DEF Hints
    <3>2. i # j
      BY <2>3, <3>1
    <3> QED
      BY <1>1, <2>1, <3>1, <3>2
  <2> HIDE DEF i, f
  <2>4. \A g \in fs \ {f} : <<f, g>> \in orderedCwdCandidates(c)
    BY <2>2, <2>3 DEF orderedCwdCandidates
  <2> QED
    BY <2>2, <2>4
<1> QED
  BY <1>3, <1>4

\* The cases of the choice, with what each of them knows.
GivenTo(c, dirs, slug) ==
    /\ Decide(c, dirs).to = slug
    /\ Decide(c, dirs).copies <=> dirs # {} /\ slug \notin dirs
NothingToChoose(c, dirs) ==
    /\ eligibleWorkspaceMounts(c) = {}
    /\ Decide(c, dirs).to = HomeSlug /\ ~Decide(c, dirs).copies
Found(c, dirs) ==
    /\ eligibleWorkspaceMounts(c) # {}
    /\ Decide(c, dirs).to \in dirs /\ ~Decide(c, dirs).copies
FallsTo(c, dirs, first) ==
    /\ first \in eligibleWorkspaceMounts(c)
    /\ Holding(c, dirs) = {} /\ HomeSlug \notin dirs
    /\ Decide(c, dirs).to = SlugOf[first]
    /\ Decide(c, dirs).copies <=> dirs # {} /\ first \notin Long

LEMMA DecideIs ==
  ASSUME NEW c \in Configs, NEW dirs \in SUBSET Slugs
  PROVE  /\ Decide(c, dirs).to \in Slugs /\ Decide(c, dirs).copies \in BOOLEAN
         /\ Decide(c, dirs).copies => dirs # {}
         /\ \/ c.backend = "kvm" /\ GivenTo(c, dirs, GuestSlug)
            \/ c.backend # "kvm" /\ NothingToChoose(c, dirs)
            \/ c.backend # "kvm" /\ Found(c, dirs)
            \/ c.backend # "kvm" /\ FallsTo(c, dirs, First(c, eligibleWorkspaceMounts(c)))
<1> DEFINE d     == Decide(c, dirs)
           fs    == eligibleWorkspaceMounts(c)
           first == First(c, fs)
<1>1. /\ fs \subseteq Folders /\ HomeSlug \in Slugs /\ GuestSlug \in Slugs
      /\ \A f \in Folders : SlugOf[f] \in Slugs /\ SlugOf[f] # NoSlug
      /\ NoSlug \notin Slugs
  BY FoldersAssumption, ConfigsAssumption DEF eligibleWorkspaceMounts, NoSlug
<1>2. \A to, b : Choice(to, b).to = to /\ Choice(to, b).copies = b
  BY DEF Choice
<1>3. CASE c.backend = "kvm"
  <2>1. d = Choice(GuestSlug, dirs # {} /\ GuestSlug \notin dirs)
    BY <1>3 DEF Decide, migrateTranscriptForResume
  <2>2. d.to = GuestSlug /\ d.copies = (dirs # {} /\ GuestSlug \notin dirs)
    BY <2>1, <1>2
  <2> HIDE DEF d
  <2>3. d.copies \in BOOLEAN /\ (d.copies => dirs # {})
    BY <2>2
  <2>4. GivenTo(c, dirs, GuestSlug)
    BY <2>2 DEF GivenTo, d
  <2> QED
    BY <1>1, <1>3, <2>2, <2>3, <2>4 DEF d
<1>4. CASE c.backend # "kvm"
  <2>0. d = chooseSpawnCwd(c, dirs)
    BY <1>4 DEF Decide
  <2>1. CASE fs = {}
    <3>1. d = Choice(HomeSlug, FALSE)
      BY <2>0, <2>1 DEF chooseSpawnCwd
    <3>2. d.to = HomeSlug /\ d.copies = FALSE
      BY <1>2, <3>1
    <3>3. NothingToChoose(c, dirs)
      BY <2>1, <3>2 DEF NothingToChoose
    <3> QED
      BY <1>1, <1>4, <3>2, <3>3
  <2>2. CASE fs # {} /\ Holding(c, dirs) # {}
    <3> DEFINE f == First(c, Holding(c, dirs))
    <3>1. d = Choice(SlugOf[f], FALSE)
      BY <2>0, <2>2 DEF chooseSpawnCwd
    <3>2. f \in Holding(c, dirs)
      BY <2>2, FirstIs DEF Holding
    <3> HIDE DEF f
    <3>3. f \in fs /\ Slugify(f) \in dirs
      BY <3>2 DEF Holding
    <3>4. SlugOf[f] \in dirs
      BY <1>1, <3>3 DEF Slugify
    <3>5. d.to = SlugOf[f] /\ d.copies = FALSE
      BY <1>2, <3>1
    <3>6. Found(c, dirs)
      BY <2>2, <3>4, <3>5 DEF Found
    <3> QED
      BY <1>4, <3>4, <3>5, <3>6
  <2>3. CASE fs # {} /\ Holding(c, dirs) = {} /\ HomeSlug \in dirs
    <3>1. d = Choice(HomeSlug, FALSE)
      BY <2>0, <2>3 DEF chooseSpawnCwd
    <3>2. d.to = HomeSlug /\ d.copies = FALSE
      BY <1>2, <3>1
    <3>3. Found(c, dirs)
      BY <2>3, <3>2 DEF Found
    <3> QED
      BY <1>1, <1>4, <3>2, <3>3
  <2>4. CASE fs # {} /\ Holding(c, dirs) = {} /\ HomeSlug \notin dirs
    <3>1. d = Choice(SlugOf[first], dirs # {} /\ Slugify(first) # NoSlug)
      BY <2>0, <2>4 DEF chooseSpawnCwd
    <3>2. first \in fs
      BY <2>4, FirstIs
    <3>3. d.to = SlugOf[first] /\ d.copies = (dirs # {} /\ Slugify(first) # NoSlug)
      BY <1>2, <3>1
    <3> HIDE DEF d, first
    <3>4. first \in Folders /\ SlugOf[first] \in Slugs
      BY <1>1, <3>2
    <3>5. Slugify(first) # NoSlug <=> first \notin Long
      BY <1>1, <3>4 DEF Slugify
    <3>6. /\ d.to \in Slugs /\ d.copies \in BOOLEAN
          /\ d.copies <=> dirs # {} /\ first \notin Long
      BY <3>3, <3>4, <3>5
    <3>7. FallsTo(c, dirs, first)
      BY <2>4, <3>2, <3>3, <3>6 DEF FallsTo, d
    <3> QED
      BY <1>4, <3>6, <3>7 DEF d, first
  <2> QED
    BY <2>1, <2>2, <2>3, <2>4
<1> QED
  BY <1>3, <1>4

\* The choice is made again once the transcript lies where it led, which is
\* what lets a copy of one spawn, or a run, serve the next.
LEMMA ChoiceIsKept ==
  ASSUME NEW c \in Configs, NEW dirs \in SUBSET Slugs,
         NEW more \in SUBSET Slugs, more = dirs \cup {Decide(c, dirs).to}
  PROVE  Decide(c, more).to = Decide(c, dirs).to
<1> DEFINE to    == Decide(c, dirs).to
           fs    == eligibleWorkspaceMounts(c)
           first == First(c, fs)
<1>1. CASE c.backend = "kvm" \/ fs = {}
  BY <1>1, DecideIs DEF GivenTo, NothingToChoose, Found, FallsTo
<1>2. CASE to \in dirs
  <2>1. more = dirs
    BY <1>2
  <2> QED
    BY <2>1
<1>3. CASE c.backend # "kvm" /\ fs # {} /\ to \notin dirs
  <2>1. /\ first \in fs /\ to = SlugOf[first] /\ to \in Slugs
        /\ Holding(c, dirs) = {} /\ HomeSlug \notin dirs
    BY <1>3, DecideIs DEF NothingToChoose, Found, FallsTo
  <2>2. CASE Holding(c, more) # {}
    <3> DEFINE f == First(c, Holding(c, more))
    <3>1. f \in Holding(c, more)
      BY <2>2, FirstIs DEF Holding
    <3>2. Decide(c, more).to = SlugOf[f]
      BY <1>3, <2>2 DEF Decide, chooseSpawnCwd, Choice
    <3> HIDE DEF f
    <3>3. f \in fs /\ Slugify(f) \in more /\ Slugify(f) \notin dirs
      BY <2>1, <3>1 DEF Holding
    <3>4. Slugify(f) = to /\ to # NoSlug
      BY <2>1, <3>3, FoldersAssumption DEF NoSlug
    <3> QED
      BY <3>2, <3>4 DEF Slugify
  <2>3. CASE Holding(c, more) = {} /\ HomeSlug \in more
    <3>1. Decide(c, more).to = HomeSlug
      BY <1>3, <2>3 DEF Decide, chooseSpawnCwd, Choice
    <3> QED
      BY <2>1, <2>3, <3>1
  <2>4. CASE Holding(c, more) = {} /\ HomeSlug \notin more
    <3>1. Decide(c, more).to = SlugOf[first]
      BY <1>3, <2>4 DEF Decide, chooseSpawnCwd, Choice
    <3> QED
      BY <2>1, <3>1
  <2> QED
    BY <2>2, <2>3, <2>4
<1> QED
  BY <1>1, <1>2, <1>3

SameHistory(s) == spawn'[s].steady = spawn[s].steady /\ spawn'[s].must = spawn[s].must

LEMMA StepIs ==
  ASSUME ShapeInv, NEW s \in Spawns, NEW pc \in Past, Step(s, pc)
  PROVE  /\ spawn' \in [Spawns -> Records]
         /\ \A r \in Spawns \ {s} : spawn'[r] = spawn[r]
         /\ spawn'[s].pc = pc /\ spawn'[s].to = spawn[s].to
         /\ spawn'[s].from = spawn[s].from /\ SameHistory(s)
<1> DEFINE new == [spawn[s] EXCEPT !.pc = pc]
<1>1. spawn[s] \in Records
  BY DEF ShapeInv
<1>2. /\ new \in Records /\ new.pc = pc /\ new.to = spawn[s].to
      /\ new.from = spawn[s].from
      /\ new.steady = spawn[s].steady /\ new.must = spawn[s].must
  BY <1>1 DEF Records, Copying, Past
<1>3. spawn' = [spawn EXCEPT ![s] = new] /\ spawn \in [Spawns -> Records]
  BY DEF Step, ShapeInv
<1> HIDE DEF new
<1> QED
  BY <1>2, <1>3 DEF SameHistory

LEMMA AbsentIs == Absent \in Transcripts /\ Absent.state = "absent" /\ Absent.turns = {}
  BY DEF Absent, Transcripts

LEMMA FillIs ==
  ASSUME ShapeInv, NEW s \in Spawns, NEW pc \in Past, NEW file \in Transcripts,
         Fill(s, pc, file)
  PROVE  /\ spawn' \in [Spawns -> Records]
         /\ \A r \in Spawns \ {s} : spawn'[r] = spawn[r]
         /\ spawn'[s].pc = pc /\ spawn'[s].to = spawn[s].to
         /\ spawn'[s].from = spawn[s].from /\ spawn'[s].temp = file /\ SameHistory(s)
<1> DEFINE new == [spawn[s] EXCEPT !.pc = pc, !.temp = file]
<1>1. spawn[s] \in Records
  BY DEF ShapeInv
<1>2. /\ new \in Records /\ new.pc = pc /\ new.to = spawn[s].to
      /\ new.from = spawn[s].from /\ new.temp = file
      /\ new.steady = spawn[s].steady /\ new.must = spawn[s].must
  BY <1>1 DEF Records, Copying, Past
<1>3. spawn' = [spawn EXCEPT ![s] = new] /\ spawn \in [Spawns -> Records]
  BY DEF Fill, ShapeInv
<1> HIDE DEF new
<1> QED
  BY <1>2, <1>3 DEF SameHistory

LEMMA LaunchIs ==
  ASSUME ShapeInv, NEW s \in Spawns, NEW failed \in BOOLEAN, Launch(s, failed)
  PROVE  /\ spawn' \in [Spawns -> Records]
         /\ \A r \in Spawns \ {s} : spawn'[r] = spawn[r]
         /\ spawn'[s].pc = "start" /\ spawn'[s].to = spawn[s].to
         /\ spawn'[s].failed = failed /\ SameHistory(s)
<1> DEFINE new == [spawn[s] EXCEPT !.pc = "start", !.failed = failed,
                                   !.from = 0, !.temp = Absent]
<1>1. spawn[s] \in Records
  BY DEF ShapeInv
<1>2. /\ new \in Records /\ new.pc = "start" /\ new.to = spawn[s].to
      /\ new.failed = failed
      /\ new.steady = spawn[s].steady /\ new.must = spawn[s].must
  BY <1>1, AbsentIs DEF Records, Copying
<1>3. spawn' = [spawn EXCEPT ![s] = new] /\ spawn \in [Spawns -> Records]
  BY DEF Launch, ShapeInv
<1> HIDE DEF new
<1> QED
  BY <1>2, <1>3 DEF SameHistory

\* A call or a CLI that ends.
LEMMA IdleIs == Idle \in Records /\ Idle.pc = "idle"
  BY AbsentIs DEF Idle, Records

\* The record changes to a new one.
LEMMA Update ==
  ASSUME ShapeInv, NEW s \in Spawns, NEW new \in Records,
         spawn' = [spawn EXCEPT ![s] = new]
  PROVE  /\ spawn' \in [Spawns -> Records] /\ spawn'[s] = new
         /\ \A r \in Spawns \ {s} : spawn'[r] = spawn[r]
  BY DEF ShapeInv

-----------------------------------------------------------------------------
(* The steps.                                                              *)

\* A call that launches its CLI or ends, and a CLI that ends, disturb nothing.
LEMMA QuietStep ==
  ASSUME IInv, ShapeInv', NEW s \in Spawns,
         \A r \in Spawns \ {s} : spawn'[r] = spawn[r],
         spawn'[s].pc \in {"idle", "start"}, turns = 0 => spawn'[s].pc = "idle",
         UNCHANGED <<store, turns, raced>>
  PROVE  IInv'
<1>1. StoreInv'
  BY DEF IInv, StoreInv
<1>2. CliInv'
  BY DEF IInv, CliInv
<1>3. CopyInv' /\ FileInv'
  BY DEF IInv, CopyInv, FileInv, Past
<1> QED
  BY <1>1, <1>2, <1>3 DEF IInv

LEMMA ReconfigureStep ==
  ASSUME IInv, NEW c \in Configs, Reconfigure(c)
  PROVE  IInv'
<1>1. \A s \in Spawns : spawn[s] \in Records
  BY DEF IInv, ShapeInv
<1>2. \A r \in Records :
         /\ [r EXCEPT !.steady = FALSE, !.must = {}] \in Records
         /\ [r EXCEPT !.steady = FALSE, !.must = {}].pc = r.pc
         /\ [r EXCEPT !.steady = FALSE, !.must = {}].to = r.to
         /\ [r EXCEPT !.steady = FALSE, !.must = {}].from = r.from
         /\ [r EXCEPT !.steady = FALSE, !.must = {}].temp = r.temp
  BY DEF Records
<1>3. /\ spawn' \in [Spawns -> Records]
      /\ \A s \in Spawns : /\ spawn'[s].pc = spawn[s].pc /\ spawn'[s].to = spawn[s].to
                           /\ spawn'[s].from = spawn[s].from
                           /\ spawn'[s].temp = spawn[s].temp
  BY <1>1, <1>2 DEF Reconfigure
<1>4. UNCHANGED <<store, turns, raced>> /\ config' \in Configs /\ steady' = {}
  BY DEF Reconfigure
<1>5. ShapeInv' /\ StoreInv'
  BY <1>3, <1>4 DEF IInv, ShapeInv, StoreInv
<1>6. CliInv'
  BY <1>3, <1>4 DEF IInv, CliInv
<1>7. CopyInv' /\ FileInv'
  BY <1>3, <1>4 DEF IInv, CopyInv, FileInv
<1> QED
  BY <1>5, <1>6, <1>7 DEF IInv

LEMMA SpawnStep ==
  ASSUME IInv, NEW s \in Spawns, SpawnFresh(s) \/ SpawnResume(s)
  PROVE  IInv'
<1> USE DEF IInv
<1>1. CASE SpawnFresh(s)
  <2> DEFINE new == [Idle EXCEPT !.pc = "run", !.to = Decide(config, {}).to,
                                 !.steady = TRUE]
  <2>1. Decide(config, {}).to \in Slugs
    BY DecideIs DEF ShapeInv
  <2>2. new \in Records /\ new.pc = "run"
    BY <2>1, AbsentIs DEF Idle, Records
  <2>3. /\ turns = 0 /\ \A r \in Spawns : spawn[r].pc = "idle"
        /\ spawn' = [spawn EXCEPT ![s] = new]
        /\ UNCHANGED <<config, store, turns, steady, raced>>
    BY <1>1 DEF SpawnFresh, Enter
  <2> HIDE DEF new
  <2>4. /\ spawn' \in [Spawns -> Records] /\ spawn'[s] = new
        /\ \A r \in Spawns \ {s} : spawn'[r] = spawn[r]
    BY <2>2, <2>3, Update
  <2>5. ShapeInv' /\ StoreInv'
    BY <2>3, <2>4 DEF ShapeInv, StoreInv
  <2>6. CliInv'
    BY <2>2, <2>3, <2>4 DEF CliInv
  <2>7. CopyInv' /\ FileInv'
    BY <2>2, <2>3, <2>4 DEF CopyInv, FileInv, Past
  <2> QED
    BY <2>5, <2>6, <2>7
<1>2. CASE SpawnResume(s)
  <2> DEFINE dirs == FindTranscript
             choice == Decide(config, dirs)
             reachable == \/ config.backend = "kvm"
                          \/ LET fs == eligibleWorkspaceMounts(config)
                             IN  fs # {} /\ First(config, fs) \notin Long
             new == [pc |-> IF choice.copies THEN "check" ELSE "start",
                     from |-> IF choice.copies THEN Min(dirs) ELSE 0,
                     to |-> choice.to, temp |-> Absent, failed |-> FALSE,
                     found |-> dirs # {}, reachable |-> reachable,
                     steady |-> TRUE, must |-> steady]
  <2>1. dirs \in SUBSET Slugs /\ dirs \in SUBSET Nat
    BY FoldersAssumption DEF FindTranscript
  <2>2. /\ turns > 0 /\ spawn' = [spawn EXCEPT ![s] = new]
        /\ UNCHANGED <<config, store, turns, steady, raced>>
    BY <1>2 DEF SpawnResume, Enter
  <2>3. reachable \in BOOLEAN /\ (dirs # {}) \in BOOLEAN
    OBVIOUS
  <2>4. choice.to \in Slugs
    BY <2>1, DecideIs DEF ShapeInv
  <2>5. choice.copies \in BOOLEAN /\ (choice.copies => dirs # {})
    BY <2>1, DecideIs DEF ShapeInv
  <2>6. choice.copies => Min(dirs) \in Slugs /\ store[Min(dirs)].state # "absent"
    <3>1. choice.copies => Min(dirs) \in dirs
      BY <2>1, <2>5, MinIs
    <3> QED
      BY <3>1 DEF FindTranscript
  <2> HIDE DEF reachable, dirs, choice
  <2>7. /\ new \in Records /\ new.pc \in {"check", "start"}
        /\ new.pc = "check" => new.from \in Slugs /\ store[new.from].state # "absent"
    BY <2>3, <2>4, <2>5, <2>6, AbsentIs DEF Records, Copying, ShapeInv
  <2> HIDE DEF new
  <2>8. /\ spawn' \in [Spawns -> Records] /\ spawn'[s] = new
        /\ \A r \in Spawns \ {s} : spawn'[r] = spawn[r]
    BY <2>2, <2>7, Update
  <2>9. ShapeInv' /\ StoreInv'
    BY <2>2, <2>8 DEF ShapeInv, StoreInv
  <2>10. CliInv'
    BY <2>2, <2>7, <2>8 DEF CliInv, ShapeInv
  <2>11. CopyInv' /\ FileInv'
    BY <2>2, <2>7, <2>8 DEF CopyInv, FileInv, Past
  <2> QED
    BY <2>9, <2>10, <2>11
<1> QED
  BY <1>1, <1>2

\* What has no turn yet has no call under way.
LEMMA TurnsWhileCopying ==
  ASSUME IInv, NEW s \in Spawns, spawn[s].pc \notin {"idle", "run"}
  PROVE  turns > 0
  BY DEF IInv, CliInv, ShapeInv

LEMMA LaunchStep ==
  ASSUME IInv, NEW s \in Spawns,
         DestinationExists(s) \/ CopyFails(s) \/ CliExits(s)
  PROVE  IInv'
<1>1. CASE DestinationExists(s) \/ CopyFails(s)
  <2>1. /\ spawn[s].pc \notin {"idle", "run"}
        /\ \E failed \in BOOLEAN : Launch(s, failed)
        /\ UNCHANGED <<config, store, turns, steady, raced>>
    BY <1>1 DEF DestinationExists, CopyFails, Launch, history
  <2>2. /\ spawn' \in [Spawns -> Records]
        /\ \A r \in Spawns \ {s} : spawn'[r] = spawn[r]
        /\ spawn'[s].pc = "start"
    BY <2>1, LaunchIs DEF IInv
  <2>3. ShapeInv'
    BY <2>1, <2>2 DEF IInv, ShapeInv
  <2>4. turns # 0
    BY <2>1, TurnsWhileCopying DEF IInv, ShapeInv
  <2> QED
    BY <2>1, <2>2, <2>3, <2>4, QuietStep
<1>2. CASE CliExits(s)
  <2>1. /\ spawn' = [spawn EXCEPT ![s] = Idle]
        /\ UNCHANGED <<config, store, turns, steady, raced>>
    BY <1>2 DEF CliExits, history
  <2>2. /\ spawn' \in [Spawns -> Records] /\ spawn'[s] = Idle
        /\ \A r \in Spawns \ {s} : spawn'[r] = spawn[r]
    BY <2>1, IdleIs, Update DEF IInv
  <2>3. ShapeInv'
    BY <2>1, <2>2 DEF IInv, ShapeInv
  <2> QED
    BY <2>1, <2>2, <2>3, IdleIs, QuietStep
<1> QED
  BY <1>1, <1>2

LEMMA StatStep ==
  ASSUME IInv, NEW s \in Spawns, StatDestination(s)
  PROVE  IInv'
<1>1. /\ spawn[s].pc = "check" /\ store[spawn[s].to].state = "absent"
      /\ Step(s, "create") /\ UNCHANGED <<config, store, turns, steady>>
      /\ raced' = (raced \/ \E r \in Spawns \ {s} :
                      /\ spawn[r].pc \in Copying \ {"check"}
                      /\ spawn[r].to = spawn[s].to)
  BY DEF StatDestination, Step
<1>2. /\ spawn' \in [Spawns -> Records]
      /\ \A r \in Spawns \ {s} : spawn'[r] = spawn[r]
      /\ spawn'[s].pc = "create" /\ spawn'[s].to = spawn[s].to
      /\ spawn'[s].from = spawn[s].from
  BY <1>1, StepIs DEF IInv, Past
<1>3. ShapeInv' /\ StoreInv'
  BY <1>1, <1>2 DEF IInv, ShapeInv, StoreInv
<1>4. CliInv'
  BY <1>1, <1>2 DEF IInv, CliInv
<1>5. ~raced' => ~raced /\ \A r \in Spawns \ {s} :
                     spawn[r].pc \in Past => spawn[r].to # spawn[s].to
  BY <1>1 DEF Copying, Past, IInv, ShapeInv
<1>6. CopyInv'
  BY <1>1, <1>2, <1>5 DEF IInv, CopyInv, Past
<1>7. FileInv'
  BY <1>1, <1>2 DEF IInv, FileInv
<1> QED
  BY <1>3, <1>4, <1>6, <1>7 DEF IInv

\* The steps that fill the temporary file, and how far it is filled.
LEMMA Fills ==
  ASSUME IInv, NEW s \in Spawns,
         CreateTemp(s) \/ CopySome(s) \/ CopyContents(s)
  PROVE  /\ spawn' \in [Spawns -> Records]
         /\ \A r \in Spawns \ {s} : spawn'[r] = spawn[r]
         /\ spawn[s].pc \in {"create", "copy"} /\ spawn'[s].pc \in {"copy", "rename"}
         /\ spawn'[s].pc = "rename" => spawn'[s].temp.state = "whole"
         /\ spawn'[s].to = spawn[s].to /\ spawn'[s].from = spawn[s].from
         /\ SameHistory(s)
         /\ UNCHANGED <<config, store, turns, steady, overlap, raced>>
<1>1. CASE CreateTemp(s)
  <2> DEFINE file == [turns |-> {}, state |-> "torn"]
  <2>1. file \in Transcripts
    BY DEF Transcripts
  <2>2. spawn[s].pc = "create" /\ Fill(s, "copy", file)
    BY <1>1 DEF CreateTemp
  <2> HIDE DEF file
  <2> QED
    BY <2>1, <2>2, FillIs DEF Fill, history, IInv, Past
<1>2. CASE CopySome(s)
  <2> DEFINE source == store[spawn[s].from].turns
             file(last) == [turns |-> {t \in source : t <= last}, state |-> "torn"]
  <2>1. spawn[s].pc = "copy" /\ \E last \in source : Fill(s, "copy", file(last))
    BY <1>2 DEF CopySome
  <2>2. store[spawn[s].from] \in Transcripts
    BY <2>1 DEF IInv, CopyInv, ShapeInv
  <2>3. source \subseteq Turn
    BY <2>2 DEF Transcripts
  <2>4. \A last : file(last) \in Transcripts
    BY <2>3 DEF Transcripts
  <2> HIDE DEF file, source
  <2> QED
    BY <2>1, <2>4, FillIs DEF Fill, history, IInv, Past
<1>3. CASE CopyContents(s)
  <2> DEFINE file == store[spawn[s].from]
  <2>1. spawn[s].pc = "copy" /\ Fill(s, "rename", file)
    BY <1>3 DEF CopyContents
  <2>2. spawn[s].from \in Slugs /\ file.state # "absent" /\ file.state # "torn"
    BY <2>1 DEF IInv, CopyInv, FileInv, StoreInv
  <2>3. file \in Transcripts /\ file.state = "whole"
    BY <2>2 DEF IInv, ShapeInv, Transcripts
  <2> HIDE DEF file
  <2> QED
    BY <2>1, <2>3, FillIs DEF Fill, history, IInv, Past
<1> QED
  BY <1>1, <1>2, <1>3

LEMMA CopyStep ==
  ASSUME IInv, NEW s \in Spawns, CreateTemp(s) \/ CopySome(s) \/ CopyContents(s)
  PROVE  IInv'
<1>1. ShapeInv' /\ StoreInv'
  BY Fills DEF IInv, ShapeInv, StoreInv
<1>2. CliInv'
  BY Fills DEF IInv, CliInv
<1>3. CopyInv'
  BY Fills DEF IInv, CopyInv, Past
<1>4. FileInv'
  BY Fills DEF IInv, FileInv
<1> QED
  BY <1>1, <1>2, <1>3, <1>4 DEF IInv

LEMMA RenameStep ==
  ASSUME IInv, NEW s \in Spawns, Rename(s)
  PROVE  IInv'
<1> DEFINE file == spawn[s].temp
<1>1. /\ spawn[s].pc = "rename" /\ store' = [store EXCEPT ![spawn[s].to] = file]
      /\ Launch(s, FALSE) /\ UNCHANGED <<config, turns, steady, raced>>
  BY DEF Rename, Launch, history
<1>2. file \in Transcripts /\ file.state = "whole"
  BY <1>1 DEF IInv, ShapeInv, FileInv, Records
<1> HIDE DEF file
<1>3. /\ spawn' \in [Spawns -> Records]
      /\ \A r \in Spawns \ {s} : spawn'[r] = spawn[r]
      /\ spawn'[s].pc = "start" /\ spawn'[s].to = spawn[s].to
  BY <1>1, LaunchIs DEF IInv
<1>4. /\ store' \in [Slugs -> Transcripts]
      /\ \A d \in Slugs : store'[d] = IF d = spawn[s].to THEN file ELSE store[d]
  BY <1>1, <1>2 DEF IInv, ShapeInv
<1>5. ShapeInv' /\ StoreInv'
  BY <1>1, <1>2, <1>3, <1>4 DEF IInv, ShapeInv, StoreInv
<1>6. CliInv'
  BY <1>1, <1>2, <1>3, <1>4, TurnsWhileCopying DEF IInv, CliInv, ShapeInv
<1>7. CopyInv'
  BY <1>1, <1>2, <1>3, <1>4 DEF IInv, CopyInv, Past
<1>8. FileInv'
  BY <1>1, <1>2, <1>3, <1>4 DEF IInv, FileInv
<1> QED
  BY <1>5, <1>6, <1>7, <1>8 DEF IInv

LEMMA CrashStep ==
  ASSUME IInv, Crash
  PROVE  IInv'
<1>1. UNCHANGED <<config, store, turns, steady, raced>>
  BY DEF Crash, history
<1>2. /\ spawn' \in [Spawns -> Records]
      /\ \A s \in Spawns : spawn'[s] = spawn[s] \/ spawn'[s] = Idle
  BY IdleIs DEF Crash, IInv, ShapeInv
<1>3. ShapeInv' /\ StoreInv'
  BY <1>1, <1>2 DEF IInv, ShapeInv, StoreInv
<1>4. CliInv'
  BY <1>1, <1>2, IdleIs DEF IInv, CliInv
<1>5. CopyInv' /\ FileInv'
  BY <1>1, <1>2, IdleIs DEF IInv, CopyInv, FileInv, Past
<1> QED
  BY <1>3, <1>4, <1>5 DEF IInv

LEMMA CliLoadsStep ==
  ASSUME IInv, NEW s \in Spawns, CliLoads(s)
  PROVE  IInv'
<1> DEFINE running == [Idle EXCEPT !.pc = "run", !.to = spawn[s].to,
                                   !.steady = spawn[s].steady]
           new == IF store[spawn[s].to].state = "absent" THEN Idle ELSE running
<1>1. /\ spawn[s].pc = "start" /\ spawn' = [spawn EXCEPT ![s] = new]
      /\ UNCHANGED <<config, store, turns, steady, raced>>
  BY DEF CliLoads, history
<1>2. spawn[s] \in Records
  BY DEF IInv, ShapeInv
<1>3. running \in Records /\ running.pc = "run" /\ running.to = spawn[s].to
  BY <1>2, AbsentIs DEF Idle, Records
<1> HIDE DEF running
<1>4. /\ new \in Records /\ new.pc \in {"idle", "run"}
      /\ new.pc = "run" => /\ new.to = spawn[s].to
                           /\ store[spawn[s].to].state # "absent"
  BY <1>3, IdleIs
<1> HIDE DEF new
<1>5. /\ spawn' \in [Spawns -> Records] /\ spawn'[s] = new
      /\ \A r \in Spawns \ {s} : spawn'[r] = spawn[r]
  BY <1>1, <1>4, Update DEF IInv
<1>6. ShapeInv' /\ StoreInv'
  BY <1>1, <1>5 DEF IInv, ShapeInv, StoreInv
<1>7. turns > 0
  BY <1>1, TurnsWhileCopying
<1>8. CliInv'
  BY <1>1, <1>4, <1>5, <1>7 DEF IInv, CliInv, ShapeInv
<1>9. CopyInv' /\ FileInv'
  BY <1>1, <1>4, <1>5 DEF IInv, CopyInv, FileInv, Past
<1> QED
  BY <1>6, <1>8, <1>9 DEF IInv

\* What an append does to the transcripts.
LEMMA AppendIs ==
  ASSUME IInv, NEW s \in Spawns, CliAppends(s)
  PROVE  /\ store' \in [Slugs -> Transcripts]
         /\ \A d \in Slugs : d # spawn[s].to => store'[d] = store[d]
         /\ \A d \in Slugs : d = spawn[s].to =>
                /\ store'[d].state = "whole"
                /\ store[d].turns \subseteq store'[d].turns
<1>1. turns' = turns + 1 /\ turns < MaxTurns
  BY DEF CliAppends
<1>2. turns' \in Turn
  BY <1>1, BoundAssumption DEF IInv, ShapeInv, Turn
<1>3. CASE spawn[s].to \notin Slugs
  BY <1>3 DEF CliAppends, IInv, ShapeInv
<1>4. CASE spawn[s].to \in Slugs
  <2> DEFINE old == store[spawn[s].to]
             new == [turns |-> old.turns \cup {turns'},
                     state |-> IF old.state = "torn" THEN "torn" ELSE "whole"]
  <2>1. old \in Transcripts /\ old.state # "torn"
    BY <1>4 DEF IInv, ShapeInv, StoreInv
  <2>2. /\ new \in Transcripts /\ new.state = "whole"
        /\ old.turns \subseteq new.turns
    BY <2>1, <1>2 DEF Transcripts
  <2>3. store' = [store EXCEPT ![spawn[s].to] = new]
    BY <1>4 DEF CliAppends, IInv, ShapeInv
  <2> HIDE DEF new
  <2> QED
    BY <1>4, <2>2, <2>3 DEF IInv, ShapeInv
<1> QED
  BY <1>3, <1>4

LEMMA CliAppendsStep ==
  ASSUME IInv, NEW s \in Spawns, CliAppends(s)
  PROVE  IInv'
<1>1. /\ spawn[s].pc = "run" /\ turns < MaxTurns /\ turns' = turns + 1
      /\ UNCHANGED <<config, spawn, raced>>
      /\ steady' = IF spawn[s].steady THEN steady \cup {turns'} ELSE steady
  BY DEF CliAppends
<1>2. turns' \in Turn /\ turns' > 0 /\ turns' \in 0..MaxTurns
  BY <1>1, BoundAssumption DEF IInv, ShapeInv, Turn
<1>3. ShapeInv'
  BY <1>1, <1>2, AppendIs DEF IInv, ShapeInv
<1>4. StoreInv'
  BY AppendIs DEF IInv, StoreInv
<1>5. CliInv'
  BY <1>1, <1>2, AppendIs DEF IInv, CliInv, ShapeInv
<1>6. CopyInv'
  <2>1. CASE turns = 0
    BY <1>1, <2>1 DEF IInv, CliInv, CopyInv, Past
  <2>2. CASE turns > 0
    <3>1. \A d \in Slugs : d = spawn[s].to => store[d].state # "absent"
      BY <1>1, <2>2 DEF IInv, CliInv
    <3> QED
      BY <1>1, <3>1, AppendIs DEF IInv, CopyInv
  <2> QED
    BY <2>1, <2>2 DEF IInv, ShapeInv
<1>7. FileInv'
  <2>1. \A d \in Slugs : store[d].state # "absent" => store'[d].state # "absent"
    BY AppendIs
  <2> QED
    BY <1>1, <2>1 DEF IInv, CopyInv, FileInv
<1> QED
  BY <1>3, <1>4, <1>5, <1>6, <1>7 DEF IInv

-----------------------------------------------------------------------------
(* What the choice amounts to, under IInv.                                 *)

\* Where the next resume of the session will look.
Kept == Decide(config, FindTranscript).to

\* Whoever is not idle has been led somewhere.
LedInv ==
    \A s \in Spawns : /\ spawn[s].pc # "idle" => spawn[s].to \in Slugs
                      /\ spawn[s].pc = "idle" => ~spawn[s].steady

\* What a call must find was written under this configuration.
MustInv ==
    /\ \A s \in Spawns : spawn[s].must \subseteq steady
    /\ turns = 0 => steady = {} /\ \A d \in Slugs : store[d].state = "absent"
    /\ overlap \in BOOLEAN

\* While one call at a time is under way, those of this configuration all lead
\* to where the next one will, and what was written since lies there.  A call
\* left over from an earlier configuration is the only one: until it has
\* started its CLI, nothing of this configuration has begun.
SteadyInv ==
    ~overlap =>
        /\ ~raced
        /\ \A s, r \in UnderWay : s = r
        /\ \A s \in UnderWay :
               ~spawn[s].steady => steady = {} /\ \A r \in Spawns : ~spawn[r].steady
        /\ \A s \in Spawns : spawn[s].steady => spawn[s].to = Kept
        /\ steady \subseteq store[Kept].turns

CInv == LedInv /\ ResumeFindsConversation /\ MustInv /\ SteadyInv

\* The next resume finds a slug, and the same one after a transcript has
\* appeared there.
LEMMA KeptIs ==
  ASSUME ShapeInv
  PROVE  Kept \in Slugs /\ FindTranscript \in SUBSET Slugs
  BY DecideIs DEF Kept, FindTranscript, ShapeInv

LEMMA KeptStays ==
  ASSUME ShapeInv, config' = config,
         \A d \in Slugs : d # Kept => (store'[d].state = "absent" <=> store[d].state = "absent"),
         \A d \in Slugs : store[d].state # "absent" => store'[d].state # "absent"
  PROVE  Kept' = Kept
<1>1. Kept \in Slugs /\ FindTranscript \in SUBSET Slugs /\ FindTranscript' \in SUBSET Slugs
  BY KeptIs DEF FindTranscript
<1>2. FindTranscript' = FindTranscript \/ FindTranscript' = FindTranscript \cup {Kept}
  BY <1>1 DEF FindTranscript
<1>3. Kept' = Decide(config, FindTranscript').to
  BY DEF Kept
<1>4. CASE FindTranscript' = FindTranscript
  BY <1>3, <1>4 DEF Kept
<1>5. CASE FindTranscript' = FindTranscript \cup {Kept}
  BY <1>1, <1>3, <1>5, ChoiceIsKept DEF Kept, ShapeInv
<1> QED
  BY <1>2, <1>4, <1>5

\* A call goes on with its copy, or launches the CLI.
LEMMA CallGoesOn ==
  ASSUME IInv, ShapeInv', CInv, NEW s \in UnderWay,
         \A r \in Spawns \ {s} : spawn'[r] = spawn[r],
         spawn'[s].to = spawn[s].to, SameHistory(s),
         spawn'[s].pc \in Copying \cup {"start"},
         spawn'[s].pc = "start" =>
             spawn'[s].failed \/ store[spawn[s].to].state # "absent",
         UNCHANGED <<config, store, turns, steady, overlap>>,
         raced' => raced \/ \E r \in UnderWay : r # s
  PROVE  CInv'
<1>1. s \in Spawns /\ \A r \in Spawns : r \in UnderWay' <=> r \in UnderWay
  BY DEF UnderWay, Copying
<1>2. \A r \in Spawns : spawn'[r].steady = spawn[r].steady /\ spawn'[r].to = spawn[r].to
                        /\ spawn'[r].must = spawn[r].must
  BY DEF SameHistory
<1>3. Kept' = Kept /\ store'[Kept] = store[Kept]
  BY DEF Kept, FindTranscript
<1>4. LedInv'
  BY <1>1, <1>2 DEF CInv, LedInv, UnderWay, Copying
<1>5. ResumeFindsConversation'
  BY <1>2 DEF CInv, ResumeFindsConversation
<1>6. MustInv'
  BY <1>2 DEF CInv, MustInv
<1>7. SteadyInv'
  <2>1. UnderWay' = UnderWay
    BY <1>1 DEF UnderWay
  <2> QED
    BY <1>1, <1>2, <1>3, <2>1 DEF CInv, SteadyInv
<1> QED
  BY <1>4, <1>5, <1>6, <1>7 DEF CInv

\* Calls and CLIs end, and CLIs start that have found their transcript.
LEMMA CallsEnd ==
  ASSUME IInv, CInv, UNCHANGED <<config, store, turns, steady, overlap, raced>>,
         \A r \in Spawns :
            \/ spawn'[r] = spawn[r]
            \/ /\ spawn'[r].pc \in {"idle", "run"} /\ spawn'[r].must = {}
               /\ spawn'[r].pc = "idle" => ~spawn'[r].steady
               /\ spawn'[r].pc = "run" => /\ spawn[r].pc # "idle"
                                          /\ spawn'[r].to = spawn[r].to
                                          /\ spawn'[r].steady = spawn[r].steady
  PROVE  CInv'
<1>1. UnderWay' \subseteq UnderWay /\ \A r \in UnderWay' : r \in Spawns /\ spawn'[r] = spawn[r]
  BY DEF UnderWay, Copying
<1>2. Kept' = Kept /\ store'[Kept] = store[Kept]
  BY DEF Kept, FindTranscript
<1>3. \A r \in Spawns : spawn'[r].steady /\ spawn'[r].pc # "idle" =>
                            spawn[r].steady /\ spawn'[r].to = spawn[r].to
  OBVIOUS
<1>4. LedInv'
  BY DEF CInv, LedInv
<1>5. \A r \in Spawns : spawn'[r].steady => spawn[r].steady /\ spawn'[r].to = spawn[r].to
  BY <1>3, <1>4 DEF LedInv
<1>6. ResumeFindsConversation' /\ MustInv'
  BY DEF CInv, ResumeFindsConversation, MustInv
<1>7. SteadyInv'
  BY <1>1, <1>2, <1>5 DEF CInv, SteadyInv
<1> QED
  BY <1>4, <1>6, <1>7 DEF CInv

LEMMA ReconfigureChoice ==
  ASSUME IInv, CInv, NEW c \in Configs, Reconfigure(c)
  PROVE  CInv'
<1>1. \A s \in Spawns : spawn[s] \in Records
  BY DEF IInv, ShapeInv
<1>2. \A r \in Records :
         LET q == [r EXCEPT !.steady = FALSE, !.must = {}]
         IN  /\ q.pc = r.pc /\ q.to = r.to /\ q.found = r.found /\ q.must = {}
             /\ q.reachable = r.reachable /\ q.failed = r.failed /\ q.steady = FALSE
  BY DEF Records
<1>3. \A s \in Spawns :
         /\ spawn'[s].pc = spawn[s].pc /\ spawn'[s].to = spawn[s].to
         /\ spawn'[s].found = spawn[s].found /\ spawn'[s].must = {}
         /\ spawn'[s].reachable = spawn[s].reachable
         /\ spawn'[s].failed = spawn[s].failed /\ spawn'[s].steady = FALSE
  BY <1>1, <1>2 DEF Reconfigure
<1>4. UNCHANGED <<store, turns, overlap, raced>> /\ steady' = {}
  BY DEF Reconfigure
<1>5. LedInv' /\ ResumeFindsConversation' /\ MustInv'
  BY <1>3, <1>4 DEF CInv, LedInv, ResumeFindsConversation, MustInv
<1>6. UnderWay' = UnderWay
  BY <1>3 DEF UnderWay
<1>7. SteadyInv'
  BY <1>3, <1>4, <1>6 DEF CInv, SteadyInv
<1> QED
  BY <1>5, <1>7 DEF CInv

\* The first spawn of the conversation: nothing is there yet.
LEMMA SpawnFreshChoice ==
  ASSUME IInv, CInv, NEW s \in Spawns, SpawnFresh(s)
  PROVE  CInv'
<1> DEFINE new == [Idle EXCEPT !.pc = "run", !.to = Decide(config, {}).to,
                               !.steady = TRUE]
<1>1. /\ turns = 0 /\ \A r \in Spawns : spawn[r].pc = "idle"
      /\ spawn' = [spawn EXCEPT ![s] = new]
      /\ overlap' = (overlap \/ UnderWay # {})
      /\ UNCHANGED <<config, store, turns, steady, raced>>
  BY DEF SpawnFresh, Enter
<1>2. FindTranscript = {}
  BY <1>1 DEF CInv, MustInv, FindTranscript
<1>3. new.pc = "run" /\ new.to = Kept /\ new.steady = TRUE /\ new.must = {}
  BY <1>2 DEF Idle, Kept
<1> HIDE DEF new
<1>4. spawn'[s] = new /\ \A r \in Spawns \ {s} : spawn'[r] = spawn[r]
  BY <1>1 DEF IInv, ShapeInv
<1>5. UnderWay = {} /\ UnderWay' = {} /\ overlap' = overlap
  BY <1>1, <1>3, <1>4 DEF UnderWay, Copying, CInv, MustInv
<1>6. Kept' = Kept /\ store'[Kept] = store[Kept]
  BY <1>1 DEF Kept, FindTranscript
<1>7. LedInv'
  BY <1>3, <1>4, KeptIs DEF CInv, LedInv, IInv
<1>8. ResumeFindsConversation' /\ MustInv'
  BY <1>1, <1>3, <1>4, <1>5 DEF CInv, ResumeFindsConversation, MustInv
<1>9. SteadyInv'
  BY <1>1, <1>3, <1>4, <1>5, <1>6 DEF CInv, SteadyInv, LedInv
<1> QED
  BY <1>7, <1>8, <1>9 DEF CInv

\* A resume that copies nothing has the transcript where it is going, with the
\* exceptions that the property names.
LEMMA SpawnResumeChoice ==
  ASSUME IInv, CInv, NEW s \in Spawns, SpawnResume(s)
  PROVE  CInv'
<1> DEFINE dirs == FindTranscript
           choice == Decide(config, dirs)
           fs == eligibleWorkspaceMounts(config)
           reachable == \/ config.backend = "kvm"
                        \/ fs # {} /\ First(config, fs) \notin Long
           new == [pc |-> IF choice.copies THEN "check" ELSE "start",
                   from |-> IF choice.copies THEN Min(dirs) ELSE 0,
                   to |-> choice.to, temp |-> Absent, failed |-> FALSE,
                   found |-> dirs # {}, reachable |-> reachable,
                   steady |-> TRUE, must |-> steady]
<1>1. /\ turns > 0 /\ spawn' = [spawn EXCEPT ![s] = new] /\ spawn[s].pc = "idle"
      /\ overlap' = (overlap \/ UnderWay # {})
      /\ UNCHANGED <<config, store, turns, steady, raced>>
  BY DEF SpawnResume, Enter
<1>2. dirs \in SUBSET Slugs /\ config \in Configs /\ Kept = choice.to
  BY DEF FindTranscript, IInv, ShapeInv, Kept
<1>3. ~choice.copies /\ dirs # {} /\ reachable => choice.to \in dirs
  <2>1. CASE config.backend = "kvm"
    BY <2>1, <1>2, DecideIs DEF GivenTo
  <2>2. CASE config.backend # "kvm"
    BY <2>2, <1>2, DecideIs DEF NothingToChoose, Found, FallsTo
  <2> QED
    BY <2>1, <2>2
<1>4. choice.to \in dirs => store[choice.to].state # "absent"
  BY DEF FindTranscript
<1> HIDE DEF dirs, choice, fs, reachable
<1>5. /\ new.pc \in {"check", "start"} /\ new.to = Kept /\ new.steady = TRUE
      /\ new.must = steady
      /\ new.pc = "start" /\ new.found /\ new.reachable => store[new.to].state # "absent"
  BY <1>2, <1>3, <1>4
<1> HIDE DEF new
<1>6. spawn'[s] = new /\ \A r \in Spawns \ {s} : spawn'[r] = spawn[r]
  BY <1>1 DEF IInv, ShapeInv
<1>7. Kept' = Kept /\ store'[Kept] = store[Kept] /\ Kept \in Slugs
  BY <1>1, KeptIs DEF Kept, FindTranscript, IInv
<1>8. LedInv' /\ ResumeFindsConversation'
  BY <1>1, <1>5, <1>6, <1>7 DEF CInv, LedInv, ResumeFindsConversation
<1>9. MustInv'
  BY <1>1, <1>5, <1>6 DEF CInv, MustInv
<1>10. SteadyInv'
  <2>1. SUFFICES ASSUME ~overlap' PROVE SteadyInv'
    BY DEF SteadyInv
  <2>2. ~overlap /\ UnderWay = {}
    BY <2>1, <1>1 DEF CInv, MustInv
  <2>3. UnderWay' \subseteq {s}
    BY <2>2, <1>6 DEF UnderWay
  <2> QED
    BY <2>2, <2>3, <1>1, <1>5, <1>6, <1>7 DEF CInv, SteadyInv
<1> QED
  BY <1>8, <1>9, <1>10 DEF CInv

\* A copy appears where the choice led, and where there was nothing: so the
\* choice stays, and there is nothing older to be found there.
LEMMA RenameChoice ==
  ASSUME IInv, ShapeInv', CInv, NEW s \in Spawns, Rename(s)
  PROVE  CInv'
<1> DEFINE file == spawn[s].temp
<1>1. /\ spawn[s].pc = "rename" /\ store' = [store EXCEPT ![spawn[s].to] = file]
      /\ Launch(s, FALSE) /\ UNCHANGED <<config, turns, steady, overlap, raced>>
  BY DEF Rename, Launch, history
<1>2. /\ \A r \in Spawns \ {s} : spawn'[r] = spawn[r]
      /\ spawn'[s].pc = "start" /\ spawn'[s].to = spawn[s].to /\ SameHistory(s)
  BY <1>1, LaunchIs DEF IInv
<1>3. file.state = "whole" /\ spawn[s].to \in Slugs /\ turns > 0 /\ s \in UnderWay
  BY <1>1, TurnsWhileCopying DEF CInv, LedInv, UnderWay, Copying, IInv, FileInv
<1> HIDE DEF file
<1>4. \A d \in Slugs : store'[d] = IF d = spawn[s].to THEN file ELSE store[d]
  BY <1>1 DEF IInv, ShapeInv
<1>5. \A r \in Spawns : spawn'[r].steady = spawn[r].steady /\ spawn'[r].to = spawn[r].to
                        /\ spawn'[r].must = spawn[r].must
  BY <1>2 DEF SameHistory
<1>6. UnderWay' = UnderWay
  BY <1>1, <1>2 DEF UnderWay, Copying
<1>7. LedInv' /\ ResumeFindsConversation'
  BY <1>1, <1>2, <1>3, <1>4, <1>5 DEF CInv, LedInv, ResumeFindsConversation
<1>8. MustInv'
  BY <1>1, <1>3, <1>5 DEF CInv, MustInv
<1>9. SteadyInv'
  <2>1. SUFFICES ASSUME ~overlap PROVE SteadyInv'
    BY <1>1 DEF SteadyInv
  <2>2. store[spawn[s].to].state = "absent" /\ store[spawn[s].to].turns = {}
    BY <2>1, <1>1, <1>3 DEF CInv, SteadyInv, IInv, CopyInv, StoreInv, Past
  <2>3. CASE spawn[s].steady
    <3>1. spawn[s].to = Kept
      BY <2>1, <2>3 DEF CInv, SteadyInv
    <3>2. Kept' = Kept
      BY <1>1, <1>3, <1>4, <3>1, KeptStays DEF IInv
    <3>3. steady = {}
      BY <2>1, <2>2, <3>1 DEF CInv, SteadyInv
    <3>4. \A r \in UnderWay : r = s
      BY <2>1, <1>3 DEF CInv, SteadyInv
    <3> QED
      BY <2>1, <2>3, <3>2, <3>3, <3>4, <1>1, <1>5, <1>6 DEF CInv, SteadyInv
  <2>4. CASE ~spawn[s].steady
    <3>1. steady = {} /\ \A r \in Spawns : ~spawn[r].steady
      BY <2>1, <2>4, <1>3 DEF CInv, SteadyInv
    <3> QED
      BY <2>1, <3>1, <1>1, <1>5, <1>6 DEF CInv, SteadyInv
  <2> QED
    BY <2>3, <2>4
<1> QED
  BY <1>7, <1>8, <1>9 DEF CInv

\* A CLI of this configuration appends where the next resume will look.
LEMMA AppendChoice ==
  ASSUME IInv, IInv', CInv, NEW s \in Spawns, CliAppends(s)
  PROVE  CInv'
<1>1. /\ spawn[s].pc = "run" /\ turns' = turns + 1
      /\ UNCHANGED <<config, spawn, overlap, raced>>
      /\ steady' = IF spawn[s].steady THEN steady \cup {turns'} ELSE steady
  BY DEF CliAppends
<1>2. /\ turns \in Nat /\ turns' # 0 /\ spawn[s].to \in Slugs
      /\ steady \subseteq steady'
  BY <1>1, BoundAssumption DEF IInv, ShapeInv, CInv, LedInv
<1>3. /\ \A d \in Slugs : store[d].turns \subseteq store'[d].turns
      /\ \A d \in Slugs : d # spawn[s].to => store'[d] = store[d]
      /\ \A d \in Slugs : store[d].state # "absent" => store'[d].state # "absent"
  BY AppendIs DEF IInv, StoreInv
<1>4. turns' \in store'[spawn[s].to].turns
  BY <1>2 DEF CliAppends, IInv, ShapeInv
<1>5. LedInv' /\ MustInv'
  BY <1>1, <1>2 DEF CInv, LedInv, MustInv
<1>6. ResumeFindsConversation'
  BY <1>1, <1>3 DEF CInv, LedInv, ResumeFindsConversation
<1>7. UnderWay' = UnderWay
  BY <1>1 DEF UnderWay
<1>8. SteadyInv'
  <2>1. SUFFICES ASSUME ~overlap PROVE SteadyInv'
    BY <1>1 DEF SteadyInv
  <2>2. Kept \in Slugs
    BY KeptIs DEF IInv
  <2>3. CASE spawn[s].steady
    <3>1. spawn[s].to = Kept
      BY <2>1, <2>3 DEF CInv, SteadyInv
    <3>2. Kept' = Kept
      BY <1>1, <1>3, <3>1, KeptStays DEF IInv
    <3>3. steady' = steady \cup {turns'}
      BY <1>1, <2>3
    <3>4. steady' \subseteq store'[Kept].turns
      BY <2>1, <2>2, <3>1, <3>3, <1>3, <1>4 DEF CInv, SteadyInv
    <3>5. \A r \in UnderWay : spawn[r].steady
      BY <2>1, <2>3 DEF CInv, SteadyInv
    <3> QED
      BY <2>1, <3>2, <3>4, <3>5, <1>1, <1>7 DEF CInv, SteadyInv, UnderWay
  <2>4. CASE ~spawn[s].steady /\ turns = 0
    <3>1. steady = {} /\ \A r \in Spawns : spawn[r].pc \in {"idle", "run"}
      BY <2>4 DEF CInv, MustInv, IInv, CliInv
    <3>2. \A r \in Spawns : ~spawn[r].steady
      BY <2>4, <1>1, <3>1 DEF CInv, LedInv, IInv, CliInv
    <3> QED
      BY <2>1, <2>4, <3>1, <3>2, <1>1, <1>7 DEF CInv, SteadyInv
  <2>5. CASE ~spawn[s].steady /\ turns # 0
    <3>1. store[spawn[s].to].state # "absent"
      BY <2>5, <1>1, <1>2 DEF IInv, CliInv
    <3>2. FindTranscript' = FindTranscript
      BY <1>3, <3>1 DEF FindTranscript
    <3>3. Kept' = Kept
      BY <1>1, <3>2 DEF Kept
    <3> QED
      BY <2>1, <2>2, <2>5, <3>3, <1>1, <1>3, <1>7 DEF CInv, SteadyInv
  <2> QED
    BY <2>3, <2>4, <2>5
<1> QED
  BY <1>5, <1>6, <1>8 DEF CInv

-----------------------------------------------------------------------------
(* The theorems.                                                           *)

LEMMA InitInv == Init => IInv
<1> SUFFICES ASSUME Init PROVE IInv
  OBVIOUS
<1>1. Absent \in Transcripts /\ Absent.state = "absent" /\ Absent.turns = {}
  BY AbsentIs
<1>2. ShapeInv
  <2>1. store \in [Slugs -> Transcripts] /\ spawn \in [Spawns -> Records]
    BY <1>1, IdleIs DEF Init
  <2>2. config \in Configs /\ turns \in 0..MaxTurns /\ steady \subseteq Turn
    BY BoundAssumption DEF Init
  <2>3. raced \in BOOLEAN
    BY DEF Init
  <2> QED
    BY <2>1, <2>2, <2>3 DEF ShapeInv
<1>3. StoreInv /\ CliInv /\ CopyInv /\ FileInv
  BY <1>1, IdleIs DEF Init, StoreInv, CliInv, CopyInv, FileInv, Past
<1> QED
  BY <1>2, <1>3 DEF IInv

LEMMA InitChoice == Init => CInv
<1> SUFFICES ASSUME Init PROVE CInv
  OBVIOUS
<1>1. /\ \A s \in Spawns : spawn[s].pc = "idle" /\ ~spawn[s].steady /\ spawn[s].must = {}
      /\ \A d \in Slugs : store[d].state = "absent" /\ store[d].turns = {}
      /\ steady = {} /\ overlap = FALSE /\ raced = FALSE
  BY DEF Init, Idle, Absent
<1>2. UnderWay = {}
  BY <1>1 DEF UnderWay, Copying
<1> QED
  BY <1>1, <1>2 DEF CInv, LedInv, ResumeFindsConversation, MustInv, SteadyInv

LEMMA StutterStep == IInv /\ UNCHANGED vars => IInv'
  BY DEF vars, IInv, ShapeInv, StoreInv, CliInv, CopyInv, FileInv

\* IInv is inductive: the order of the steps of CopyTranscript, and the CLIs
\* that may run beside it, are all that counts.
THEOREM Inductive == Spec => []IInv
<1>1. IInv /\ [Next]_vars => IInv'
  <2> SUFFICES ASSUME IInv, Next PROVE IInv'
    BY StutterStep
  <2>1. CASE \E c \in Configs : Reconfigure(c)
    BY <2>1, ReconfigureStep
  <2>2. ASSUME NEW s \in Spawns,
               SpawnFresh(s) \/ SpawnResume(s)
        PROVE  IInv'
    BY <2>2, SpawnStep
  <2>3. ASSUME NEW s \in Spawns,
               DestinationExists(s) \/ CopyFails(s) \/ CliExits(s)
        PROVE  IInv'
    BY <2>3, LaunchStep
  <2>4. ASSUME NEW s \in Spawns,
               \/ StatDestination(s) \/ CreateTemp(s) \/ CopySome(s)
               \/ CopyContents(s) \/ Rename(s)
        PROVE  IInv'
    BY <2>4, StatStep, CopyStep, RenameStep
  <2>5. ASSUME NEW s \in Spawns, CliLoads(s) \/ CliAppends(s)
        PROVE  IInv'
    BY <2>5, CliLoadsStep, CliAppendsStep
  <2>6. CASE Crash
    BY <2>6, CrashStep
  <2> QED
    BY <2>1, <2>2, <2>3, <2>4, <2>5, <2>6 DEF Next
<1> QED
  BY <1>1, InitInv, PTL DEF Spec

LEMMA StutterChoice == CInv /\ UNCHANGED vars => CInv'
<1> SUFFICES ASSUME CInv, UNCHANGED vars PROVE CInv'
  OBVIOUS
<1>1. UnderWay' = UnderWay /\ Kept' = Kept
  BY DEF vars, UnderWay, Kept, FindTranscript
<1>2. LedInv' /\ ResumeFindsConversation' /\ MustInv'
  BY DEF vars, CInv, LedInv, ResumeFindsConversation, MustInv
<1>3. SteadyInv'
  BY <1>1 DEF vars, CInv, SteadyInv
<1> QED
  BY <1>2, <1>3 DEF CInv

\* CInv is inductive too: a resume that copies nothing is led to a transcript,
\* and one of a session that does not change is led where the last one was.
THEOREM ChoiceInductive == Spec => []CInv
<1>1. IInv /\ IInv' /\ CInv /\ [Next]_vars => CInv'
  <2> SUFFICES ASSUME IInv, IInv', CInv, Next PROVE CInv'
    BY StutterChoice
  <2>1. CASE \E c \in Configs : Reconfigure(c)
    BY <2>1, ReconfigureChoice
  <2>2. ASSUME NEW s \in Spawns, SpawnFresh(s) \/ SpawnResume(s)
        PROVE  CInv'
    BY <2>2, SpawnFreshChoice, SpawnResumeChoice
  <2>3. ASSUME NEW s \in Spawns, DestinationExists(s) \/ CopyFails(s)
        PROVE  CInv'
    <3>1. /\ s \in UnderWay
          /\ \E failed \in BOOLEAN :
                Launch(s, failed) /\ (failed \/ store[spawn[s].to].state # "absent")
          /\ UNCHANGED <<config, store, turns, steady, overlap, raced>>
      BY <2>3 DEF DestinationExists, CopyFails, Launch, history, UnderWay, Copying
    <3> QED
      BY <3>1, LaunchIs, CallGoesOn DEF IInv
  <2>4. ASSUME NEW s \in Spawns, StatDestination(s) PROVE CInv'
    <3>1. /\ s \in UnderWay /\ Step(s, "create")
          /\ UNCHANGED <<config, store, turns, steady, overlap>>
          /\ raced' = (raced \/ \E r \in Spawns \ {s} :
                          /\ spawn[r].pc \in Copying \ {"check"}
                          /\ spawn[r].to = spawn[s].to)
      BY <2>4 DEF StatDestination, Step, UnderWay, Copying
    <3>2. raced' => raced \/ \E r \in UnderWay : r # s
      BY <3>1 DEF UnderWay
    <3>3. /\ \A r \in Spawns \ {s} : spawn'[r] = spawn[r]
          /\ spawn'[s].pc = "create" /\ spawn'[s].to = spawn[s].to /\ SameHistory(s)
      BY <3>1, StepIs DEF IInv, Past
    <3> QED
      BY <3>1, <3>2, <3>3, CallGoesOn DEF IInv, Copying
  <2>5. ASSUME NEW s \in Spawns, CreateTemp(s) \/ CopySome(s) \/ CopyContents(s)
        PROVE  CInv'
    <3>1. s \in UnderWay
      BY <2>5 DEF CreateTemp, CopySome, CopyContents, UnderWay, Copying
    <3>2. /\ \A r \in Spawns \ {s} : spawn'[r] = spawn[r]
          /\ spawn'[s].pc \in {"copy", "rename"}
          /\ spawn'[s].to = spawn[s].to /\ SameHistory(s)
          /\ UNCHANGED <<config, store, turns, steady, overlap, raced>>
      BY <2>5, Fills
    <3> QED
      BY <3>1, <3>2, CallGoesOn DEF IInv, Copying
  <2>6. ASSUME NEW s \in Spawns, Rename(s) \/ CliAppends(s) PROVE CInv'
    BY <2>6, RenameChoice, AppendChoice DEF IInv
  <2>7. ASSUME NEW s \in Spawns, CliLoads(s) PROVE CInv'
    <3> DEFINE new == IF store[spawn[s].to].state = "absent" THEN Idle
                      ELSE [Idle EXCEPT !.pc = "run", !.to = spawn[s].to,
                                        !.steady = spawn[s].steady]
    <3>1. /\ spawn[s].pc = "start" /\ spawn' = [spawn EXCEPT ![s] = new]
          /\ UNCHANGED <<config, store, turns, steady, overlap, raced>>
      BY <2>7 DEF CliLoads, history
    <3>2. /\ new.pc \in {"idle", "run"} /\ new.must = {}
          /\ new.pc = "idle" => ~new.steady
          /\ new.pc = "run" => new.to = spawn[s].to /\ new.steady = spawn[s].steady
      BY DEF Idle
    <3> HIDE DEF new
    <3>3. spawn'[s] = new /\ \A r \in Spawns \ {s} : spawn'[r] = spawn[r]
      BY <3>1 DEF IInv, ShapeInv
    <3> QED
      BY <3>1, <3>2, <3>3, CallsEnd
  <2>8. ASSUME NEW s \in Spawns, CliExits(s) PROVE CInv'
    <3>1. /\ \A r \in Spawns : spawn'[r] = spawn[r] \/ spawn'[r] = Idle
          /\ UNCHANGED <<config, store, turns, steady, overlap, raced>>
      BY <2>8 DEF CliExits, history, IInv, ShapeInv
    <3>2. Idle.pc = "idle" /\ Idle.must = {} /\ ~Idle.steady
      BY DEF Idle
    <3> QED
      BY <3>1, <3>2, CallsEnd
  <2>9. CASE Crash
    <3>1. /\ \A r \in Spawns : spawn'[r] = spawn[r] \/ spawn'[r] = Idle
          /\ UNCHANGED <<config, store, turns, steady, overlap, raced>>
      BY <2>9 DEF Crash, history
    <3>2. Idle.pc = "idle" /\ Idle.must = {} /\ ~Idle.steady
      BY DEF Idle
    <3> QED
      BY <3>1, <3>2, CallsEnd
  <2> QED
    BY <2>1, <2>2, <2>3, <2>4, <2>5, <2>6, <2>7, <2>8, <2>9 DEF Next
<1> QED
  BY <1>1, InitChoice, Inductive, PTL DEF Spec

\* The variables of the model keep their types; in particular every spawn is
\* led to a project directory that chooseSpawnCwd or migrateTranscriptForResume
\* can name.
THEOREM TypeCorrect == Spec => []TypeOK
<1>1. IInv /\ CInv => TypeOK
  BY DEF IInv, ShapeInv, Records, CInv, MustInv, TypeOK
<1> QED
  BY <1>1, Inductive, ChoiceInductive, PTL

\* A resumed CLI finds the conversation if it was anywhere: the cases of
\* chooseSpawnCwd and migrateTranscriptForResume leave none out in which the
\* transcript exists and is neither under the chosen slug nor copied there.
THEOREM ConversationIsFound == Spec => []ResumeFindsConversation
<1>1. CInv => ResumeFindsConversation
  BY DEF CInv
<1> QED
  BY <1>1, ChoiceInductive, PTL

\* A session that keeps its folders and backend is resumed where it left off:
\* chooseSpawnCwd, asked again when the transcript lies where its last answer
\* led, gives the same answer.
THEOREM LatestIsResumed == Spec => []SteadySessionResumesLatest
<1>1. CInv => SteadySessionResumesLatest
  BY DEF CInv, MustInv, SteadyInv, SteadySessionResumesLatest
<1> QED
  BY <1>1, ChoiceInductive, PTL

\* No CLI is ever shown half a transcript: a copy is renamed only when its
\* temporary file holds what its source did at the end, and the source, a copy
\* of somewhere else or a file that a CLI appends to, was not half either.
THEOREM CopiesAreWhole == Spec => []NoTornTranscript
<1>1. IInv => NoTornTranscript
  BY DEF IInv, StoreInv, NoTornTranscript
<1> QED
  BY <1>1, Inductive, PTL

\* No transcript loses a turn unless two copies to its slug raced: what
\* CopyTranscript found absent is still absent when it renames.
THEOREM NothingIsOverwritten == Spec => NothingOverwritten
<1> DEFINE TurnsKept == \A d \in Slugs : raced' \/ store[d].turns \subseteq store'[d].turns
<1>1. IInv /\ [Next]_vars => [TurnsKept]_vars
  <2> SUFFICES ASSUME IInv, Next PROVE TurnsKept
    OBVIOUS
  <2>1. ASSUME NEW s \in Spawns, CliAppends(s) PROVE TurnsKept
    BY <2>1, AppendIs
  <2>2. ASSUME NEW s \in Spawns, Rename(s) PROVE TurnsKept
    <3>1. /\ spawn[s].pc = "rename" /\ raced' = raced
          /\ \A d \in Slugs : d # spawn[s].to => store'[d] = store[d]
      BY <2>2 DEF Rename, Launch, history, IInv, ShapeInv
    <3>2. ~raced => \A d \in Slugs : spawn[s].to = d => store[d].turns = {}
      BY <3>1 DEF IInv, CopyInv, StoreInv, Past
    <3> QED
      BY <3>1, <3>2 DEF IInv, ShapeInv
  <2>3. CASE UNCHANGED store
    BY <2>3
  <2>4. \/ UNCHANGED store \/ \E s \in Spawns : CliAppends(s) \/ Rename(s)
    BY DEF Next, Reconfigure, SpawnFresh, SpawnResume, Enter, DestinationExists,
           StatDestination, CreateTemp, CopySome, CopyContents, CopyFails, Launch,
           Step, Fill, Crash,
           CliLoads, CliExits
  <2> QED
    BY <2>1, <2>2, <2>3, <2>4
<1> QED
  BY <1>1, Inductive, PTL DEF Spec, NothingOverwritten
==============================================================================
