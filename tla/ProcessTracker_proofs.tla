----------------------- MODULE ProcessTracker_proofs -----------------------
(***************************************************************************)
(* Safety of ProcessTracker for any number of processes, ids, killers and  *)
(* lines in a pipe.                                                        *)
(***************************************************************************)
EXTENDS ProcessTracker, TLAPS

Gone(p) == leader[p] \in {"reaped", "reused"}

Unreported(p) == waiter[p] \notin {"reported", "closed"}

-----------------------------------------------------------------------------
(* The inductive invariant, in named parts.                                *)

\* How far spawn got decides which goroutines exist.
SpawnInv == \A p \in Proc :
    /\ spawning[p] = "none" <=> leader[p] = "none"
    /\ spawning[p] # "returned" => waiter[p] = "none" /\ \A s \in Stream : reader[p][s] = "none"

\* An id names one process until that process is reported.
IdInv ==
    /\ \A p, q \in Proc :
          /\ id[p] = id[q]
          /\ spawning[p] # "none" /\ Unreported(p)
          /\ spawning[q] # "none" /\ Unreported(q)
          => p = q
    /\ \A p \in Proc : spawning[p] \in {"tracked", "returned"} /\ Unreported(p) => table[id[p]] = p
    /\ \A i \in Ids : table[i] # NoProc =>
          id[table[i]] = i /\ spawning[table[i]] \in {"tracked", "returned"}

\* A reader that saw the end of file left nothing behind.
EofInv == \A p \in Proc, s \in Stream :
    reader[p][s] = "ended" => unread[p][s] = 0 /\ ~HoldsPipes(p)

\* The waiter reaps the leader, and only after both readers.
DrainInv == \A p \in Proc :
    /\ waiter[p] \in {"reaped", "reported", "closed"} =>
          Gone(p) /\ \A s \in Stream : Stopped(p, s)
    /\ Gone(p) => waiter[p] \in {"reaped", "reported", "closed"}
    /\ leader[p] = "reused" => waiter[p] = "closed"

\* A killer works on tracked processes and drains only without SIGKILL.
KillInv == \A k \in Killer :
    /\ killer[k] = "idle" => k \notin stray
    /\ k \in stray => force[k]
    /\ killer[k] \in {"draining", "signalling"} => target[k] \in Proc
    /\ \A i \in todo[k] : table[i] # NoProc
    /\ \A p \in asked[k] : spawning[p] \in {"tracked", "returned"}
    /\ \A p \in asked[k] :
          \/ p \in hit \/ Gone(p)
          \/ killer[k] = "visiting" /\ id[p] \in todo[k]
          \/ killer[k] \in {"draining", "signalling"} /\ (target[k] = p \/ id[p] \in todo[k])
    /\ killer[k] = "signalling" => force[k]

IInv == TypeOK /\ SpawnInv /\ IdInv /\ EofInv /\ DrainInv /\ ReaderKnowsProcess /\ KillInv

-----------------------------------------------------------------------------
(* Preservation, one lemma per goroutine.                                  *)

\* spawn keeps the invariant: an id is free before it names a process.
LEMMA SpawnStep ==
  ASSUME IInv, NEW p \in Proc,
         \/ SpawnStarts(p)
         \/ Track(p)
         \/ LaunchGoroutines(p)
  PROVE  IInv'
<1> USE ConstantsAssumption DEF IInv, procVars, killVars
<1>1. CASE SpawnStarts(p)
  <2>1. TypeOK'
    BY <1>1 DEF SpawnStarts, FreeId, TypeOK, Stream
  <2>2. SpawnInv'
    BY <1>1 DEF SpawnStarts, FreeId, SpawnInv, TypeOK, Stream
  <2>3. IdInv'
    BY <1>1 DEF SpawnStarts, FreeId, IdInv, SpawnInv, Unreported, TypeOK, Stream
  <2>4. EofInv'
    BY <1>1 DEF SpawnStarts, FreeId, EofInv, SpawnInv, DrainInv, Gone, HoldsPipes, TypeOK, Stream
  <2>5. DrainInv'
    BY <1>1 DEF SpawnStarts, FreeId, DrainInv, SpawnInv, Gone, Stopped, TypeOK, Stream
  <2>6. ReaderKnowsProcess'
    BY <1>1 DEF SpawnStarts, FreeId, ReaderKnowsProcess, SpawnInv, IdInv, DrainInv, Stopped, Unreported, TypeOK, Stream
  <2>7. KillInv'
    BY <1>1 DEF SpawnStarts, FreeId, KillInv, SpawnInv, IdInv, DrainInv, Gone, Unreported, TypeOK, Stream
  <2> QED
    BY <2>1, <2>2, <2>3, <2>4, <2>5, <2>6, <2>7
<1>2. CASE Track(p)
  <2>1. TypeOK'
    BY <1>2 DEF Track, TypeOK, Stream
  <2>2. SpawnInv'
    BY <1>2 DEF Track, SpawnInv, TypeOK, Stream
  <2>3. IdInv'
    BY <1>2 DEF Track, IdInv, SpawnInv, Unreported, TypeOK, Stream
  <2>4. EofInv'
    BY <1>2 DEF Track, EofInv, SpawnInv, DrainInv, Gone, HoldsPipes, TypeOK, Stream
  <2>5. DrainInv'
    BY <1>2 DEF Track, DrainInv, SpawnInv, Gone, Stopped, TypeOK, Stream
  <2>6. ReaderKnowsProcess'
    BY <1>2 DEF Track, ReaderKnowsProcess, SpawnInv, IdInv, DrainInv, Stopped, Unreported, TypeOK, Stream
  <2>7. KillInv'
    BY <1>2 DEF Track, KillInv, SpawnInv, IdInv, DrainInv, Gone, Unreported, TypeOK, Stream
  <2> QED
    BY <2>1, <2>2, <2>3, <2>4, <2>5, <2>6, <2>7
<1>3. CASE LaunchGoroutines(p)
  <2>1. TypeOK'
    BY <1>3 DEF LaunchGoroutines, TypeOK, Stream
  <2>2. SpawnInv'
    BY <1>3 DEF LaunchGoroutines, SpawnInv, TypeOK, Stream
  <2>3. IdInv'
    BY <1>3 DEF LaunchGoroutines, IdInv, SpawnInv, Unreported, TypeOK, Stream
  <2>4. EofInv'
    BY <1>3 DEF LaunchGoroutines, EofInv, SpawnInv, DrainInv, Gone, HoldsPipes, TypeOK, Stream
  <2>5. DrainInv'
    BY <1>3 DEF LaunchGoroutines, DrainInv, SpawnInv, Gone, Stopped, TypeOK, Stream
  <2>6. ReaderKnowsProcess'
    BY <1>3 DEF LaunchGoroutines, ReaderKnowsProcess, SpawnInv, IdInv, DrainInv, Stopped, Unreported, TypeOK, Stream
  <2>7. KillInv'
    BY <1>3 DEF LaunchGoroutines, KillInv, SpawnInv, IdInv, DrainInv, Gone, Unreported, TypeOK, Stream
  <2> QED
    BY <2>1, <2>2, <2>3, <2>4, <2>5, <2>6, <2>7
<1> QED
  BY <1>1, <1>2, <1>3

\* The readers and the pipes keep it.
LEMMA ReaderStep ==
  ASSUME IInv, NEW p \in Proc, NEW s \in Stream,
         \/ LookUp(p, s)
         \/ EmitLine(p, s)
         \/ ScanFails(p, s)
         \/ StreamEnds(p, s)
         \/ Writes(p, s)
  PROVE  IInv'
<1> USE ConstantsAssumption DEF IInv, procVars, killVars
<1>1. CASE LookUp(p, s)
  <2>1. TypeOK'
    BY <1>1 DEF LookUp, ReaderGoesTo, TypeOK, Stream
  <2>2. SpawnInv'
    BY <1>1 DEF LookUp, ReaderGoesTo, SpawnInv, TypeOK, Stream
  <2>3. IdInv'
    BY <1>1 DEF LookUp, ReaderGoesTo, IdInv, SpawnInv, Unreported, TypeOK, Stream
  <2>4. EofInv'
    BY <1>1 DEF LookUp, ReaderGoesTo, EofInv, SpawnInv, DrainInv, Gone, HoldsPipes, TypeOK, Stream
  <2>5. DrainInv'
    BY <1>1 DEF LookUp, ReaderGoesTo, DrainInv, SpawnInv, Gone, Stopped, TypeOK, Stream
  <2>6. ReaderKnowsProcess'
    BY <1>1 DEF LookUp, ReaderGoesTo, ReaderKnowsProcess, SpawnInv, IdInv, DrainInv, Stopped, Unreported, TypeOK, Stream
  <2>7. KillInv'
    BY <1>1 DEF LookUp, ReaderGoesTo, KillInv, SpawnInv, IdInv, DrainInv, Gone, Unreported, TypeOK, Stream
  <2> QED
    BY <2>1, <2>2, <2>3, <2>4, <2>5, <2>6, <2>7
<1>2. CASE EmitLine(p, s)
  <2>1. TypeOK'
    BY <1>2 DEF EmitLine, TypeOK, Stream
  <2>2. SpawnInv'
    BY <1>2 DEF EmitLine, SpawnInv, TypeOK, Stream
  <2>3. IdInv'
    BY <1>2 DEF EmitLine, IdInv, SpawnInv, Unreported, TypeOK, Stream
  <2>4. EofInv'
    BY <1>2 DEF EmitLine, EofInv, SpawnInv, DrainInv, Gone, HoldsPipes, TypeOK, Stream
  <2>5. DrainInv'
    BY <1>2 DEF EmitLine, DrainInv, SpawnInv, Gone, Stopped, TypeOK, Stream
  <2>6. ReaderKnowsProcess'
    BY <1>2 DEF EmitLine, ReaderKnowsProcess, SpawnInv, IdInv, DrainInv, Stopped, Unreported, TypeOK, Stream
  <2>7. KillInv'
    BY <1>2 DEF EmitLine, KillInv, SpawnInv, IdInv, DrainInv, Gone, Unreported, TypeOK, Stream
  <2> QED
    BY <2>1, <2>2, <2>3, <2>4, <2>5, <2>6, <2>7
<1>3. CASE ScanFails(p, s)
  <2>1. TypeOK'
    BY <1>3 DEF ScanFails, ReaderGoesTo, TypeOK, Stream
  <2>2. SpawnInv'
    BY <1>3 DEF ScanFails, ReaderGoesTo, SpawnInv, TypeOK, Stream
  <2>3. IdInv'
    BY <1>3 DEF ScanFails, ReaderGoesTo, IdInv, SpawnInv, Unreported, TypeOK, Stream
  <2>4. EofInv'
    BY <1>3 DEF ScanFails, ReaderGoesTo, EofInv, SpawnInv, DrainInv, Gone, HoldsPipes, TypeOK, Stream
  <2>5. DrainInv'
    BY <1>3 DEF ScanFails, ReaderGoesTo, DrainInv, SpawnInv, Gone, Stopped, TypeOK, Stream
  <2>6. ReaderKnowsProcess'
    BY <1>3 DEF ScanFails, ReaderGoesTo, ReaderKnowsProcess, SpawnInv, IdInv, DrainInv, Stopped, Unreported, TypeOK, Stream
  <2>7. KillInv'
    BY <1>3 DEF ScanFails, ReaderGoesTo, KillInv, SpawnInv, IdInv, DrainInv, Gone, Unreported, TypeOK, Stream
  <2> QED
    BY <2>1, <2>2, <2>3, <2>4, <2>5, <2>6, <2>7
<1>4. CASE StreamEnds(p, s)
  <2>1. TypeOK'
    BY <1>4 DEF StreamEnds, ReaderGoesTo, TypeOK, Stream
  <2>2. SpawnInv'
    BY <1>4 DEF StreamEnds, ReaderGoesTo, SpawnInv, TypeOK, Stream
  <2>3. IdInv'
    BY <1>4 DEF StreamEnds, ReaderGoesTo, IdInv, SpawnInv, Unreported, TypeOK, Stream
  <2>4. EofInv'
    BY <1>4 DEF StreamEnds, ReaderGoesTo, EofInv, SpawnInv, DrainInv, Gone, HoldsPipes, TypeOK, Stream
  <2>5. DrainInv'
    BY <1>4 DEF StreamEnds, ReaderGoesTo, DrainInv, SpawnInv, Gone, Stopped, TypeOK, Stream
  <2>6. ReaderKnowsProcess'
    BY <1>4 DEF StreamEnds, ReaderGoesTo, ReaderKnowsProcess, SpawnInv, IdInv, DrainInv, Stopped, Unreported, TypeOK, Stream
  <2>7. KillInv'
    BY <1>4 DEF StreamEnds, ReaderGoesTo, KillInv, SpawnInv, IdInv, DrainInv, Gone, Unreported, TypeOK, Stream
  <2> QED
    BY <2>1, <2>2, <2>3, <2>4, <2>5, <2>6, <2>7
<1>5. CASE Writes(p, s)
  <2>1. TypeOK'
    BY <1>5 DEF Writes, TypeOK, Stream
  <2>2. SpawnInv'
    BY <1>5 DEF Writes, SpawnInv, TypeOK, Stream
  <2>3. IdInv'
    BY <1>5 DEF Writes, IdInv, SpawnInv, Unreported, TypeOK, Stream
  <2>4. EofInv'
    BY <1>5 DEF Writes, EofInv, SpawnInv, DrainInv, Gone, HoldsPipes, TypeOK, Stream
  <2>5. DrainInv'
    BY <1>5 DEF Writes, DrainInv, SpawnInv, Gone, Stopped, TypeOK, Stream
  <2>6. ReaderKnowsProcess'
    BY <1>5 DEF Writes, ReaderKnowsProcess, SpawnInv, IdInv, DrainInv, Stopped, Unreported, TypeOK, Stream
  <2>7. KillInv'
    BY <1>5 DEF Writes, KillInv, SpawnInv, IdInv, DrainInv, Gone, Unreported, TypeOK, Stream
  <2> QED
    BY <2>1, <2>2, <2>3, <2>4, <2>5, <2>6, <2>7
<1> QED
  BY <1>1, <1>2, <1>3, <1>4, <1>5

\* The waiter keeps it.
LEMMA WaiterStep ==
  ASSUME IInv, NEW p \in Proc,
         \/ WaitReaps(p)
         \/ EmitExit(p)
         \/ CloseDone(p)
  PROVE  IInv'
<1> USE ConstantsAssumption DEF IInv, procVars, killVars
<1>1. CASE WaitReaps(p)
  <2>1. TypeOK'
    BY <1>1 DEF WaitReaps, TypeOK, Stream
  <2>2. SpawnInv'
    BY <1>1 DEF WaitReaps, SpawnInv, TypeOK, Stream
  <2>3. IdInv'
    BY <1>1 DEF WaitReaps, IdInv, SpawnInv, Unreported, TypeOK, Stream
  <2>4. EofInv'
    BY <1>1 DEF WaitReaps, EofInv, SpawnInv, DrainInv, Gone, HoldsPipes, TypeOK, Stream
  <2>5. DrainInv'
    BY <1>1 DEF WaitReaps, DrainInv, SpawnInv, Gone, Stopped, TypeOK, Stream
  <2>6. ReaderKnowsProcess'
    BY <1>1 DEF WaitReaps, ReaderKnowsProcess, SpawnInv, IdInv, DrainInv, Stopped, Unreported, TypeOK, Stream
  <2>7. KillInv'
    BY <1>1 DEF WaitReaps, KillInv, SpawnInv, IdInv, DrainInv, Gone, Unreported, TypeOK, Stream
  <2> QED
    BY <2>1, <2>2, <2>3, <2>4, <2>5, <2>6, <2>7
<1>2. CASE EmitExit(p)
  <2>1. TypeOK'
    BY <1>2 DEF EmitExit, TypeOK, Stream
  <2>2. SpawnInv'
    BY <1>2 DEF EmitExit, SpawnInv, TypeOK, Stream
  <2>3. IdInv'
    BY <1>2 DEF EmitExit, IdInv, SpawnInv, Unreported, TypeOK, Stream
  <2>4. EofInv'
    BY <1>2 DEF EmitExit, EofInv, SpawnInv, DrainInv, Gone, HoldsPipes, TypeOK, Stream
  <2>5. DrainInv'
    BY <1>2 DEF EmitExit, DrainInv, SpawnInv, Gone, Stopped, TypeOK, Stream
  <2>6. ReaderKnowsProcess'
    BY <1>2 DEF EmitExit, ReaderKnowsProcess, SpawnInv, IdInv, DrainInv, Stopped, Unreported, TypeOK, Stream
  <2>7. KillInv'
    BY <1>2 DEF EmitExit, KillInv, SpawnInv, IdInv, DrainInv, Gone, Unreported, TypeOK, Stream
  <2> QED
    BY <2>1, <2>2, <2>3, <2>4, <2>5, <2>6, <2>7
<1>3. CASE CloseDone(p)
  <2>1. TypeOK'
    BY <1>3 DEF CloseDone, TypeOK, Stream
  <2>2. SpawnInv'
    BY <1>3 DEF CloseDone, SpawnInv, TypeOK, Stream
  <2>3. IdInv'
    BY <1>3 DEF CloseDone, IdInv, SpawnInv, Unreported, TypeOK, Stream
  <2>4. EofInv'
    BY <1>3 DEF CloseDone, EofInv, SpawnInv, DrainInv, Gone, HoldsPipes, TypeOK, Stream
  <2>5. DrainInv'
    BY <1>3 DEF CloseDone, DrainInv, SpawnInv, Gone, Stopped, TypeOK, Stream
  <2>6. ReaderKnowsProcess'
    BY <1>3 DEF CloseDone, ReaderKnowsProcess, SpawnInv, IdInv, DrainInv, Stopped, Unreported, TypeOK, Stream
  <2>7. KillInv'
    BY <1>3 DEF CloseDone, KillInv, SpawnInv, IdInv, DrainInv, Gone, Unreported, TypeOK, Stream
  <2> QED
    BY <2>1, <2>2, <2>3, <2>4, <2>5, <2>6, <2>7
<1> QED
  BY <1>1, <1>2, <1>3

\* kill and killAll keep it.
LEMMA KillerStep ==
  ASSUME IInv, NEW k \in Killer,
         \/ KillAllBegins(k)
         \/ DrainedReturns(k)
         \/ Escalate(k)
         \/ ForceKills(k)
         \/ KillReturns(k)
  PROVE  IInv'
<1> USE ConstantsAssumption DEF IInv, procVars, killVars
<1>1. CASE KillAllBegins(k)
  <2>1. TypeOK'
    BY <1>1 DEF KillAllBegins, Running, Tracked, TypeOK, Stream
  <2>2. SpawnInv'
    BY <1>1 DEF KillAllBegins, Running, Tracked, SpawnInv, TypeOK, Stream
  <2>3. IdInv'
    BY <1>1 DEF KillAllBegins, Running, Tracked, IdInv, SpawnInv, Unreported, TypeOK, Stream
  <2>4. EofInv'
    BY <1>1 DEF KillAllBegins, Running, Tracked, EofInv, SpawnInv, DrainInv, Gone, HoldsPipes, TypeOK, Stream
  <2>5. DrainInv'
    BY <1>1 DEF KillAllBegins, Running, Tracked, DrainInv, SpawnInv, Gone, Stopped, TypeOK, Stream
  <2>6. ReaderKnowsProcess'
    BY <1>1 DEF KillAllBegins, Running, Tracked, ReaderKnowsProcess, SpawnInv, IdInv, DrainInv, Stopped, Unreported, TypeOK, Stream
  <2>7. KillInv'
    BY <1>1 DEF KillAllBegins, Running, Tracked, KillInv, SpawnInv, IdInv, DrainInv, Gone, Unreported, TypeOK, Stream
  <2> QED
    BY <2>1, <2>2, <2>3, <2>4, <2>5, <2>6, <2>7
<1>2. CASE DrainedReturns(k)
  <2>1. TypeOK'
    BY <1>2 DEF DrainedReturns, NextTarget, TypeOK, Stream
  <2>2. SpawnInv'
    BY <1>2 DEF DrainedReturns, NextTarget, SpawnInv, TypeOK, Stream
  <2>3. IdInv'
    BY <1>2 DEF DrainedReturns, NextTarget, IdInv, SpawnInv, Unreported, TypeOK, Stream
  <2>4. EofInv'
    BY <1>2 DEF DrainedReturns, NextTarget, EofInv, SpawnInv, DrainInv, Gone, HoldsPipes, TypeOK, Stream
  <2>5. DrainInv'
    BY <1>2 DEF DrainedReturns, NextTarget, DrainInv, SpawnInv, Gone, Stopped, TypeOK, Stream
  <2>6. ReaderKnowsProcess'
    BY <1>2 DEF DrainedReturns, NextTarget, ReaderKnowsProcess, SpawnInv, IdInv, DrainInv, Stopped, Unreported, TypeOK, Stream
  <2>7. KillInv'
    BY <1>2 DEF DrainedReturns, NextTarget, KillInv, SpawnInv, IdInv, DrainInv, Gone, Unreported, TypeOK, Stream
  <2> QED
    BY <2>1, <2>2, <2>3, <2>4, <2>5, <2>6, <2>7
<1>3. CASE Escalate(k)
  <2>1. TypeOK'
    <3>1. target[k] \in Proc
      BY <1>3 DEF Escalate, KillInv
    <3>2. /\ leader' \in {leader, [leader EXCEPT ![target[k]] = "zombie"]}
          /\ kid' \in {kid, [kid EXCEPT ![target[k]] = "dead"]}
          /\ hit' \in {hit, hit \union {target[k]}}
          /\ stray' \in {stray, stray \union {k}}
      BY <1>3 DEF Escalate, SignalGroup, Signalled
    <3>3. /\ leader' \in [Proc -> {"none", "running", "zombie", "reaped", "reused"}]
          /\ kid' \in [Proc -> {"none", "piped", "silent", "escaped", "dead"}]
          /\ hit' \in SUBSET Proc
          /\ stray' \in SUBSET Killer
      <4>1. leader' \in [Proc -> {"none", "running", "zombie", "reaped", "reused"}]
        BY <3>1, <3>2 DEF TypeOK
      <4>2. kid' \in [Proc -> {"none", "piped", "silent", "escaped", "dead"}]
        BY <3>1, <3>2 DEF TypeOK
      <4>3. hit' \in SUBSET Proc /\ stray' \in SUBSET Killer
        <5>1. hit \in SUBSET Proc /\ stray \in SUBSET Killer
          BY DEF TypeOK
        <5> QED
          BY <3>1, <3>2, <5>1
      <4> QED
        BY <4>1, <4>2, <4>3
    <3>4. /\ killer' \in [Killer -> {"idle", "visiting", "draining", "signalling", "done"}]
          /\ target' \in [Killer -> Proc \union {NoProc}]
      BY <1>3 DEF Escalate, NextTarget, TypeOK
    <3>5. UNCHANGED <<table, id, spawning, unread, reader, bound, waiter, todo, force, asked>>
      BY <1>3 DEF Escalate, NextTarget
    <3> QED
      BY <3>3, <3>4, <3>5 DEF TypeOK
  <2>2. SpawnInv'
    BY <1>3 DEF Escalate, NextTarget, SignalGroup, Signalled, SpawnInv, TypeOK, Stream
  <2>3. IdInv'
    BY <1>3 DEF Escalate, NextTarget, SignalGroup, Signalled, IdInv, SpawnInv, Unreported, TypeOK, Stream
  <2>4. EofInv'
    BY <1>3 DEF Escalate, NextTarget, SignalGroup, Signalled, EofInv, SpawnInv, DrainInv, Gone, HoldsPipes, TypeOK, Stream
  <2>5. DrainInv'
    BY <1>3 DEF Escalate, NextTarget, SignalGroup, Signalled, DrainInv, SpawnInv, Gone, Stopped, TypeOK, Stream
  <2>6. ReaderKnowsProcess'
    BY <1>3 DEF Escalate, NextTarget, SignalGroup, Signalled, ReaderKnowsProcess, SpawnInv, IdInv, DrainInv, Stopped, Unreported, TypeOK, Stream
  <2>7. KillInv'
    BY <1>3 DEF Escalate, NextTarget, SignalGroup, Signalled, KillInv, SpawnInv, IdInv, DrainInv, Gone, Unreported, TypeOK, Stream
  <2> QED
    BY <2>1, <2>2, <2>3, <2>4, <2>5, <2>6, <2>7
<1>4. CASE ForceKills(k)
  <2>1. TypeOK'
    <3>1. target[k] \in Proc
      BY <1>4 DEF ForceKills, KillInv
    <3>2. /\ leader' \in {leader, [leader EXCEPT ![target[k]] = "zombie"]}
          /\ kid' \in {kid, [kid EXCEPT ![target[k]] = "dead"]}
          /\ hit' \in {hit, hit \union {target[k]}}
          /\ stray' \in {stray, stray \union {k}}
      BY <1>4 DEF ForceKills, SignalGroup, Signalled
    <3>3. /\ leader' \in [Proc -> {"none", "running", "zombie", "reaped", "reused"}]
          /\ kid' \in [Proc -> {"none", "piped", "silent", "escaped", "dead"}]
          /\ hit' \in SUBSET Proc
          /\ stray' \in SUBSET Killer
      <4>1. leader' \in [Proc -> {"none", "running", "zombie", "reaped", "reused"}]
        BY <3>1, <3>2 DEF TypeOK
      <4>2. kid' \in [Proc -> {"none", "piped", "silent", "escaped", "dead"}]
        BY <3>1, <3>2 DEF TypeOK
      <4>3. hit' \in SUBSET Proc /\ stray' \in SUBSET Killer
        <5>1. hit \in SUBSET Proc /\ stray \in SUBSET Killer
          BY DEF TypeOK
        <5> QED
          BY <3>1, <3>2, <5>1
      <4> QED
        BY <4>1, <4>2, <4>3
    <3>4. /\ killer' \in [Killer -> {"idle", "visiting", "draining", "signalling", "done"}]
          /\ target' \in [Killer -> Proc \union {NoProc}]
      BY <1>4 DEF ForceKills, NextTarget, TypeOK
    <3>5. UNCHANGED <<table, id, spawning, unread, reader, bound, waiter, todo, force, asked>>
      BY <1>4 DEF ForceKills, NextTarget
    <3> QED
      BY <3>3, <3>4, <3>5 DEF TypeOK
  <2>2. SpawnInv'
    BY <1>4 DEF ForceKills, NextTarget, SignalGroup, Signalled, SpawnInv, TypeOK, Stream
  <2>3. IdInv'
    BY <1>4 DEF ForceKills, NextTarget, SignalGroup, Signalled, IdInv, SpawnInv, Unreported, TypeOK, Stream
  <2>4. EofInv'
    BY <1>4 DEF ForceKills, NextTarget, SignalGroup, Signalled, EofInv, SpawnInv, DrainInv, Gone, HoldsPipes, TypeOK, Stream
  <2>5. DrainInv'
    BY <1>4 DEF ForceKills, NextTarget, SignalGroup, Signalled, DrainInv, SpawnInv, Gone, Stopped, TypeOK, Stream
  <2>6. ReaderKnowsProcess'
    BY <1>4 DEF ForceKills, NextTarget, SignalGroup, Signalled, ReaderKnowsProcess, SpawnInv, IdInv, DrainInv, Stopped, Unreported, TypeOK, Stream
  <2>7. KillInv'
    BY <1>4 DEF ForceKills, NextTarget, SignalGroup, Signalled, KillInv, SpawnInv, IdInv, DrainInv, Gone, Unreported, TypeOK, Stream
  <2> QED
    BY <2>1, <2>2, <2>3, <2>4, <2>5, <2>6, <2>7
<1>5. CASE KillReturns(k)
  <2>1. TypeOK'
    BY <1>5 DEF KillReturns, TypeOK, Stream
  <2>2. SpawnInv'
    BY <1>5 DEF KillReturns, SpawnInv, TypeOK, Stream
  <2>3. IdInv'
    BY <1>5 DEF KillReturns, IdInv, SpawnInv, Unreported, TypeOK, Stream
  <2>4. EofInv'
    BY <1>5 DEF KillReturns, EofInv, SpawnInv, DrainInv, Gone, HoldsPipes, TypeOK, Stream
  <2>5. DrainInv'
    BY <1>5 DEF KillReturns, DrainInv, SpawnInv, Gone, Stopped, TypeOK, Stream
  <2>6. ReaderKnowsProcess'
    BY <1>5 DEF KillReturns, ReaderKnowsProcess, SpawnInv, IdInv, DrainInv, Stopped, Unreported, TypeOK, Stream
  <2>7. KillInv'
    BY <1>5 DEF KillReturns, KillInv, SpawnInv, IdInv, DrainInv, Gone, Unreported, TypeOK, Stream
  <2> QED
    BY <2>1, <2>2, <2>3, <2>4, <2>5, <2>6, <2>7
<1> QED
  BY <1>1, <1>2, <1>3, <1>4, <1>5

\* kill and killAll find their processes by id.
LEMMA VisitStep ==
  ASSUME IInv, NEW k \in Killer, NEW i \in Ids, NEW f \in BOOLEAN,
         \/ KillBegins(k, i, f)
         \/ Visit(k, i)
  PROVE  IInv'
<1> USE ConstantsAssumption DEF IInv, procVars, killVars
<1>1. CASE KillBegins(k, i, f)
  <2>1. TypeOK'
    BY <1>1 DEF KillBegins, Running, TypeOK, Stream
  <2>2. SpawnInv'
    BY <1>1 DEF KillBegins, Running, SpawnInv, TypeOK, Stream
  <2>3. IdInv'
    BY <1>1 DEF KillBegins, Running, IdInv, SpawnInv, Unreported, TypeOK, Stream
  <2>4. EofInv'
    BY <1>1 DEF KillBegins, Running, EofInv, SpawnInv, DrainInv, Gone, HoldsPipes, TypeOK, Stream
  <2>5. DrainInv'
    BY <1>1 DEF KillBegins, Running, DrainInv, SpawnInv, Gone, Stopped, TypeOK, Stream
  <2>6. ReaderKnowsProcess'
    BY <1>1 DEF KillBegins, Running, ReaderKnowsProcess, SpawnInv, IdInv, DrainInv, Stopped, Unreported, TypeOK, Stream
  <2>7. KillInv'
    BY <1>1 DEF KillBegins, Running, KillInv, SpawnInv, IdInv, DrainInv, Gone, Unreported, TypeOK, Stream
  <2> QED
    BY <2>1, <2>2, <2>3, <2>4, <2>5, <2>6, <2>7
<1>2. CASE Visit(k, i)
  <2>1. TypeOK'
    BY <1>2 DEF Visit, TypeOK, Stream
  <2>2. SpawnInv'
    BY <1>2 DEF Visit, SpawnInv, TypeOK, Stream
  <2>3. IdInv'
    BY <1>2 DEF Visit, IdInv, SpawnInv, Unreported, TypeOK, Stream
  <2>4. EofInv'
    BY <1>2 DEF Visit, EofInv, SpawnInv, DrainInv, Gone, HoldsPipes, TypeOK, Stream
  <2>5. DrainInv'
    BY <1>2 DEF Visit, DrainInv, SpawnInv, Gone, Stopped, TypeOK, Stream
  <2>6. ReaderKnowsProcess'
    BY <1>2 DEF Visit, ReaderKnowsProcess, SpawnInv, IdInv, DrainInv, Stopped, Unreported, TypeOK, Stream
  <2>7. KillInv'
    BY <1>2 DEF Visit, KillInv, SpawnInv, IdInv, DrainInv, Gone, Unreported, TypeOK, Stream
  <2> QED
    BY <2>1, <2>2, <2>3, <2>4, <2>5, <2>6, <2>7
<1> QED
  BY <1>1, <1>2

\* What the processes do keeps it.
LEMMA ProcessStep ==
  ASSUME IInv, NEW p \in Proc, NEW c \in {"piped", "silent", "escaped"},
         \/ LeaderExits(p)
         \/ PidReused(p)
         \/ Forks(p, c)
         \/ KidExits(p)
  PROVE  IInv'
<1> USE ConstantsAssumption DEF IInv, procVars, killVars
<1>1. CASE LeaderExits(p)
  <2>1. TypeOK'
    BY <1>1 DEF LeaderExits, TypeOK, Stream
  <2>2. SpawnInv'
    BY <1>1 DEF LeaderExits, SpawnInv, TypeOK, Stream
  <2>3. IdInv'
    BY <1>1 DEF LeaderExits, IdInv, SpawnInv, Unreported, TypeOK, Stream
  <2>4. EofInv'
    BY <1>1 DEF LeaderExits, EofInv, SpawnInv, DrainInv, Gone, HoldsPipes, TypeOK, Stream
  <2>5. DrainInv'
    BY <1>1 DEF LeaderExits, DrainInv, SpawnInv, Gone, Stopped, TypeOK, Stream
  <2>6. ReaderKnowsProcess'
    BY <1>1 DEF LeaderExits, ReaderKnowsProcess, SpawnInv, IdInv, DrainInv, Stopped, Unreported, TypeOK, Stream
  <2>7. KillInv'
    BY <1>1 DEF LeaderExits, KillInv, SpawnInv, IdInv, DrainInv, Gone, Unreported, TypeOK, Stream
  <2> QED
    BY <2>1, <2>2, <2>3, <2>4, <2>5, <2>6, <2>7
<1>2. CASE PidReused(p)
  <2>1. TypeOK'
    BY <1>2 DEF PidReused, TypeOK, Stream
  <2>2. SpawnInv'
    BY <1>2 DEF PidReused, SpawnInv, TypeOK, Stream
  <2>3. IdInv'
    BY <1>2 DEF PidReused, IdInv, SpawnInv, Unreported, TypeOK, Stream
  <2>4. EofInv'
    BY <1>2 DEF PidReused, EofInv, SpawnInv, DrainInv, Gone, HoldsPipes, TypeOK, Stream
  <2>5. DrainInv'
    BY <1>2 DEF PidReused, DrainInv, SpawnInv, Gone, Stopped, TypeOK, Stream
  <2>6. ReaderKnowsProcess'
    BY <1>2 DEF PidReused, ReaderKnowsProcess, SpawnInv, IdInv, DrainInv, Stopped, Unreported, TypeOK, Stream
  <2>7. KillInv'
    BY <1>2 DEF PidReused, KillInv, SpawnInv, IdInv, DrainInv, Gone, Unreported, TypeOK, Stream
  <2> QED
    BY <2>1, <2>2, <2>3, <2>4, <2>5, <2>6, <2>7
<1>3. CASE Forks(p, c)
  <2>1. TypeOK'
    BY <1>3 DEF Forks, TypeOK, Stream
  <2>2. SpawnInv'
    BY <1>3 DEF Forks, SpawnInv, TypeOK, Stream
  <2>3. IdInv'
    BY <1>3 DEF Forks, IdInv, SpawnInv, Unreported, TypeOK, Stream
  <2>4. EofInv'
    BY <1>3 DEF Forks, EofInv, SpawnInv, DrainInv, Gone, HoldsPipes, TypeOK, Stream
  <2>5. DrainInv'
    BY <1>3 DEF Forks, DrainInv, SpawnInv, Gone, Stopped, TypeOK, Stream
  <2>6. ReaderKnowsProcess'
    BY <1>3 DEF Forks, ReaderKnowsProcess, SpawnInv, IdInv, DrainInv, Stopped, Unreported, TypeOK, Stream
  <2>7. KillInv'
    BY <1>3 DEF Forks, KillInv, SpawnInv, IdInv, DrainInv, Gone, Unreported, TypeOK, Stream
  <2> QED
    BY <2>1, <2>2, <2>3, <2>4, <2>5, <2>6, <2>7
<1>4. CASE KidExits(p)
  <2>1. TypeOK'
    BY <1>4 DEF KidExits, TypeOK, Stream
  <2>2. SpawnInv'
    BY <1>4 DEF KidExits, SpawnInv, TypeOK, Stream
  <2>3. IdInv'
    BY <1>4 DEF KidExits, IdInv, SpawnInv, Unreported, TypeOK, Stream
  <2>4. EofInv'
    BY <1>4 DEF KidExits, EofInv, SpawnInv, DrainInv, Gone, HoldsPipes, TypeOK, Stream
  <2>5. DrainInv'
    BY <1>4 DEF KidExits, DrainInv, SpawnInv, Gone, Stopped, TypeOK, Stream
  <2>6. ReaderKnowsProcess'
    BY <1>4 DEF KidExits, ReaderKnowsProcess, SpawnInv, IdInv, DrainInv, Stopped, Unreported, TypeOK, Stream
  <2>7. KillInv'
    BY <1>4 DEF KidExits, KillInv, SpawnInv, IdInv, DrainInv, Gone, Unreported, TypeOK, Stream
  <2> QED
    BY <2>1, <2>2, <2>3, <2>4, <2>5, <2>6, <2>7
<1> QED
  BY <1>1, <1>2, <1>3, <1>4

-----------------------------------------------------------------------------
(* The theorems.                                                           *)

\* The inductive invariant holds in every reachable state, for any constants.
THEOREM TrackerSafe == Spec => []IInv
<1>1. Init => IInv
  <2> SUFFICES ASSUME Init PROVE IInv
    OBVIOUS
  <2>1. TypeOK
    BY ConstantsAssumption DEF Init, TypeOK, Stream
  <2>2. SpawnInv /\ IdInv /\ EofInv /\ DrainInv /\ ReaderKnowsProcess /\ KillInv
    BY DEF Init, Stream, SpawnInv, IdInv, EofInv, DrainInv, ReaderKnowsProcess, KillInv, Gone, Unreported, TypeOK
  <2> QED
    BY <2>1, <2>2 DEF IInv
<1>2. IInv /\ [Next]_vars => IInv'
  <2> SUFFICES ASSUME IInv, [Next]_vars PROVE IInv'
    OBVIOUS
  <2>1. ASSUME NEW p \in Proc, SpawnStarts(p) \/ Spawn(p) PROVE IInv'
    BY <2>1, SpawnStep DEF Spawn
  <2>2. ASSUME NEW p \in Proc, Wait(p) PROVE IInv'
    BY <2>2, WaiterStep DEF Wait
  <2>3. ASSUME NEW p \in Proc, LeaderExits(p) \/ PidReused(p) \/ KidExits(p) PROVE IInv'
    BY <2>3, ProcessStep
  <2>4. ASSUME NEW p \in Proc, NEW c \in {"piped", "silent", "escaped"}, Forks(p, c) PROVE IInv'
    BY <2>4, ProcessStep
  <2>5. ASSUME NEW p \in Proc, NEW s \in Stream, Read(p, s) \/ ScanFails(p, s) \/ Writes(p, s)
        PROVE  IInv'
    BY <2>5, ReaderStep DEF Read
  <2>6. ASSUME NEW k \in Killer, NEW i \in Ids, NEW f \in BOOLEAN, KillBegins(k, i, f) PROVE IInv'
    BY <2>6, VisitStep
  <2>7. ASSUME NEW k \in Killer, NEW i \in Ids, Visit(k, i) PROVE IInv'
    <3>1. TRUE \in BOOLEAN
      OBVIOUS
    <3> QED
      BY <2>7, <3>1, VisitStep
  <2>8. ASSUME NEW k \in Killer,
               KillAllBegins(k) \/ DrainedReturns(k) \/ Escalate(k) \/ ForceKills(k) \/ KillReturns(k)
        PROVE  IInv'
    BY <2>8, KillerStep
  <2>9. CASE UNCHANGED vars
    BY <2>9 DEF vars, procVars, killVars, IInv, TypeOK, SpawnInv, IdInv, EofInv, DrainInv, ReaderKnowsProcess,
                KillInv, Gone, Unreported, Stopped, HoldsPipes
  <2> QED
    BY <2>1, <2>2, <2>3, <2>4, <2>5, <2>6, <2>7, <2>8, <2>9 DEF Next, Kill
<1> QED
  BY <1>1, <1>2, PTL DEF Spec

\* Every variable keeps to its set of values.
THEOREM TypeCorrect == Spec => []TypeOK
<1>1. IInv => TypeOK
  BY DEF IInv
<1> QED
  BY <1>1, TrackerSafe, PTL

\* The exit event comes after all output, unless a scanner failed.
THEOREM OutputBeforeExit == Spec => []ExitAfterOutput
<1>1. IInv => ExitAfterOutput
  BY DEF IInv, EofInv, DrainInv, Stopped, ExitAfterOutput
<1> QED
  BY <1>1, TrackerSafe, PTL

\* The leader is not reaped, nor its pid reused, while a descendant in its group
\* holds the pipes and a reader of them has not failed: the waiter (process.go:228)
\* waits for both readers before it calls Wait.
THEOREM GroupsStayAddressable == Spec => []GroupAddressable
<1>1. IInv => GroupAddressable
  BY DEF IInv, EofInv, DrainInv, Gone, Stopped, HoldsPipes, GroupAddressable
<1> QED
  BY <1>1, TrackerSafe, PTL

\* A reader works with its own process, even when ids are used again.
THEOREM ReadersKnowProcesses == Spec => []ReaderKnowsProcess
<1>1. IInv => ReaderKnowsProcess
  BY DEF IInv
<1> QED
  BY <1>1, TrackerSafe, PTL

\* Only SIGKILL requests can signal a stranger's group.
THEOREM StraysAreForced == Spec => []StrayOnlyForced
<1>1. IInv => StrayOnlyForced
  BY DEF IInv, KillInv, TypeOK, StrayOnlyForced
<1> QED
  BY <1>1, TrackerSafe, PTL

\* A kill that returned signalled the group of every process it found running,
\* or that process is gone.
THEOREM KillsFinish == Spec => []KillFinishes
<1>1. IInv => KillFinishes
  BY DEF IInv, KillInv, Gone, KillFinishes
<1> QED
  BY <1>1, TrackerSafe, PTL
=============================================================================
