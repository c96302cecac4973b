--------------------------- MODULE HostFiles_proofs ---------------------------
(***************************************************************************)
(* What the host gives a VM, for any number of daemons, versions,          *)
(* failures and kills, of binds and of paths:                              *)
(*  - what the VM runs on (BootFiles): a complete root of its VHDX, with   *)
(*    what its guest installed, and a CID of its own;                      *)
(*  - what it shares with the guest (VfsHelper): the directories somebody  *)
(*    asked for, in the mode they were asked for.                          *)
(* The two components share no state; the names of VfsHelper that          *)
(* BootFiles has too begin with Vfs.                                       *)
(***************************************************************************)
EXTENDS BootFiles, VfsHelper, TLAPS

-----------------------------------------------------------------------------
(* What a VM runs on: the invariant.                                       *)

\* None of these events has happened.
Without(events) == doubt \cap events = {}

\* The places of a boot that has its root.
Rooted == {"disk", "cid", "write", "launch"}

\* Only boots that convert are at the steps of a conversion, and so on; the
\* versions of VHDX files only grow; and a CID that was read is a valid one.
KindInv ==
    /\ \A d \in Daemons :
        /\ boot[d].pc \in {"converting", "stamp"} => boot[d].kind = "vhdx"
        /\ boot[d].pc \in {"overlay", "nvram"} => boot[d].kind = "img"
        /\ boot[d].pc \in {"converting", "stamp"}
           => boot[d].version <= vhdx.version /\ vhdx.version # 0
        /\ boot[d].pc = "write" => boot[d].cid >= defaultCID
    /\ qcow.version <= vhdx.version
    /\ vhdx.version = 0 => ~vhdx.stamped
    /\ qcow.data => qcow.state = "whole"

\* Unless two daemons prepare at once, one does.
AloneInv ==
    Without({"overlap"}) =>
        (\A d, r \in Daemons : Booting(d) /\ Booting(r) => d = r)

\* A daemon that converts owns the root, which nobody runs on; a root that is
\* taken for converted is complete, and so is that of a boot which goes on.
RootInv ==
    Without({"overlap", "deleted"}) =>
        /\ \A d \in Daemons :
            /\ boot[d].pc \in {"converting", "stamp"}
               => /\ boot[d].linked /\ ~vhdx.stamped /\ ~qcow.data
                  /\ \A r \in Daemons \ {d} : ~boot[r].linked
            /\ boot[d].pc = "converting" => qcow.state = "partial"
            /\ boot[d].pc = "stamp"
               => qcow.state = "whole" /\ qcow.version = boot[d].version
            /\ boot[d].pc \in Rooted /\ boot[d].kind = "vhdx"
               => qcow.state = "whole"
            /\ Up(d) /\ boot[d].kind = "vhdx" => boot[d].root = "whole"
        /\ vhdx.stamped => qcow.state = "whole"
        /\ vhdx.version = 0 /\ qcow.state # "absent" => qcow.state = "whole"

\* It is the root of the VHDX that the boot has seen.
VersionInv ==
    Without({"overlap", "deleted", "replaced"}) =>
        /\ \A d \in Daemons :
               /\ boot[d].kind = "vhdx"
               /\ boot[d].pc \in Rooted \/ (Up(d) /\ boot[d].linked)
               => qcow.version = boot[d].version
        /\ vhdx.stamped => qcow.version = vhdx.version

\* A complete root is reused as long as its VHDX stays.
KeptInv ==
    Without({"overlap", "deleted", "unstamped"}) /\ qcow.state = "whole" =>
            \/ \E d \in Daemons : boot[d].pc = "stamp"
            \/ vhdx.stamped \/ vhdx.version # qcow.version \/ vhdx.version = 0

\* An overlay is complete, or being made by the one daemon that boots.
OverlayInv ==
    Without({"overlap", "overlay"}) =>
        /\ overlay.state = "partial" => \E d \in Daemons : boot[d].pc = "overlay"
        /\ \A d \in Daemons :
            /\ boot[d].pc \in Rooted \cup {"nvram"} /\ boot[d].kind = "img"
               => overlay.state = "whole"
            /\ Up(d) /\ boot[d].kind = "img" => boot[d].root = "whole"

\* Unless the counter is lost or wraps round, what it holds, or what the daemon
\* took that has it locked, is greater than every CID in use.
CounterInv ==
    Without({"counter", "wrapped"}) =>
        /\ \A d \in Daemons : flock = d <=> boot[d].pc = "write"
        /\ \A d, r \in Daemons :
               boot[d].pc = "write" /\ boot[r].pc \in {"launch", "up"}
               => boot[r].cid < boot[d].cid
        /\ flock = Nobody => \A r \in Daemons :
               boot[r].pc \in {"launch", "up"} => boot[r].cid < ReadCid
        /\ CidsDiffer

IInv == /\ TypeOK /\ KindInv /\ AloneInv /\ RootInv /\ VersionInv
        /\ KeptInv /\ OverlayInv /\ CounterInv

-----------------------------------------------------------------------------
(* What the steps do to the records.                                       *)

\* Every field but the place is as before.
Same(b, a) ==
    /\ b.kind = a.kind /\ b.version = a.version /\ b.linked = a.linked
    /\ b.nvram = a.nvram /\ b.cid = a.cid /\ b.root = a.root

LEMMA GotoIs ==
  ASSUME boot \in [Daemons -> Boots], NEW d \in Daemons,
         NEW pc \in Steps \cup {"idle", "up"}, Goto(d, pc)
  PROVE  /\ boot' \in [Daemons -> Boots]
         /\ \A r \in Daemons \ {d} : boot'[r] = boot[r]
         /\ boot'[d].pc = pc /\ Same(boot'[d], boot[d])
<1> DEFINE new == [boot[d] EXCEPT !.pc = pc]
<1>1. boot[d] \in Boots
  OBVIOUS
<1>2. new \in Boots /\ new.pc = pc /\ Same(new, boot[d])
  BY <1>1 DEF Boots, Same
<1>3. boot' = [boot EXCEPT ![d] = new]
  BY DEF Goto
<1> HIDE DEF new
<1> QED
  BY <1>2, <1>3

LEMMA FaultIs == TypeOK /\ Fault => faults' \in 0..MaxFaults
  BY BoundsAssumption DEF TypeOK, Fault

LEMMA Update ==
  ASSUME boot \in [Daemons -> Boots], NEW d \in Daemons, NEW new \in Boots,
         boot' = [boot EXCEPT ![d] = new]
  PROVE  /\ boot' \in [Daemons -> Boots] /\ boot'[d] = new
         /\ \A r \in Daemons \ {d} : boot'[r] = boot[r]
  OBVIOUS

LEMMA AbandonIs ==
  ASSUME boot \in [Daemons -> Boots], NEW d \in Daemons
  PROVE  /\ Idle \in Boots /\ Idle.pc = "idle" /\ ~Idle.linked
         /\ Abandon(d) \in Boots /\ Abandon(d).pc = "idle" /\ ~Abandon(d).linked
<1>1. boot[d].nvram \in States /\ 0 \in Versions /\ 0 \in Cids
  BY BoundsAssumption DEF Boots, Versions, Cids
<1>2. Idle \in Boots /\ Idle.pc = "idle" /\ ~Idle.linked
  BY <1>1 DEF Idle, Boots, States
<1> QED
  BY <1>1, <1>2 DEF Abandon, Boots, Idle

-----------------------------------------------------------------------------
(* What leaves a part of the invariant as it is.                           *)

LEMMA AloneKept ==
  ASSUME AloneInv, doubt \subseteq doubt',
         \A r \in Daemons : boot'[r].pc \in Steps => boot[r].pc \in Steps
  PROVE  AloneInv'
  BY DEF AloneInv, Booting, Without

\* Root, VHDX and the boots that rely on them.
LEMMA RootKept ==
  ASSUME RootInv, VersionInv, KeptInv, doubt \subseteq doubt',
         UNCHANGED <<vhdx, qcow>>,
         \A r \in Daemons :
            /\ boot'[r].linked => boot[r].linked
            /\ boot'[r].pc \in {"converting", "stamp"}
               => /\ boot[r].pc = boot'[r].pc /\ boot'[r].linked = boot[r].linked
                  /\ boot'[r].version = boot[r].version
            /\ boot[r].pc = "stamp"
               => boot'[r].pc = "stamp" \/ "unstamped" \in doubt'
            /\ boot'[r].pc \in Rooted /\ boot'[r].kind = "vhdx"
               => /\ boot[r].pc \in Rooted /\ boot[r].kind = "vhdx"
                  /\ boot'[r].version = boot[r].version
            /\ boot'[r].pc = "up" => boot'[r] = boot[r]
  PROVE  RootInv' /\ VersionInv' /\ KeptInv'
<1>1. RootInv'
  BY DEF RootInv, Without, Up, Rooted
<1>2. VersionInv'
  BY DEF VersionInv, Without, Up, Rooted
<1>3. KeptInv'
  BY DEF KeptInv, Without
<1> QED
  BY <1>1, <1>2, <1>3

LEMMA OverlayKept ==
  ASSUME OverlayInv, doubt \subseteq doubt', UNCHANGED overlay,
         \A r \in Daemons :
            /\ boot[r].pc = "overlay"
               => boot'[r].pc = "overlay" \/ "overlay" \in doubt'
            /\ boot'[r].pc \in Rooted \cup {"nvram"} /\ boot'[r].kind = "img"
               => boot[r].pc \in Rooted \cup {"nvram"} /\ boot[r].kind = "img"
            /\ boot'[r].pc = "up" => boot'[r] = boot[r]
  PROVE  OverlayInv'
  BY DEF OverlayInv, Without, Up

LEMMA CounterKept ==
  ASSUME CounterInv, doubt \subseteq doubt', UNCHANGED <<counter, flock>>,
         \A r \in Daemons :
            /\ boot'[r].pc = "write" <=> boot[r].pc = "write"
            /\ boot'[r].pc \in {"launch", "up"} => boot[r].pc \in {"launch", "up"}
            /\ boot'[r].pc \in {"write", "launch", "up"} => boot'[r].cid = boot[r].cid
  PROVE  CounterInv'
<1> SUFFICES ASSUME Without({"counter", "wrapped"})' PROVE CounterInv'
  BY DEF CounterInv
<1>1. Without({"counter", "wrapped"})
  BY DEF Without
<1>2. CidsDiffer'
  BY <1>1 DEF CounterInv, CidsDiffer, Without
<1> QED
  BY <1>1, <1>2 DEF CounterInv, ReadCid

\* The boot ends, wherever it is, and the files stay.
LEMMA EndStep ==
  ASSUME IInv, TypeOK', NEW d \in Daemons, UNCHANGED <<vhdx, qcow, overlay, counter>>,
         doubt \subseteq doubt', boot'[d].pc = "idle", ~boot'[d].linked,
         \A r \in Daemons \ {d} : boot'[r] = boot[r],
         flock' = flock \/ boot[d].pc = "write",
         boot[d].pc = "overlay" => "overlay" \in doubt',
         boot[d].pc = "stamp" => "unstamped" \in doubt',
         boot[d].pc = "write" => "counter" \in doubt'
  PROVE  IInv'
<1>1. KindInv'
  BY DEF IInv, KindInv
<1>2. AloneInv'
  BY AloneKept DEF IInv, Steps
<1>3. RootInv' /\ VersionInv' /\ KeptInv'
  BY RootKept DEF IInv, Rooted
<1>4. OverlayInv'
  BY OverlayKept DEF IInv, Rooted
<1>5. CounterInv'
  <2>1. CASE boot[d].pc = "write"
    BY <2>1 DEF CounterInv, Without
  <2>2. CASE boot[d].pc # "write"
    BY <2>2, CounterKept DEF IInv
  <2> QED
    BY <2>1, <2>2
<1> QED
  BY <1>1, <1>2, <1>3, <1>4, <1>5 DEF IInv

\* A boot that has its root, or makes ready to, goes on.
LEMMA RootedStep ==
  ASSUME IInv, TypeOK', NEW d \in Daemons, UNCHANGED <<vhdx, qcow, overlay, counter, flock>>,
         doubt \subseteq doubt', boot[d].pc \in {"nvram", "disk"},
         boot'[d].pc \in {"disk", "cid"}, boot'[d].kind = boot[d].kind,
         boot'[d].version = boot[d].version, boot'[d].linked = boot[d].linked,
         \A r \in Daemons \ {d} : boot'[r] = boot[r]
  PROVE  IInv'
<1>0. boot[d].pc = "nvram" => boot[d].kind # "vhdx"
  BY DEF IInv, KindInv
<1>1. KindInv'
  BY DEF IInv, KindInv
<1>2. AloneInv'
  BY AloneKept DEF IInv, Steps
<1>3. RootInv' /\ VersionInv' /\ KeptInv'
  BY <1>0, RootKept DEF IInv, Rooted
<1>4. OverlayInv'
  BY OverlayKept DEF IInv, Rooted
<1>5. CounterInv'
  BY CounterKept DEF IInv
<1> QED
  BY <1>1, <1>2, <1>3, <1>4, <1>5 DEF IInv

-----------------------------------------------------------------------------
(* The steps.                                                              *)

\* A boot ends in an error, with its VM or with its daemon.
LEMMA EndingStep ==
  ASSUME IInv, NEW d \in Daemons,
         FindBundleFails(d) \/ QemuExits(d) \/ StopVM(d) \/ Kill(d)
  PROVE  IInv'
<1>1. boot' \in [Daemons -> Boots] /\ boot'[d].pc = "idle" /\ ~boot'[d].linked
      /\ \A r \in Daemons \ {d} : boot'[r] = boot[r]
  BY AbandonIs, Update DEF IInv, TypeOK, FindBundleFails, QemuExits, StopVM, Kill
<1>2. CASE FindBundleFails(d) \/ QemuExits(d) \/ StopVM(d)
  <2>1. /\ UNCHANGED <<vhdx, qcow, img, overlay, disk, counter, flock, faults, doubt>>
        /\ boot[d].pc \in {"root", "launch", "up"}
    BY <1>2 DEF FindBundleFails, QemuExits, StopVM, files, At, Up
  <2>2. TypeOK'
    BY <1>1, <2>1 DEF IInv, TypeOK
  <2> QED
    BY <1>1, <2>1, <2>2, EndStep
<1>3. CASE Kill(d)
  <2>1. /\ UNCHANGED <<vhdx, qcow, img, overlay, disk, counter>>
        /\ flock' = IF flock = d THEN Nobody ELSE flock
        /\ faults' \in 0..MaxFaults /\ doubt \subseteq doubt'
        /\ boot[d].pc = "overlay" => "overlay" \in doubt'
        /\ boot[d].pc = "write" => "counter" \in doubt'
        /\ boot[d].pc = "stamp" => "unstamped" \in doubt'
    BY <1>3, BoundsAssumption DEF Kill, files, At, Fault, Doubt, IInv, TypeOK
  <2>2. TypeOK'
    BY <1>1, <2>1 DEF IInv, TypeOK
  <2>3. CASE flock' = flock \/ boot[d].pc = "write"
    BY <1>1, <2>1, <2>2, <2>3, EndStep
  <2>4. CASE flock' # flock /\ boot[d].pc # "write"
    \* The daemon has the lock only there, unless the counter is in doubt already.
    <3>1. flock = d
      BY <2>1, <2>4
    <3>2. ~Without({"counter", "wrapped"})
      BY <2>4, <3>1 DEF IInv, CounterInv
    <3>3. CounterInv'
      BY <2>1, <3>2 DEF CounterInv, Without
    <3>4. KindInv' /\ AloneInv'
      BY <1>1, <2>1, AloneKept DEF IInv, KindInv, Steps
    <3>5. RootInv' /\ VersionInv' /\ KeptInv'
      BY <1>1, <2>1, RootKept DEF IInv, Rooted
    <3>6. OverlayInv'
      BY <1>1, <2>1, OverlayKept DEF IInv, Rooted
    <3> QED
      BY <2>2, <3>3, <3>4, <3>5, <3>6 DEF IInv
  <2> QED
    BY <2>3, <2>4
<1> QED
  BY <1>2, <1>3

LEMMA StartVMStep ==
  ASSUME IInv, NEW d \in Daemons, StartVM(d)
  PROVE  IInv'
<1> DEFINE new == [boot[d] EXCEPT !.pc = "root",
                                  !.kind = IF img # 0 THEN "img" ELSE "vhdx"]
<1>1. /\ UNCHANGED <<vhdx, qcow, img, overlay, disk, counter, flock, faults>>
      /\ boot[d].pc = "idle" /\ boot' = [boot EXCEPT ![d] = new]
      /\ doubt \subseteq doubt'
      /\ (\E r \in Daemons \ {d} : Booting(r)) => "overlap" \in doubt'
  BY DEF StartVM, files, At, Doubt, Others
<1>2. boot[d] \in Boots
  BY DEF IInv, TypeOK
<1>3. new \in Boots /\ new.pc = "root" /\ new.linked = boot[d].linked
  BY <1>2 DEF Boots, Steps
<1> HIDE DEF new
<1>4. /\ boot' \in [Daemons -> Boots] /\ boot'[d].pc = "root"
      /\ boot'[d].linked = boot[d].linked
      /\ \A r \in Daemons \ {d} : boot'[r] = boot[r]
  BY <1>1, <1>3, Update DEF IInv, TypeOK
<1>5. TypeOK' /\ KindInv'
  BY <1>1, <1>4 DEF IInv, TypeOK, KindInv
<1>6. AloneInv'
  BY <1>1, <1>4 DEF IInv, AloneInv, Without, Booting, Steps
<1>7. RootInv' /\ VersionInv' /\ KeptInv'
  BY <1>1, <1>4, RootKept DEF IInv, Rooted
<1>8. OverlayInv'
  BY <1>1, <1>4, OverlayKept DEF IInv, Rooted
<1>9. CounterInv'
  BY <1>1, <1>4, CounterKept DEF IInv
<1> QED
  BY <1>5, <1>6, <1>7, <1>8, <1>9 DEF IInv

LEMMA UseConvertedStep ==
  ASSUME IInv, NEW d \in Daemons, UseConverted(d)
  PROVE  IInv'
<1> DEFINE new == [boot[d] EXCEPT !.pc = "disk", !.version = vhdx.version]
<1>1. /\ UNCHANGED <<vhdx, qcow, img, overlay, disk, counter, flock, faults, doubt>>
      /\ boot[d].pc = "root" /\ boot[d].kind = "vhdx" /\ Converted
      /\ boot' = [boot EXCEPT ![d] = new]
  BY DEF UseConverted, files, At
<1>2. boot[d] \in Boots /\ vhdx.version \in Versions
  BY DEF IInv, TypeOK
<1>3. /\ new \in Boots /\ new.pc = "disk" /\ new.linked = boot[d].linked
      /\ new.version = vhdx.version /\ new.kind = boot[d].kind
  BY <1>2 DEF Boots, Steps
<1> HIDE DEF new
<1>4. /\ boot' \in [Daemons -> Boots] /\ boot'[d].pc = "disk"
      /\ boot'[d].linked = boot[d].linked /\ boot'[d].version = vhdx.version
      /\ boot'[d].kind = "vhdx"
      /\ \A r \in Daemons \ {d} : boot'[r] = boot[r]
  BY <1>1, <1>3, Update DEF IInv, TypeOK
<1>5. TypeOK' /\ KindInv'
  BY <1>1, <1>4 DEF IInv, TypeOK, KindInv
<1>6. AloneInv'
  BY <1>1, <1>4, AloneKept DEF IInv, Steps
<1>7. RootInv'
  BY <1>1, <1>4 DEF IInv, RootInv, Without, Rooted, Up, Converted
<1>8. VersionInv'
  <2> SUFFICES ASSUME Without({"overlap", "deleted", "replaced"}) PROVE VersionInv'
    BY <1>1 DEF VersionInv, Without
  <2>1. Without({"overlap", "deleted"})
    BY DEF Without
  <2>2. qcow.version = vhdx.version
    <3>1. CASE vhdx.stamped
      BY <3>1 DEF IInv, VersionInv
    <3>2. CASE vhdx.version = 0
      BY <3>2 DEF IInv, KindInv, TypeOK, Versions
    <3> QED
      BY <1>1, <3>1, <3>2 DEF Converted
  <2> QED
    BY <1>1, <1>4, <2>2 DEF IInv, VersionInv, Without, Rooted, Up
<1>9. KeptInv'
  BY <1>1, <1>4 DEF IInv, KeptInv, Without
<1>10. OverlayInv'
  BY <1>1, <1>4, OverlayKept DEF IInv, Rooted
<1>11. CounterInv'
  BY <1>1, <1>4, CounterKept DEF IInv
<1> QED
  BY <1>5, <1>6, <1>7, <1>8, <1>9, <1>10, <1>11 DEF IInv

\* Everyone's root loses its name.
LEMMA UnlinkedIs ==
  ASSUME boot \in [Daemons -> Boots]
  PROVE  /\ Unlinked \in [Daemons -> Boots]
         /\ \A r \in Daemons :
                /\ Unlinked[r].pc = boot[r].pc /\ Unlinked[r].kind = boot[r].kind
                /\ Unlinked[r].version = boot[r].version /\ ~Unlinked[r].linked
                /\ Unlinked[r].cid = boot[r].cid /\ Unlinked[r].root = boot[r].root
<1>1. \A r \in Boots :
         /\ [r EXCEPT !.linked = FALSE] \in Boots
         /\ [r EXCEPT !.linked = FALSE].pc = r.pc
         /\ [r EXCEPT !.linked = FALSE].kind = r.kind
         /\ [r EXCEPT !.linked = FALSE].version = r.version
         /\ ~[r EXCEPT !.linked = FALSE].linked
         /\ [r EXCEPT !.linked = FALSE].cid = r.cid
         /\ [r EXCEPT !.linked = FALSE].root = r.root
  BY DEF Boots
<1> QED
  BY <1>1 DEF Unlinked

LEMMA RootRecords ==
  /\ NoQcow \in [state : States, version : Versions, data : BOOLEAN]
  /\ NoQcow.state = "absent" /\ NoQcow.version = 0 /\ ~NoQcow.data
  /\ \A state \in States, version \in Versions :
        LET root == [NoQcow EXCEPT !.state = state, !.version = version]
        IN  /\ root \in [state : States, version : Versions, data : BOOLEAN]
            /\ root.state = state /\ root.version = version /\ ~root.data
  /\ LET root == [NoQcow EXCEPT !.state = "partial"]
     IN  /\ root \in [state : States, version : Versions, data : BOOLEAN]
         /\ root.state = "partial" /\ root.version = 0 /\ ~root.data
<1>1. 0 \in Versions
  BY BoundsAssumption DEF Versions
<1> QED
  BY <1>1 DEF NoQcow, States

LEMMA BeginConversionStep ==
  ASSUME IInv, NEW d \in Daemons, BeginConversion(d)
  PROVE  IInv'
<1> DEFINE new == [Unlinked[d] EXCEPT !.pc = "converting", !.linked = TRUE,
                                      !.version = vhdx.version]
<1>1. /\ UNCHANGED <<vhdx, img, overlay, disk, counter, flock, faults, doubt>>
      /\ boot[d].pc = "root" /\ boot[d].kind = "vhdx" /\ vhdx.version # 0 /\ ~Converted
      /\ boot' = [Unlinked EXCEPT ![d] = new]
      /\ qcow' = [NoQcow EXCEPT !.state = "partial"]
  BY DEF BeginConversion, At
<1>2. /\ Unlinked \in [Daemons -> Boots] /\ Unlinked[d] \in Boots
      /\ vhdx.version \in Versions
  BY UnlinkedIs DEF IInv, TypeOK
<1>3. /\ new \in Boots /\ new.pc = "converting" /\ new.linked
      /\ new.version = vhdx.version /\ new.kind = "vhdx"
  BY <1>1, <1>2, UnlinkedIs DEF Boots, Steps, IInv, TypeOK
<1> HIDE DEF new
<1>4. /\ boot' \in [Daemons -> Boots] /\ boot'[d] = new
      /\ \A r \in Daemons \ {d} : boot'[r] = Unlinked[r]
  BY <1>1, <1>2, <1>3
<1>5. /\ \A r \in Daemons \ {d} :
            /\ boot'[r].pc = boot[r].pc /\ boot'[r].kind = boot[r].kind
            /\ boot'[r].version = boot[r].version /\ ~boot'[r].linked
            /\ boot'[r].cid = boot[r].cid /\ boot'[r].root = boot[r].root
      /\ boot'[d].pc = "converting" /\ boot'[d].linked /\ boot'[d].kind = "vhdx"
      /\ boot'[d].version = vhdx.version
  BY <1>3, <1>4, UnlinkedIs DEF IInv, TypeOK
<1>6. /\ qcow' \in [state : States, version : Versions, data : BOOLEAN]
      /\ qcow'.state = "partial" /\ qcow'.version = 0 /\ ~qcow'.data
  BY <1>1, RootRecords
<1>7. TypeOK'
  BY <1>1, <1>4, <1>6 DEF IInv, TypeOK
<1>8. KindInv'
  BY <1>1, <1>5, <1>6 DEF IInv, KindInv, TypeOK, Versions
<1>9. AloneInv'
  BY <1>1, <1>5, AloneKept DEF IInv, Steps
<1>10. Without({"overlap"}) => \A r \in Daemons \ {d} : boot[r].pc \notin Steps
  BY <1>1 DEF IInv, AloneInv, Booting, Steps
<1>11. RootInv'
  <2> SUFFICES ASSUME Without({"overlap", "deleted"})
               PROVE  RootInv'
    BY <1>1 DEF RootInv, Without
  <2>1. \A r \in Daemons \ {d} : boot'[r].pc \notin Steps
    BY <1>5, <1>10 DEF Without
  <2>2. ~vhdx.stamped
    BY <1>1 DEF IInv, RootInv, Converted, TypeOK
  <2> QED
    BY <1>1, <1>5, <1>6, <2>1, <2>2 DEF IInv, RootInv, Rooted, Steps, Up
<1>12. VersionInv'
  <2> SUFFICES ASSUME Without({"overlap", "deleted", "replaced"})
               PROVE  VersionInv'
    BY <1>1 DEF VersionInv, Without
  <2>1. \A r \in Daemons \ {d} : boot'[r].pc \notin Steps
    BY <1>5, <1>10 DEF Without
  <2>2. ~vhdx.stamped
    BY <1>1 DEF IInv, RootInv, Converted, TypeOK, Without
  <2> QED
    BY <1>1, <1>5, <2>1, <2>2 DEF VersionInv, Rooted, Steps, Up
<1>13. KeptInv'
  BY <1>6 DEF KeptInv
<1>14. OverlayInv'
  BY <1>1, <1>5 DEF IInv, OverlayInv, Without, Rooted, Up
<1>15. CounterInv'
  BY <1>1, <1>5, CounterKept DEF IInv
<1> QED
  BY <1>7, <1>8, <1>9, <1>11, <1>12, <1>13, <1>14, <1>15 DEF IInv

LEMMA EndConversionStep ==
  ASSUME IInv, NEW d \in Daemons, EndConversion(d)
  PROVE  IInv'
<1>1. /\ UNCHANGED <<vhdx, img, overlay, disk, counter, flock, faults, doubt>>
      /\ boot[d].pc = "converting" /\ Goto(d, "stamp")
      /\ qcow' = IF boot[d].linked
                 THEN [NoQcow EXCEPT !.state = "whole", !.version = boot[d].version]
                 ELSE qcow
  BY DEF EndConversion, At
<1>2. /\ boot' \in [Daemons -> Boots]
      /\ \A r \in Daemons \ {d} : boot'[r] = boot[r]
      /\ boot'[d].pc = "stamp" /\ Same(boot'[d], boot[d])
  BY <1>1, GotoIs DEF IInv, TypeOK, Steps
<1>3. boot[d].version \in Versions /\ "whole" \in States
  BY DEF IInv, TypeOK, Boots, States
<1>4. /\ qcow' \in [state : States, version : Versions, data : BOOLEAN]
      /\ boot[d].linked => /\ qcow'.state = "whole" /\ ~qcow'.data
                           /\ qcow'.version = boot[d].version
      /\ ~boot[d].linked => qcow' = qcow
  BY <1>1, <1>3, RootRecords DEF IInv, TypeOK
<1>5. TypeOK'
  BY <1>1, <1>2, <1>4 DEF IInv, TypeOK
<1>6. KindInv'
  BY <1>1, <1>2, <1>4 DEF IInv, KindInv, Same
<1>7. AloneInv'
  BY <1>1, <1>2, AloneKept DEF IInv, Steps
<1>8. Without({"overlap"}) => \A r \in Daemons \ {d} : boot[r].pc \notin Steps
  BY <1>1 DEF IInv, AloneInv, Booting, Steps
<1>9. RootInv'
  <2> SUFFICES ASSUME Without({"overlap", "deleted"}) PROVE RootInv'
    BY <1>1 DEF RootInv, Without
  <2>1. \A r \in Daemons \ {d} : boot[r].pc \notin Steps
    BY <1>8 DEF Without
  <2>2. boot[d].linked /\ ~vhdx.stamped /\ \A r \in Daemons \ {d} : ~boot[r].linked
    BY <1>1 DEF IInv, RootInv
  <2>3. /\ boot'[d].pc = "stamp" /\ boot'[d].linked /\ ~vhdx'.stamped
        /\ qcow'.state = "whole" /\ ~qcow'.data
        /\ qcow'.version = boot'[d].version
        /\ \A r \in Daemons \ {d} : ~boot'[r].linked
    BY <1>1, <1>2, <1>4, <2>2 DEF Same
  <2>4. \A r \in Daemons \ {d} :
            /\ boot'[r].pc \notin Rooted \cup {"converting", "stamp"}
            /\ boot'[r].pc = "up" /\ boot'[r].kind = "vhdx" => boot'[r].root = "whole"
    BY <1>2, <2>1 DEF IInv, RootInv, Rooted, Steps, Up
  <2> QED
    BY <2>3, <2>4 DEF RootInv, Rooted, Up
<1>10. VersionInv'
  <2> SUFFICES ASSUME Without({"overlap", "deleted", "replaced"}) PROVE VersionInv'
    BY <1>1 DEF VersionInv, Without
  <2>1. \A r \in Daemons \ {d} : boot[r].pc \notin Steps
    BY <1>8 DEF Without
  <2>2. ~vhdx.stamped /\ \A r \in Daemons \ {d} : ~boot[r].linked
    BY <1>1 DEF IInv, RootInv, Without
  <2> QED
    BY <1>1, <1>2, <2>1, <2>2 DEF VersionInv, Rooted, Steps, Up, Same
<1>11. KeptInv'
  BY <1>2 DEF KeptInv
<1>12. OverlayInv'
  BY <1>1, <1>2, OverlayKept DEF IInv, Rooted
<1>13. CounterInv'
  BY <1>1, <1>2, CounterKept DEF IInv
<1> QED
  BY <1>5, <1>6, <1>7, <1>9, <1>10, <1>11, <1>12, <1>13 DEF IInv

LEMMA ConversionFailsStep ==
  ASSUME IInv, NEW d \in Daemons, ConversionFails(d)
  PROVE  IInv'
<1>1. /\ UNCHANGED <<vhdx, img, overlay, disk, counter, flock, doubt>>
      /\ boot[d].pc = "converting" /\ qcow' = NoQcow
      /\ boot' = [Unlinked EXCEPT ![d] = Abandon(d)]
      /\ faults' \in 0..MaxFaults
  BY BoundsAssumption DEF ConversionFails, At, Fault, IInv, TypeOK
<1>2. /\ boot' \in [Daemons -> Boots] /\ boot'[d].pc = "idle" /\ ~boot'[d].linked
      /\ \A r \in Daemons \ {d} : boot'[r] = Unlinked[r]
  BY <1>1, AbandonIs, UnlinkedIs DEF IInv, TypeOK
<1>3. \A r \in Daemons \ {d} :
         /\ boot'[r].pc = boot[r].pc /\ boot'[r].kind = boot[r].kind
         /\ boot'[r].version = boot[r].version /\ ~boot'[r].linked
         /\ boot'[r].cid = boot[r].cid /\ boot'[r].root = boot[r].root
  BY <1>2, UnlinkedIs DEF IInv, TypeOK
<1>4. TypeOK' /\ KindInv'
  <2>1. /\ qcow' \in [state : States, version : Versions, data : BOOLEAN]
        /\ qcow'.version = 0 /\ ~qcow'.data
    BY <1>1, RootRecords
  <2>2. TypeOK'
    BY <1>1, <1>2, <2>1 DEF IInv, TypeOK
  <2>3. 0 <= vhdx.version
    BY DEF IInv, TypeOK, Versions
  <2>4. KindInv'
    BY <1>1, <1>2, <1>3, <2>1, <2>3 DEF IInv, KindInv
  <2> QED
    BY <2>2, <2>4
<1>5. AloneInv'
  BY <1>1, <1>2, <1>3, AloneKept DEF IInv, Steps
<1>6. Without({"overlap"}) => \A r \in Daemons \ {d} : boot[r].pc \notin Steps
  BY <1>1 DEF IInv, AloneInv, Booting, Steps
<1>7. Without({"overlap", "deleted"})
      => /\ ~vhdx'.stamped
         /\ \A r \in Daemons : boot'[r].pc \notin Steps
         /\ \A r \in Daemons : boot'[r].pc = "up" /\ boot'[r].kind = "vhdx"
                               => boot'[r].root = "whole"
  BY <1>1, <1>2, <1>3, <1>6 DEF IInv, RootInv, Without, Steps, Up
<1>8. RootInv'
  <2> SUFFICES ASSUME doubt' \cap {"overlap", "deleted"} = {} PROVE RootInv'
    BY DEF RootInv, Without
  <2>1. Without({"overlap", "deleted"})
    BY <1>1 DEF Without
  <2>2. qcow'.state = "absent"
    BY <1>1, RootRecords
  <2> QED
    BY <1>1, <1>7, <2>1, <2>2 DEF IInv, RootInv, KindInv, Rooted, Steps, Up
<1>9. VersionInv'
  <2> SUFFICES ASSUME doubt' \cap {"overlap", "deleted", "replaced"} = {}
               PROVE  VersionInv'
    BY DEF VersionInv, Without
  <2>1. Without({"overlap", "deleted"})
    BY <1>1 DEF Without
  <2> QED
    BY <1>2, <1>3, <1>7, <2>1 DEF VersionInv, Rooted, Steps, Up
<1>10. KeptInv'
  BY <1>1, RootRecords DEF KeptInv
<1>11. OverlayInv'
  BY <1>1, <1>2, <1>3 DEF IInv, OverlayInv, Without, Rooted, Up
<1>12. CounterInv'
  BY <1>1, <1>2, <1>3, CounterKept DEF IInv
<1> QED
  BY <1>4, <1>5, <1>8, <1>9, <1>10, <1>11, <1>12 DEF IInv

\* The conversion is stamped, or the boot goes on without.
LEMMA StampStep ==
  ASSUME IInv, NEW d \in Daemons, appendVhdxCanary(d) \/ StampFails(d)
  PROVE  IInv'
<1>1. /\ UNCHANGED <<qcow, img, overlay, disk, counter, flock>>
      /\ boot[d].pc = "stamp" /\ Goto(d, "disk") /\ doubt \subseteq doubt'
      /\ faults' \in 0..MaxFaults
      /\ \/ /\ vhdx' = [vhdx EXCEPT !.stamped = TRUE]
            /\ vhdx.version # boot[d].version => "replaced" \in doubt'
         \/ vhdx' = vhdx /\ "unstamped" \in doubt'
  BY BoundsAssumption DEF appendVhdxCanary, StampFails, At, Fault, Doubt, files, IInv, TypeOK
<1>2. /\ boot' \in [Daemons -> Boots]
      /\ \A r \in Daemons \ {d} : boot'[r] = boot[r]
      /\ boot'[d].pc = "disk" /\ Same(boot'[d], boot[d])
  BY <1>1, GotoIs DEF IInv, TypeOK, Steps
<1>3. /\ vhdx' \in [version : Versions, stamped : BOOLEAN]
      /\ vhdx'.version = vhdx.version
      /\ \/ vhdx'.stamped
         \/ vhdx' = vhdx /\ "unstamped" \in doubt'
  BY <1>1 DEF IInv, TypeOK
<1>4. TypeOK'
  BY <1>1, <1>2, <1>3 DEF IInv, TypeOK
<1>5. KindInv'
  BY <1>1, <1>2, <1>3 DEF IInv, KindInv, Same
<1>6. AloneInv'
  BY <1>1, <1>2, AloneKept DEF IInv, Steps
<1>7. Without({"overlap"})' => \A r \in Daemons \ {d} : boot[r].pc \notin Steps
  BY <1>1 DEF IInv, AloneInv, Booting, Steps, Without
<1>8. boot[d].kind = "vhdx" /\ vhdx.version # 0
  BY <1>1 DEF IInv, KindInv
<1>9. RootInv'
  <2> SUFFICES ASSUME doubt' \cap {"overlap", "deleted"} = {} PROVE RootInv'
    BY DEF RootInv, Without
  <2>1. \A r \in Daemons \ {d} : boot[r].pc \notin Steps
    BY <1>7 DEF Without
  <2>2. qcow.state = "whole"
    BY <1>1 DEF IInv, RootInv, Without
  <2>3. \A r \in Daemons : boot[r].pc = "up" /\ boot[r].kind = "vhdx"
                           => boot[r].root = "whole"
    BY <1>1 DEF IInv, RootInv, Without, Up
  <2> QED
    BY <1>1, <1>2, <2>1, <2>2, <2>3 DEF RootInv, Rooted, Steps, Up
<1>10. VersionInv'
  <2> SUFFICES ASSUME doubt' \cap {"overlap", "deleted", "replaced"} = {}
               PROVE  VersionInv'
    BY DEF VersionInv, Without
  <2>1. \A r \in Daemons \ {d} : boot[r].pc \notin Steps
    BY <1>7 DEF Without
  <2>2. /\ qcow.version = boot[d].version
        /\ \A r \in Daemons \ {d} : ~boot[r].linked
    BY <1>1 DEF IInv, RootInv, Without
  <2>3. vhdx'.stamped => qcow.version = vhdx.version
    BY <1>1, <2>2 DEF IInv, RootInv, Without
  <2> QED
    BY <1>1, <1>2, <1>3, <2>1, <2>2, <2>3 DEF VersionInv, Rooted, Steps, Up, Same
<1>11. KeptInv'
  BY <1>3 DEF KeptInv, Without
<1>12. OverlayInv'
  BY <1>1, <1>2, <1>8, OverlayKept DEF IInv, Rooted, Same
<1>13. CounterInv'
  BY <1>1, <1>2, CounterKept DEF IInv
<1> QED
  BY <1>4, <1>5, <1>6, <1>9, <1>10, <1>11, <1>12, <1>13 DEF IInv

\* An overlay is found, made, finished or removed.
LEMMA OverlayStep ==
  ASSUME IInv, NEW d \in Daemons,
         UseOverlay(d) \/ BeginOverlay(d) \/ EndOverlay(d) \/ OverlayFails(d)
  PROVE  IInv'
<1> DEFINE found == [boot[d] EXCEPT !.pc = "nvram", !.version = img]
           begun == [boot[d] EXCEPT !.pc = "overlay", !.version = img]
<1>1. boot[d] \in Boots /\ img \in Versions
  BY DEF IInv, TypeOK
<1>2. /\ found \in Boots /\ found.pc = "nvram" /\ found.kind = boot[d].kind
      /\ found.linked = boot[d].linked
      /\ begun \in Boots /\ begun.pc = "overlay" /\ begun.kind = boot[d].kind
      /\ begun.linked = boot[d].linked
  BY <1>1 DEF Boots, Steps
<1>3. \/ boot' = [boot EXCEPT ![d] = found] \/ boot' = [boot EXCEPT ![d] = begun]
      \/ Goto(d, "nvram") \/ boot' = [boot EXCEPT ![d] = Abandon(d)]
  BY DEF UseOverlay, BeginOverlay, EndOverlay, OverlayFails
<1>4. /\ UNCHANGED <<vhdx, qcow, img, disk, counter, flock, doubt>>
      /\ faults' \in 0..MaxFaults
      /\ boot[d].pc \in {"root", "overlay"} /\ boot[d].kind = "img"
  BY BoundsAssumption DEF UseOverlay, BeginOverlay, EndOverlay, OverlayFails, files, At,
     Fault, IInv, TypeOK, KindInv
<1> HIDE DEF found, begun
<1>5. /\ boot' \in [Daemons -> Boots]
      /\ \A r \in Daemons \ {d} : boot'[r] = boot[r]
      /\ boot'[d].linked => boot[d].linked
      /\ boot'[d].pc = "idle" \/ boot'[d].kind = "img"
      /\ boot'[d].pc \in {"nvram", "overlay", "idle"}
  <2>1. CASE boot' = [boot EXCEPT ![d] = found]
    BY <1>2, <1>4, <2>1, Update DEF IInv, TypeOK
  <2>2. CASE boot' = [boot EXCEPT ![d] = begun]
    BY <1>2, <1>4, <2>2, Update DEF IInv, TypeOK
  <2>3. CASE Goto(d, "nvram")
    BY <1>4, <2>3, GotoIs DEF IInv, TypeOK, Same, Steps
  <2>4. CASE boot' = [boot EXCEPT ![d] = Abandon(d)]
    BY <2>4, AbandonIs, Update DEF IInv, TypeOK
  <2> QED
    BY <1>3, <2>1, <2>2, <2>3, <2>4
<1>6. /\ overlay' \in [state : States, version : Versions]
      /\ \/ boot'[d].pc = "overlay" /\ overlay'.state = "partial"
         \/ boot'[d].pc = "nvram" /\ overlay' = overlay /\ overlay.state # "absent"
            /\ boot[d].pc = "root"
         \/ boot'[d].pc = "nvram" /\ overlay'.state = "whole"
         \/ boot'[d].pc = "idle" /\ overlay'.state = "absent"
  <2>1. CASE UseOverlay(d)
    BY <2>1, <1>2, Update DEF UseOverlay, files, At, IInv, TypeOK, found
  <2>2. CASE BeginOverlay(d)
    BY <2>2, <1>2, Update, <1>1 DEF BeginOverlay, At, IInv, TypeOK, States, begun
  <2>3. CASE EndOverlay(d)
    BY <2>3, GotoIs DEF EndOverlay, At, IInv, TypeOK, States, Steps
  <2>4. CASE OverlayFails(d)
    BY <2>4, AbandonIs, Update DEF OverlayFails, At, IInv, TypeOK, States
  <2> QED
    BY <2>1, <2>2, <2>3, <2>4
<1>7. TypeOK'
  BY <1>4, <1>5, <1>6 DEF IInv, TypeOK
<1>8. KindInv'
  BY <1>4, <1>5 DEF IInv, KindInv
<1>9. AloneInv'
  BY <1>4, <1>5, AloneKept DEF IInv, Steps
<1>10. RootInv' /\ VersionInv' /\ KeptInv'
  BY <1>4, <1>5, RootKept DEF IInv, Rooted
<1>11. OverlayInv'
  <2> SUFFICES ASSUME doubt' \cap {"overlap", "overlay"} = {} PROVE OverlayInv'
    BY DEF OverlayInv, Without
  <2>1. \A r \in Daemons \ {d} : boot[r].pc \notin Steps
    BY <1>4 DEF IInv, AloneInv, Booting, Steps, Without
  <2>2. \A r \in Daemons : boot[r].pc = "up" /\ boot[r].kind = "img"
                           => boot[r].root = "whole"
    BY <1>4 DEF IInv, OverlayInv, Without, Up
  <2>3. overlay.state = "partial" => boot[d].pc = "overlay"
    BY <1>4, <2>1 DEF IInv, OverlayInv, Without, Steps
  <2>4. /\ overlay'.state = "partial" => boot'[d].pc = "overlay"
        /\ boot'[d].pc = "nvram" => overlay'.state = "whole"
    BY <1>6, <2>3 DEF IInv, TypeOK, States
  <2> QED
    BY <1>5, <2>1, <2>2, <2>4 DEF OverlayInv, Rooted, Steps, Up
<1>12. CounterInv'
  BY <1>4, <1>5, CounterKept DEF IInv
<1> QED
  BY <1>7, <1>8, <1>9, <1>10, <1>11, <1>12 DEF IInv

\* The firmware variables and the session disk.
LEMMA NvramStep ==
  ASSUME IInv, NEW d \in Daemons, UseNvram(d) \/ ensureOVMFVars(d)
  PROVE  IInv'
<1> DEFINE done == [boot[d] EXCEPT !.nvram = "whole", !.pc = "disk"]
           cut == [Idle EXCEPT !.nvram = "partial"]
<1>1. /\ UNCHANGED <<vhdx, qcow, img, overlay, disk, counter, flock>>
      /\ boot[d].pc = "nvram" /\ doubt \subseteq doubt' /\ faults' \in 0..MaxFaults
      /\ \/ Goto(d, "disk") \/ boot' = [boot EXCEPT ![d] = done]
         \/ boot' = [boot EXCEPT ![d] = Idle] \/ boot' = [boot EXCEPT ![d] = cut]
  <2>1. CASE UseNvram(d)
    BY <2>1 DEF UseNvram, files, At, IInv, TypeOK
  <2>2. CASE ensureOVMFVars(d)
    <3>1. faults' = faults \/ Fault
      BY <2>2 DEF ensureOVMFVars
    <3> QED
      BY <2>2, <3>1, FaultIs DEF ensureOVMFVars, files, At, Doubt, IInv, TypeOK
  <2> QED
    BY <2>1, <2>2
<1>2. boot[d] \in Boots
  BY DEF IInv, TypeOK
<1>3. /\ done \in Boots /\ done.pc = "disk" /\ done.kind = boot[d].kind
      /\ done.version = boot[d].version /\ done.linked = boot[d].linked
  BY <1>2 DEF Boots, Steps, States
<1>4. cut \in Boots /\ cut.pc = "idle" /\ ~cut.linked
  BY AbandonIs DEF Boots, States, Idle, IInv, TypeOK
<1> HIDE DEF done, cut
<1>5. CASE boot' = [boot EXCEPT ![d] = Idle] \/ boot' = [boot EXCEPT ![d] = cut]
  <2>1. /\ boot' \in [Daemons -> Boots] /\ boot'[d].pc = "idle" /\ ~boot'[d].linked
        /\ \A r \in Daemons \ {d} : boot'[r] = boot[r]
    BY <1>4, <1>5, AbandonIs, Update DEF IInv, TypeOK
  <2>2. TypeOK'
    BY <1>1, <2>1 DEF IInv, TypeOK
  <2> QED
    BY <1>1, <2>1, <2>2, EndStep
<1>6. CASE Goto(d, "disk") \/ boot' = [boot EXCEPT ![d] = done]
  <2>1. /\ boot' \in [Daemons -> Boots] /\ boot'[d].pc = "disk"
        /\ boot'[d].kind = boot[d].kind /\ boot'[d].version = boot[d].version
        /\ boot'[d].linked = boot[d].linked
        /\ \A r \in Daemons \ {d} : boot'[r] = boot[r]
    BY <1>3, <1>6, GotoIs, Update DEF IInv, TypeOK, Steps, Same
  <2>2. TypeOK'
    BY <1>1, <2>1 DEF IInv, TypeOK
  <2> QED
    BY <1>1, <2>1, <2>2, RootedStep
<1> QED
  BY <1>1, <1>5, <1>6

LEMMA DiskStep ==
  ASSUME IInv, NEW d \in Daemons, UseSessionDisk(d) \/ ensureSessionDataDisk(d)
  PROVE  IInv'
<1>1. /\ UNCHANGED <<vhdx, qcow, img, overlay, counter, flock>>
      /\ boot[d].pc = "disk" /\ Goto(d, "cid") /\ doubt \subseteq doubt'
      /\ faults' \in 0..MaxFaults /\ disk' \in States
  BY BoundsAssumption DEF UseSessionDisk, ensureSessionDataDisk, files, At, Fault, Doubt,
     IInv, TypeOK, States
<1>2. /\ boot' \in [Daemons -> Boots] /\ boot'[d].pc = "cid"
      /\ Same(boot'[d], boot[d]) /\ \A r \in Daemons \ {d} : boot'[r] = boot[r]
  BY <1>1, GotoIs DEF IInv, TypeOK, Steps
<1>3. TypeOK'
  BY <1>1, <1>2 DEF IInv, TypeOK
<1> QED
  BY <1>1, <1>2, <1>3, RootedStep DEF Same

\* The steps between the session disk and QEMU disturb the CIDs only.
LEMMA CidStep ==
  ASSUME IInv, TypeOK', CounterInv', NEW d \in Daemons,
         UNCHANGED <<vhdx, qcow, overlay>>, doubt \subseteq doubt',
         boot[d].pc \in {"cid", "write"}, boot'[d].pc \in {"write", "launch"},
         boot'[d].kind = boot[d].kind, boot'[d].version = boot[d].version,
         boot'[d].linked = boot[d].linked,
         boot'[d].pc = "write" => boot'[d].cid >= defaultCID,
         \A r \in Daemons \ {d} : boot'[r] = boot[r]
  PROVE  IInv'
<1>1. KindInv'
  BY DEF IInv, KindInv
<1>2. AloneInv'
  BY AloneKept DEF IInv, Steps
<1>3. RootInv' /\ VersionInv' /\ KeptInv'
  BY RootKept DEF IInv, Rooted
<1>4. OverlayInv'
  BY OverlayKept DEF IInv, Rooted
<1> QED
  BY <1>1, <1>2, <1>3, <1>4 DEF IInv

LEMMA CidsAre ==
  ASSUME TypeOK
  PROVE  /\ ReadCid \in Cids /\ ReadCid >= defaultCID
         /\ \A cid \in Cids : cid >= defaultCID
              => /\ NextCid(cid) \in Cids
                 /\ NextCid(cid) = defaultCID \/ NextCid(cid) = cid + 1
  BY BoundsAssumption DEF TypeOK, ReadCid, NextCid, Cids, defaultCID

LEMMA BeginAllocateStep ==
  ASSUME IInv, NEW d \in Daemons, BeginAllocate(d)
  PROVE  IInv'
<1> DEFINE new == [boot[d] EXCEPT !.pc = "write", !.cid = ReadCid]
<1>1. /\ UNCHANGED <<vhdx, qcow, img, overlay, disk, faults, doubt>>
      /\ boot[d].pc = "cid" /\ flock = Nobody /\ flock' = d /\ counter' = 0
      /\ boot' = [boot EXCEPT ![d] = new]
  BY DEF BeginAllocate, files, At
<1>2. boot[d] \in Boots /\ ReadCid \in Cids /\ ReadCid >= defaultCID
  BY CidsAre DEF IInv, TypeOK
<1>3. /\ new \in Boots /\ new.pc = "write" /\ new.kind = boot[d].kind
      /\ new.version = boot[d].version /\ new.linked = boot[d].linked
      /\ new.cid = ReadCid
  BY <1>2 DEF Boots, Steps
<1> HIDE DEF new
<1>4. /\ boot' \in [Daemons -> Boots] /\ boot'[d] = new
      /\ \A r \in Daemons \ {d} : boot'[r] = boot[r]
  BY <1>1, <1>3, Update DEF IInv, TypeOK
<1>5. TypeOK'
  BY <1>1, <1>4 DEF IInv, TypeOK, Cids
<1>6. CounterInv'
  <2> SUFFICES ASSUME Without({"counter", "wrapped"}) PROVE CounterInv'
    BY <1>1 DEF CounterInv, Without
  <2>1. \A r \in Daemons \ {d} :
            boot[r].pc # "write" /\ (boot[r].pc \in {"launch", "up"}
                                     => boot[r].cid < ReadCid)
    BY <1>1, DaemonsAssumption DEF IInv, CounterInv, Nobody
  <2>2. ReadCid \in Int /\ \A r \in Daemons : boot[r].cid \in Int
    BY <1>2, BoundsAssumption DEF Cids, Boots, IInv, TypeOK
  <2>3. CidsDiffer'
    BY <1>1, <1>3, <1>4, <2>1, <2>2 DEF IInv, CounterInv, CidsDiffer, Without
  <2> QED
    BY <1>1, <1>2, <1>3, <1>4, <2>1, <2>3, DaemonsAssumption DEF CounterInv, Nobody
<1> QED
  BY <1>1, <1>2, <1>3, <1>4, <1>5, <1>6, CidStep

LEMMA EndAllocateStep ==
  ASSUME IInv, NEW d \in Daemons, EndAllocate(d)
  PROVE  IInv'
<1>1. /\ UNCHANGED <<vhdx, qcow, img, overlay, disk, faults>>
      /\ boot[d].pc = "write" /\ flock' = Nobody /\ counter' = NextCid(boot[d].cid)
      /\ Goto(d, "launch") /\ doubt \subseteq doubt'
      /\ counter' = defaultCID => "wrapped" \in doubt'
  BY DEF EndAllocate, files, At, Doubt
<1>2. /\ boot' \in [Daemons -> Boots] /\ boot'[d].pc = "launch"
      /\ Same(boot'[d], boot[d]) /\ \A r \in Daemons \ {d} : boot'[r] = boot[r]
  BY <1>1, GotoIs DEF IInv, TypeOK, Steps
<1>3. /\ boot[d].cid \in Cids /\ boot[d].cid >= defaultCID /\ counter' \in Cids
      /\ counter' = defaultCID \/ counter' = boot[d].cid + 1
  BY <1>1, CidsAre DEF IInv, TypeOK, Boots, KindInv
<1>4. TypeOK'
  BY <1>1, <1>2, <1>3 DEF IInv, TypeOK
<1>5. CounterInv'
  <2> SUFFICES ASSUME doubt' \cap {"counter", "wrapped"} = {} PROVE CounterInv'
    BY DEF CounterInv, Without
  <2>1. Without({"counter", "wrapped"}) /\ counter' = boot[d].cid + 1
    BY <1>1, <1>3 DEF Without
  <2>2. /\ flock = d
        /\ \A r \in Daemons \ {d} :
               /\ boot[r].pc # "write"
               /\ boot[r].pc \in {"launch", "up"} => boot[r].cid < boot[d].cid
    BY <1>1, <2>1 DEF IInv, CounterInv
  <2>3. \A r \in Daemons : boot[r].cid \in Int
    BY BoundsAssumption DEF Cids, Boots, IInv, TypeOK
  <2>4. counter' >= 3 /\ ReadCid' = boot[d].cid + 1
    BY <1>3, <2>1, <2>3 DEF ReadCid, defaultCID
  <2>5. CidsDiffer'
    BY <1>1, <1>2, <2>1 DEF IInv, CounterInv, CidsDiffer, Without, Same
  <2>6. \A r \in Daemons : boot'[r].pc \in {"launch", "up"} => boot'[r].cid < ReadCid'
    BY <1>2, <2>2, <2>3, <2>4 DEF Same
  <2>7. \A r \in Daemons : boot'[r].pc # "write"
    BY <1>2, <2>2
  <2> QED
    BY <1>1, <2>5, <2>6, <2>7, DaemonsAssumption DEF CounterInv, Nobody
<1> QED
  BY <1>1, <1>2, <1>4, <1>5, CidStep DEF Same

LEMMA AllocateFailsStep ==
  ASSUME IInv, NEW d \in Daemons, AllocateFails(d)
  PROVE  IInv'
<1> DEFINE default == [boot[d] EXCEPT !.pc = "launch", !.cid = defaultCID]
<1>1. /\ UNCHANGED <<vhdx, qcow, img, overlay, disk>>
      /\ faults' \in 0..MaxFaults /\ doubt \subseteq doubt' /\ "counter" \in doubt'
      /\ \/ /\ boot[d].pc = "cid" /\ boot' = [boot EXCEPT ![d] = default]
            /\ UNCHANGED <<counter, flock>>
         \/ /\ boot[d].pc = "write" /\ Goto(d, "launch") /\ flock' = Nobody
            /\ counter' \in {counter, boot[d].cid}
  BY FaultIs DEF AllocateFails, files, At, Doubt, IInv
<1>2. boot[d] \in Boots /\ defaultCID \in Cids
  BY BoundsAssumption DEF IInv, TypeOK, defaultCID, Cids
<1>3. default \in Boots /\ default.pc = "launch" /\ default.kind = boot[d].kind
      /\ default.version = boot[d].version /\ default.linked = boot[d].linked
  BY <1>2 DEF Boots, Steps
<1> HIDE DEF default
<1>4. /\ boot' \in [Daemons -> Boots] /\ boot'[d].pc = "launch"
      /\ boot'[d].kind = boot[d].kind /\ boot'[d].version = boot[d].version
      /\ boot'[d].linked = boot[d].linked
      /\ \A r \in Daemons \ {d} : boot'[r] = boot[r]
  BY <1>1, <1>3, GotoIs, Update DEF IInv, TypeOK, Steps, Same
<1>5. counter' \in Cids /\ flock' \in Daemons \cup {Nobody}
  BY <1>1, <1>2 DEF IInv, TypeOK, Boots
<1>6. TypeOK'
  BY <1>1, <1>4, <1>5 DEF IInv, TypeOK
<1>7. CounterInv'
  BY <1>1 DEF CounterInv, Without
<1> QED
  BY <1>1, <1>4, <1>6, <1>7, CidStep

LEMMA startQEMUStep ==
  ASSUME IInv, NEW d \in Daemons, startQEMU(d)
  PROVE  IInv'
<1> DEFINE new == [boot[d] EXCEPT !.pc = "up", !.root = RootState(d),
                                  !.linked = (boot[d].kind = "vhdx")]
<1>1. /\ UNCHANGED <<vhdx, qcow, img, overlay, disk, counter, flock, faults, doubt>>
      /\ boot[d].pc = "launch" /\ boot' = [boot EXCEPT ![d] = new]
  BY DEF startQEMU, files, At
<1>2. boot[d] \in Boots /\ RootState(d) \in States
  BY DEF IInv, TypeOK, RootState
<1>3. /\ new \in Boots /\ new.pc = "up" /\ new.kind = boot[d].kind
      /\ new.version = boot[d].version /\ new.cid = boot[d].cid
      /\ new.root = IF boot[d].kind = "img" THEN overlay.state ELSE qcow.state
  BY <1>2 DEF Boots, RootState
<1> HIDE DEF new
<1>4. /\ boot' \in [Daemons -> Boots] /\ boot'[d] = new
      /\ \A r \in Daemons \ {d} : boot'[r] = boot[r]
  BY <1>1, <1>3, Update DEF IInv, TypeOK
<1>5. TypeOK' /\ KindInv'
  BY <1>1, <1>3, <1>4 DEF IInv, TypeOK, KindInv
<1>6. AloneInv'
  BY <1>1, <1>3, <1>4, AloneKept DEF IInv, Steps
<1>7. Without({"overlap"}) => \A r \in Daemons \ {d} : boot[r].pc \notin Steps
  BY <1>1 DEF IInv, AloneInv, Booting, Steps
<1>8. RootInv'
  <2> SUFFICES ASSUME Without({"overlap", "deleted"}) PROVE RootInv'
    BY <1>1 DEF RootInv, Without
  <2>1. \A r \in Daemons \ {d} : boot'[r].pc \notin Steps
    BY <1>4, <1>7 DEF Without
  <2>2. \A r \in Daemons : boot'[r].pc = "up" /\ boot'[r].kind = "vhdx"
                           => boot'[r].root = "whole"
    BY <1>1, <1>3, <1>4 DEF IInv, RootInv, Up, Rooted
  <2>3. /\ vhdx'.stamped => qcow'.state = "whole"
        /\ vhdx'.version = 0 /\ qcow'.state # "absent" => qcow'.state = "whole"
    BY <1>1 DEF IInv, RootInv
  <2> QED
    BY <1>3, <1>4, <2>1, <2>2, <2>3 DEF RootInv, Steps, Rooted, Up
<1>9. VersionInv'
  BY <1>1, <1>3, <1>4 DEF IInv, VersionInv, Without, Rooted, Up
<1>10. KeptInv'
  BY <1>1, <1>4 DEF IInv, KeptInv, Without
<1>11. OverlayInv'
  BY <1>1, <1>3, <1>4 DEF IInv, OverlayInv, Without, Rooted, Up
<1>12. CounterInv'
  BY <1>1, <1>3, <1>4, CounterKept DEF IInv
<1> QED
  BY <1>5, <1>6, <1>8, <1>9, <1>10, <1>11, <1>12 DEF IInv

LEMMA GuestWritesStep ==
  ASSUME IInv, NEW d \in Daemons, GuestWrites(d)
  PROVE  IInv'
<1>1. /\ UNCHANGED <<vhdx, img, overlay, disk, counter, flock, boot, faults, doubt>>
      /\ boot[d].pc = "up" /\ boot[d].linked /\ qcow.state = "whole"
      /\ qcow' = [qcow EXCEPT !.data = TRUE]
  BY DEF GuestWrites, Up
<1>2. /\ qcow' \in [state : States, version : Versions, data : BOOLEAN]
      /\ qcow'.state = "whole" /\ qcow'.version = qcow.version
  BY <1>1 DEF IInv, TypeOK
<1>3. TypeOK' /\ KindInv'
  BY <1>1, <1>2 DEF IInv, TypeOK, KindInv
<1>4. RootInv'
  <2> SUFFICES ASSUME Without({"overlap", "deleted"}) PROVE RootInv'
    BY <1>1 DEF RootInv, Without
  <2>1. \A r \in Daemons : boot[r].pc \notin {"converting", "stamp"}
    BY <1>1 DEF IInv, RootInv
  <2> QED
    BY <1>1, <1>2, <2>1 DEF IInv, RootInv, Up, Rooted
<1>5. VersionInv' /\ KeptInv'
  BY <1>1, <1>2 DEF IInv, VersionInv, KeptInv, Without, Up
<1>6. AloneInv' /\ OverlayInv' /\ CounterInv'
  BY <1>1 DEF IInv, AloneInv, OverlayInv, CounterInv, CidsDiffer, Without, Booting, Up,
     ReadCid
<1> QED
  BY <1>3, <1>4, <1>5, <1>6 DEF IInv

LEMMA ShipStep ==
  ASSUME IInv, ShipVhdx \/ ShipImg
  PROVE  IInv'
<1>1. /\ UNCHANGED <<qcow, overlay, disk, counter, flock, boot, faults, doubt>>
      /\ img' \in Versions /\ vhdx' \in [version : Versions, stamped : BOOLEAN]
      /\ \/ vhdx' = vhdx
         \/ vhdx'.version = vhdx.version + 1 /\ ~vhdx'.stamped
  <2>1. CASE ShipVhdx
    <3>1. /\ UNCHANGED <<qcow, img, overlay, disk, counter, flock, boot, faults, doubt>>
          /\ vhdx' = [version |-> vhdx.version + 1, stamped |-> FALSE]
          /\ vhdx.version < MaxVhdx
      BY <2>1 DEF ShipVhdx
    <3>2. vhdx.version + 1 \in Versions
      BY <3>1, BoundsAssumption DEF IInv, TypeOK, Versions
    <3> QED
      BY <3>1, <3>2 DEF IInv, TypeOK
  <2>2. CASE ShipImg
    <3>1. /\ UNCHANGED <<vhdx, qcow, overlay, disk, counter, flock, boot, faults, doubt>>
          /\ img' = img + 1 /\ img < MaxImg
      BY <2>2 DEF ShipImg
    <3>2. img + 1 \in Versions
      BY <3>1, BoundsAssumption DEF IInv, TypeOK, Versions
    <3> QED
      BY <3>1, <3>2 DEF IInv, TypeOK
  <2> QED
    BY <2>1, <2>2
<1>2. /\ vhdx.version \in Nat /\ qcow.version \in Nat
      /\ \A d \in Daemons : boot[d].version \in Nat
  BY BoundsAssumption DEF IInv, TypeOK, Boots, Versions
<1>3. TypeOK'
  BY <1>1 DEF IInv, TypeOK
<1>4. KindInv'
  BY <1>1, <1>2 DEF IInv, KindInv
<1>5. RootInv' /\ VersionInv' /\ KeptInv'
  BY <1>1, <1>2 DEF IInv, RootInv, VersionInv, KeptInv, KindInv, Without, Up
<1>6. AloneInv' /\ OverlayInv' /\ CounterInv'
  BY <1>1 DEF IInv, AloneInv, OverlayInv, CounterInv, CidsDiffer, Without, Booting, Up,
     ReadCid
<1> QED
  BY <1>3, <1>4, <1>5, <1>6 DEF IInv

LEMMA DeleteRootStep ==
  ASSUME IInv, DeleteRoot
  PROVE  IInv'
<1>1. /\ UNCHANGED <<vhdx, img, overlay, disk, counter, flock>>
      /\ qcow' = NoQcow /\ boot' = Unlinked /\ faults' \in 0..MaxFaults
      /\ doubt \subseteq doubt' /\ "deleted" \in doubt'
  BY FaultIs DEF DeleteRoot, Doubt, IInv
<1>2. /\ boot' \in [Daemons -> Boots]
      /\ \A r \in Daemons :
            /\ boot'[r].pc = boot[r].pc /\ boot'[r].kind = boot[r].kind
            /\ boot'[r].version = boot[r].version /\ boot'[r].cid = boot[r].cid
            /\ boot'[r].root = boot[r].root
  BY <1>1, UnlinkedIs DEF IInv, TypeOK
<1>3. /\ qcow' \in [state : States, version : Versions, data : BOOLEAN]
      /\ qcow'.version = 0 /\ ~qcow'.data /\ 0 <= vhdx.version
  <2>1. 0 <= vhdx.version
    BY BoundsAssumption DEF IInv, TypeOK, Versions
  <2> QED
    BY <1>1, <2>1, RootRecords
<1>4. TypeOK' /\ KindInv'
  BY <1>1, <1>2, <1>3 DEF IInv, TypeOK, KindInv
<1>5. AloneInv'
  BY <1>1, <1>2, AloneKept DEF IInv
<1>6. RootInv' /\ VersionInv' /\ KeptInv'
  BY <1>1 DEF RootInv, VersionInv, KeptInv, Without
<1>7. OverlayInv'
  BY <1>1, <1>2 DEF IInv, OverlayInv, Without, Up
<1>8. CounterInv'
  BY <1>1, <1>2, CounterKept DEF IInv
<1> QED
  BY <1>4, <1>5, <1>6, <1>7, <1>8 DEF IInv

-----------------------------------------------------------------------------
(* The theorems.                                                           *)

LEMMA InitInv == Init => IInv
<1> SUFFICES ASSUME Init PROVE IInv
  OBVIOUS
<1>1. /\ 0 \in Versions /\ 1 \in Versions /\ 0 \in Cids /\ "absent" \in States
      /\ "whole" \in States /\ 0 \in 0..MaxFaults
  BY BoundsAssumption DEF Versions, Cids, States
<1>2. Idle \in Boots /\ Idle.pc = "idle" /\ ~Idle.linked
  BY <1>1 DEF Idle, Boots
<1>3. /\ boot \in [Daemons -> Boots]
      /\ \A d \in Daemons : boot[d].pc = "idle" /\ ~boot[d].linked
  BY <1>2 DEF Init
<1>4. /\ vhdx \in [version : Versions, stamped : BOOLEAN] /\ ~vhdx.stamped
      /\ vhdx.version \in {0, 1} /\ img \in Versions
  <2>1. /\ img \in {0, 1}
        /\ \/ vhdx = [version |-> 0, stamped |-> FALSE]
           \/ vhdx = [version |-> 1, stamped |-> FALSE]
    BY DEF Init
  <2>2. CASE vhdx = [version |-> 0, stamped |-> FALSE]
    BY <1>1, <2>1, <2>2
  <2>3. CASE vhdx = [version |-> 1, stamped |-> FALSE]
    BY <1>1, <2>1, <2>3
  <2> QED
    BY <2>1, <2>2, <2>3
<1>5. /\ qcow \in [state : States, version : Versions, data : BOOLEAN]
      /\ qcow.version = 0 /\ ~qcow.data
      /\ qcow.state = "absent" \/ (qcow.state = "whole" /\ vhdx.version = 0)
  <2> DEFINE whole == [NoQcow EXCEPT !.state = "whole"]
  <2>1. qcow = NoQcow \/ (qcow = whole /\ vhdx.version = 0)
    <3>1. \/ qcow = NoQcow
          \/ qcow = whole /\ vhdx = [version |-> 0, stamped |-> FALSE]
      BY DEF Init
    <3> HIDE DEF whole
    <3> QED
      BY <3>1
  <2>2. /\ whole \in [state : States, version : Versions, data : BOOLEAN]
        /\ whole.version = 0 /\ ~whole.data /\ whole.state = "whole"
    BY <1>1 DEF NoQcow
  <2> HIDE DEF whole
  <2> QED
    BY <2>1, <2>2, RootRecords
<1>6. overlay \in [state : States, version : Versions] /\ overlay.state = "absent"
  BY <1>1 DEF Init
<1>7. TypeOK
  BY <1>1, <1>3, <1>4, <1>5, <1>6 DEF Init, TypeOK
<1>8. KindInv
  BY <1>3, <1>4, <1>5 DEF KindInv
<1>9. AloneInv /\ RootInv /\ VersionInv /\ KeptInv
  BY <1>3, <1>4, <1>5 DEF AloneInv, RootInv, VersionInv, KeptInv, Booting, Steps, Rooted, Up
<1>10. OverlayInv
  BY <1>3, <1>6 DEF OverlayInv, Rooted, Up
<1>11. CounterInv
  BY <1>3, DaemonsAssumption DEF Init, CounterInv, CidsDiffer, Nobody
<1> QED
  BY <1>7, <1>8, <1>9, <1>10, <1>11 DEF IInv

LEMMA StutterStep == IInv /\ UNCHANGED vars => IInv'
<1> SUFFICES ASSUME IInv, UNCHANGED vars PROVE IInv'
  OBVIOUS
<1>1. UNCHANGED <<vhdx, qcow, img, overlay, disk, counter, flock, boot, faults, doubt>>
  BY DEF vars, files
<1>2. TypeOK' /\ KindInv'
  BY <1>1 DEF IInv, TypeOK, KindInv
<1>3. RootInv' /\ VersionInv' /\ KeptInv'
  BY <1>1 DEF IInv, RootInv, VersionInv, KeptInv, Without, Up
<1>4. AloneInv' /\ OverlayInv' /\ CounterInv'
  BY <1>1 DEF IInv, AloneInv, OverlayInv, CounterInv, CidsDiffer, Without, Booting, Up,
     ReadCid
<1> QED
  BY <1>2, <1>3, <1>4 DEF IInv

LEMMA NextStep == IInv /\ [Next]_vars => IInv'
<1> SUFFICES ASSUME IInv, Next PROVE IInv'
  BY StutterStep
<1>1. ASSUME NEW d \in Daemons, StartVM(d) \/ StopVM(d) \/ GuestWrites(d) \/ Kill(d)
      PROVE  IInv'
  BY <1>1, StartVMStep, EndingStep, GuestWritesStep
<1>2. ASSUME NEW d \in Daemons, Advance(d)
      PROVE  IInv'
  <2>1. CASE FindBundleFails(d) \/ QemuExits(d) \/ UseConverted(d)
    BY <2>1, EndingStep, UseConvertedStep
  <2>2. CASE \/ BeginConversion(d) \/ EndConversion(d) \/ ConversionFails(d)
             \/ appendVhdxCanary(d) \/ StampFails(d)
    BY <2>2, BeginConversionStep, EndConversionStep, ConversionFailsStep, StampStep
  <2>3. CASE UseOverlay(d) \/ BeginOverlay(d) \/ EndOverlay(d) \/ OverlayFails(d)
    BY <2>3, OverlayStep
  <2>4. CASE \/ UseNvram(d) \/ ensureOVMFVars(d)
             \/ UseSessionDisk(d) \/ ensureSessionDataDisk(d)
    BY <2>4, NvramStep, DiskStep
  <2>5. CASE \/ BeginAllocate(d) \/ EndAllocate(d) \/ AllocateFails(d)
             \/ startQEMU(d)
    BY <2>5, BeginAllocateStep, EndAllocateStep, AllocateFailsStep, startQEMUStep
  <2> QED
    BY <1>2, <2>1, <2>2, <2>3, <2>4, <2>5 DEF Advance
<1>3. CASE ShipVhdx \/ ShipImg \/ DeleteRoot
  BY <1>3, ShipStep, DeleteRootStep
<1> QED
  BY <1>1, <1>2, <1>3 DEF Next

\* IInv is inductive, whatever fails and whichever daemon is killed.
THEOREM Inductive == Spec => []IInv
  BY InitInv, NextStep, PTL DEF Spec

\* Everything has its type; a CID is never one of the kernel's, nor beyond the
\* limit, and the counter in the file never holds one.
THEOREM TypeCorrect == Spec => []TypeOK
<1>1. IInv => TypeOK
  BY DEF IInv
<1> QED
  BY <1>1, Inductive, PTL

\* A VM runs on a complete root of the VHDX its boot saw (ensureVHDXConverted,
\* ensureNativeRootOverlay), with the excuses that RunsOnCompleteRoot names.
THEOREM RootsAreComplete == Spec => []RunsOnCompleteRoot
<1>1. IInv => RunsOnCompleteRoot
  <2> SUFFICES ASSUME IInv, NEW d \in Daemons, Up(d),
                      doubt \cap {"overlap", "replaced", "deleted", "overlay"} = {}
               PROVE  /\ boot[d].root = "whole"
                      /\ boot[d].kind = "vhdx" /\ boot[d].linked
                         => qcow.version = boot[d].version
    BY DEF RunsOnCompleteRoot
  <2>1. /\ Without({"overlap", "deleted"}) /\ Without({"overlap", "overlay"})
        /\ Without({"overlap", "deleted", "replaced"})
    BY DEF Without
  <2>2. boot[d].kind \in {"img", "vhdx"}
    BY DEF IInv, TypeOK, Boots
  <2> QED
    BY <2>1, <2>2 DEF IInv, RootInv, OverlayInv, VersionInv, Up
<1> QED
  BY <1>1, Inductive, PTL

\* No two daemons take one CID at a time: allocateCID's lock covers the read and
\* the write of the counter, whichever way the daemons interleave.
THEOREM CidsAreDistinct == Spec => []CidsDiffer
<1>1. IInv => CidsDiffer
  BY DEF IInv, CounterInv, CidsDiffer, Without
<1> QED
  BY <1>1, Inductive, PTL

\* What the guest installed stays until its VHDX is replaced: a root that was
\* converted and stamped is never converted again.
THEOREM DataSurvives == Spec => GuestDataSurvives
<1> DEFINE Kept == qcow.data /\ ~qcow'.data
                   => \/ vhdx.version # qcow.version
                      \/ doubt' \cap {"unstamped", "deleted", "overlap"} # {}
<1>1. IInv /\ [Next]_vars => [Kept]_vars
  <2> SUFFICES ASSUME IInv, Next, qcow.data, ~qcow'.data,
                      doubt' \cap {"unstamped", "deleted", "overlap"} = {}
               PROVE  vhdx.version # qcow.version
    OBVIOUS
  <2>1. \/ \E d \in Daemons : \/ BeginConversion(d) \/ EndConversion(d)
                              \/ ConversionFails(d) \/ GuestWrites(d)
        \/ DeleteRoot \/ UNCHANGED qcow
    <3>1. CASE ShipVhdx \/ ShipImg \/ DeleteRoot
      BY <3>1 DEF ShipVhdx, ShipImg
    <3>2. ASSUME NEW d \in Daemons, StartVM(d) \/ StopVM(d) \/ Kill(d)
          PROVE  UNCHANGED qcow
      BY <3>2 DEF StartVM, StopVM, Kill, files
    <3>3. ASSUME NEW d \in Daemons, \/ FindBundleFails(d) \/ UseConverted(d)
                                   \/ appendVhdxCanary(d) \/ StampFails(d)
                                   \/ UseOverlay(d) \/ BeginOverlay(d)
                                   \/ EndOverlay(d) \/ OverlayFails(d)
          PROVE  UNCHANGED qcow
      BY <3>3 DEF FindBundleFails, UseConverted, appendVhdxCanary, StampFails, UseOverlay,
         BeginOverlay, EndOverlay, OverlayFails, files
    <3>4. ASSUME NEW d \in Daemons, \/ UseNvram(d) \/ ensureOVMFVars(d)
                                   \/ UseSessionDisk(d) \/ ensureSessionDataDisk(d)
                                   \/ BeginAllocate(d) \/ EndAllocate(d)
                                   \/ AllocateFails(d) \/ startQEMU(d) \/ QemuExits(d)
          PROVE  UNCHANGED qcow
      BY <3>4 DEF UseNvram, ensureOVMFVars, UseSessionDisk, ensureSessionDataDisk,
         BeginAllocate, EndAllocate, AllocateFails, startQEMU, QemuExits, files
    <3>5. ASSUME NEW d \in Daemons, Advance(d)
          PROVE  \/ UNCHANGED qcow
                 \/ BeginConversion(d) \/ EndConversion(d) \/ ConversionFails(d)
      BY <3>3, <3>4, <3>5 DEF Advance
    <3> QED
      BY <3>1, <3>2, <3>5 DEF Next
  <2>2. ASSUME NEW d \in Daemons, BeginConversion(d)
        PROVE  vhdx.version # qcow.version
    <3>1. doubt' = doubt /\ vhdx.version # 0 /\ ~Converted
      BY <2>2 DEF BeginConversion
    <3>2. ~vhdx.stamped /\ qcow.state = "whole"
      BY <3>1 DEF Converted, IInv, KindInv
    <3>3. \A r \in Daemons : boot[r].pc # "stamp"
      BY <3>1 DEF IInv, RootInv, Without
    <3> QED
      BY <3>1, <3>2, <3>3 DEF IInv, KeptInv, Without
  <2>3. ASSUME NEW d \in Daemons, EndConversion(d) \/ ConversionFails(d)
        PROVE  FALSE
    BY <2>3 DEF EndConversion, ConversionFails, At, IInv, RootInv, Without
  <2>4. ASSUME NEW d \in Daemons, GuestWrites(d)
        PROVE  FALSE
    BY <2>4 DEF GuestWrites, IInv, TypeOK
  <2>5. CASE DeleteRoot
    BY <2>5 DEF DeleteRoot, Doubt
  <2> QED
    BY <2>1, <2>2, <2>3, <2>4, <2>5
<1> QED
  BY <1>1, Inductive, PTL DEF Spec, GuestDataSurvives

-----------------------------------------------------------------------------
(* The directories the host shares.                                        *)

\* A call in the table of pending calls has a channel nobody has closed.
PendingInv == \A c \in pending : answer[c] = "open"

\* The request the helper mounts for is one whose path is not bound; it remounts
\* for a request to read only.
MountingInv ==
    helper \in {"mounting", "remounting"} =>
        /\ job \in Binder
        /\ pathOf(job) \notin binds

\* A bound path is mounted in a mode somebody asked for, or one that lets the
\* guest do less.
BoundAsAsked ==
    \A p \in binds :
        \/ share[p] = "ro"
        \/ share[p] = "rw" /\ \E c \in Binder : want[c] = <<p, "rw">>

\* The path is bound, needs no mount, or has lost its mount to the end of the
\* helper.  It remains so in every step.
Settled(p) == p \in File \/ p \in binds \/ stopping \/ helper = "exited"

HonestLine ==
    {line \in {Ready} \union ({"ok", "error"} \X Call) :
        \A c \in Binder : line = <<"ok", c>> => Settled(pathOf(c))}

\* An "ok" is true on its way to the daemon,
RepliesInv == replies \in Seq(HonestLine)

\* in the channel of its call, in the call,
CallsInv ==
    \A c \in Binder : answer[c] = "ok" \/ call[c] = "accepted" => Settled(pathOf(c))

\* and once it is recorded.
ActiveInv == \A p \in active : Settled(p)

ShareInv == VfsTypeOK /\ PendingInv /\ MountingInv /\ BoundAsAsked
            /\ RepliesInv /\ CallsInv /\ ActiveInv

-----------------------------------------------------------------------------
LEMMA SeqOfMore ==
    ASSUME NEW S, NEW T, S \subseteq T, NEW s \in Seq(S)
    PROVE  s \in Seq(T)
  <1>1. s \in [1 .. Len(s) -> S] /\ Len(s) \in Nat
    OBVIOUS
  <1>2. s \in [1 .. Len(s) -> T]
    BY <1>1
  <1> QED
    BY <1>1, <1>2

\* The lines of the helper that the daemon gets hold of.
LEMMA SomeOfThem ==
    ASSUME NEW S, NEW s \in Seq(S), NEW n \in 0 .. Len(s)
    PROVE  SubSeq(s, 1, n) \in Seq(S)
  OBVIOUS

LEMMA ReplyIsLine ==
    ASSUME NEW c \in Call, NEW result \in {"ok", "error"}
    PROVE  Reply(c, result) \in {Ready} \union ({"ok", "error"} \X Call)
  BY DEF Reply

\* What each step does to the types.
LEMMA VfsTypeStep ==
    ASSUME VfsTypeOK, PendingInv, MountingInv, [VfsNext]_vfsVars
    PROVE  VfsTypeOK'
  <1> USE VfsAssumption DEF VfsTypeOK, Call, pathOf, modeOf
  <1> DEFINE Line == {Ready} \union ({"ok", "error"} \X Call)
  <1>1. CASE StartSucceeds
    BY <1>1 DEF StartSucceeds, callVars, helperVars
  <1>2. CASE StartFails
    BY <1>2 DEF StartFails, callVars, helperVars
  <1>3. ASSUME NEW c \in Binder, BeginBind(c) PROVE VfsTypeOK'
    BY <1>3 DEF BeginBind, CallGoesTo, hostVars, helperVars
  <1>4. ASSUME NEW c \in Binder, Record(c) PROVE VfsTypeOK'
    BY <1>4 DEF Record, CallGoesTo, hostVars, helperVars
  <1>5. ASSUME NEW c \in Call, Register(c) PROVE VfsTypeOK'
    BY <1>5 DEF Register, CallGoesTo, hostVars, helperVars
  <1>6. ASSUME NEW c \in Call, WriteRequest(c) PROVE VfsTypeOK'
    BY <1>6 DEF WriteRequest, CallGoesTo, hostVars, helperVars
  <1>7. ASSUME NEW c \in Call, WriteFails(c) PROVE VfsTypeOK'
    BY <1>7 DEF WriteFails, CallGoesTo, hostVars, helperVars
  <1>8. ASSUME NEW c \in Call, TakeAnswer(c) PROVE VfsTypeOK'
    BY <1>8 DEF TakeAnswer, CallGoesTo, hostVars, helperVars
  <1>9. ASSUME NEW c \in Call, Timeout(c) PROVE VfsTypeOK'
    BY <1>9 DEF Timeout, CallGoesTo, hostVars, helperVars
  <1>10. CASE HandleLine
    <2>1. /\ Head(replies) \in Line /\ replies' \in Seq(Line)
      BY <1>10 DEF HandleLine
    <2>2. answer' \in [Call -> {"none", "open", "ok", "error"}] /\ pending' \subseteq Call
      <3>1. CASE UNCHANGED <<answer, pending>>
        BY <3>1
      <3>2. ASSUME Head(replies) # Ready, Head(replies)[2] \in pending,
                   TakePending(Head(replies)[2]),
                   answer' = Answered(Head(replies)[2], Head(replies)[1])
            PROVE  answer' \in [Call -> {"none", "open", "ok", "error"}] /\ pending' \subseteq Call
        <4>1. answer[Head(replies)[2]] = "open"
          BY <3>2 DEF PendingInv
        <4>2. Head(replies)[1] \in {"ok", "error"}
          BY <2>1, <3>2
        <4> QED
          BY <3>2, <4>1, <4>2 DEF TakePending, Answered
      <3> QED
        BY <1>10, <3>1, <3>2 DEF HandleLine
    <2>3. ready' \in BOOLEAN
      BY <1>10 DEF HandleLine
    <2>4. UNCHANGED <<want, call, active, starter, stopper, watcher, stdin, requests, helperVars, virtiofsd>>
      BY <1>10 DEF HandleLine
    <2> QED
      BY <2>1, <2>2, <2>3, <2>4 DEF helperVars
  <1>11. CASE WaitReturns
    <2>1. replies' \in Seq(Line)
      BY <1>11, SomeOfThem DEF WaitReturns
    <2> QED
      BY <1>11, <2>1 DEF WaitReturns, callVars, helperVars
  <1>12. CASE Drain
    <2>1. answer' \in [Call -> {"none", "open", "ok", "error"}]
      BY <1>12 DEF Drain, PendingInv
    <2> QED
      BY <1>12, <2>1 DEF Drain, helperVars
  <1>13. CASE BeginStop
    <2>1. starter' \in {"waiting", "ready", "failed"}
      BY <1>13 DEF BeginStop
    <2>2. /\ call' \in [Call -> {"idle", "checked", "registered", "waiting", "accepted", "failed", "done"}]
          /\ stopper' = "asking"
      BY <1>13 DEF BeginStop, StopperGoesTo
    <2>3. UNCHANGED <<want, answer, pending, active, ready, watcher, stdin, requests, replies, helperVars,
                      virtiofsd>>
      BY <1>13 DEF BeginStop
    <2> QED
      BY <2>1, <2>2, <2>3 DEF helperVars
  <1>14. CASE Stopping
    <2>1. CASE CloseStdin
      <3>1. stopper' = "waiting" /\ stdin' \in BOOLEAN
        BY <2>1 DEF CloseStdin, StopperGoesTo
      <3>2. UNCHANGED <<want, call, answer, pending, active, starter, ready, watcher, requests, replies,
                        helper, job, announcer, sigterm, stopping, binds, share, virtiofsd>>
        BY <2>1 DEF CloseStdin, callVars, helperVars
      <3> QED
        BY <3>1, <3>2
    <2>2. CASE StopReturns
      BY <2>2 DEF StopReturns, callVars, helperVars
    <2>3. CASE Terminate
      BY <2>3 DEF Terminate, StopperGoesTo, callVars
    <2>4. CASE KillHelper
      BY <2>4 DEF KillHelper, StopperGoesTo, callVars
    <2> QED
      BY <1>14, <2>1, <2>2, <2>3, <2>4 DEF Stopping
  <1>15. CASE AnnounceReady
    BY <1>15 DEF AnnounceReady, Says, HostSees, callVars, hostVars
  <1>16. CASE GiveUp
    BY <1>16 DEF GiveUp, HostSees, callVars, hostVars
  <1>17. ASSUME NEW c \in Call, SkipBind(c) PROVE VfsTypeOK'
    <2>1. replies' \in Seq(Line)
      BY <1>17, ReplyIsLine DEF SkipBind, Says
    <2> QED
      BY <1>17, <2>1 DEF SkipBind, NextIs, HostSees, callVars, hostVars, helperVars
  <1>18. ASSUME NEW c \in Call, TakeBind(c) PROVE VfsTypeOK'
    BY <1>18 DEF TakeBind, NextIs, HostSees, callVars, hostVars
  <1>19. CASE TakeStop
    <2>1. replies' \in Seq(Line)
      BY <1>19, ReplyIsLine DEF TakeStop, Says
    <2> QED
      BY <1>19, <2>1 DEF TakeStop, NextIs, doStop, HostSees, callVars, hostVars
  <1>20. CASE EndServing
    BY <1>20 DEF EndServing, HelperGoesTo, doStop, HostSees, callVars, hostVars
  <1>21. CASE ExitAfterVirtiofsd
    BY <1>21 DEF ExitAfterVirtiofsd, HostSees, callVars, hostVars
  <1>22. CASE MountFails
    <2>1. replies' \in Seq(Line)
      BY <1>22, ReplyIsLine DEF MountFails, Says
    <2> QED
      BY <1>22, <2>1 DEF MountFails, HelperGoesTo, HostSees, callVars, hostVars
  <1>23. CASE Mount
    <2>1. job \in Binder
      BY <1>23 DEF Mount, MountingInv
    <2>2. replies' \in Seq(Line)
      <3>1. Reply(job, "ok") \in Line
        BY ReplyIsLine
      <3>2. replies' = replies \/ replies' = Append(replies, Reply(job, "ok"))
        BY <1>23 DEF Mount, Says
      <3> QED
        BY <3>1, <3>2, SMTT(30)
    <2> QED
      BY <1>23, <2>1, <2>2 DEF Mount, HostSees, callVars, hostVars
  <1>24. CASE Remount
    <2>1. job \in Binder
      BY <1>24 DEF Remount, HelperGoesTo, MountingInv
    <2>2. replies' \in Seq(Line)
      BY <1>24, ReplyIsLine DEF Remount, Says
    <2> QED
      BY <1>24, <2>1, <2>2 DEF Remount, HelperGoesTo, HostSees, callVars, hostVars
  <1>25. CASE RemountFails
    <2>1. replies' \in Seq(Line)
      BY <1>25, ReplyIsLine DEF RemountFails, Says
    <2> QED
      BY <1>25, <2>1 DEF RemountFails, HelperGoesTo, HostSees, callVars, hostVars
  <1>26. CASE VirtiofsdExits
    BY <1>26 DEF VirtiofsdExits, HostSees, callVars, hostVars, helperVars
  <1>27. CASE UNCHANGED vfsVars
    BY <1>27 DEF vfsVars, callVars, hostVars, helperVars
  <1> QED
    BY <1>1, <1>2, <1>3, <1>4, <1>5, <1>6, <1>7, <1>8, <1>9, <1>10, <1>11, <1>12, <1>13, <1>14,
       <1>15, <1>16, <1>17, <1>18, <1>19, <1>20, <1>21, <1>22, <1>23, <1>24, <1>25, <1>26, <1>27
       DEF VfsNext, Send, Serving, Mounting

-----------------------------------------------------------------------------
(* Which steps touch what.                                                 *)

\* Nobody changes its mind.
LEMMA WantIsKept ==
    ASSUME [VfsNext]_vfsVars
    PROVE  want' = want
  <1> USE DEF callVars, HostSees
  <1>1. ASSUME NEW c \in Call, \/ BeginBind(c) \/ Record(c) \/ Send(c) \/ Timeout(c)
        PROVE  want' = want
    BY <1>1 DEF BeginBind, Record, Send, Register, WriteRequest, WriteFails, TakeAnswer, Timeout
  <1>2. CASE StartSucceeds \/ StartFails \/ HandleLine \/ WaitReturns \/ Drain \/ BeginStop
    BY <1>2 DEF StartSucceeds, StartFails, HandleLine, WaitReturns, Drain, BeginStop
  <1>3. CASE Stopping
    BY <1>3 DEF Stopping, CloseStdin, StopReturns, Terminate, KillHelper
  <1>4. CASE AnnounceReady \/ GiveUp \/ Serving \/ VirtiofsdExits
    BY <1>4 DEF AnnounceReady, GiveUp, Serving, SkipBind, TakeBind, TakeStop, EndServing,
                ExitAfterVirtiofsd, VirtiofsdExits
  <1>5. CASE Mounting
    BY <1>5 DEF Mounting, MountFails, Mount, Remount, RemountFails
  <1> QED
    BY <1>1, <1>2, <1>3, <1>4, <1>5 DEF VfsNext, vfsVars, Call

\* The helper works on the shared root alone, and can be killed.
LEMMA HelperIsAlone ==
    ASSUME [VfsNext]_vfsVars
    PROVE  UNCHANGED <<helper, job, stopping, binds, share>> \/ KillHelper \/ Serving \/ Mounting
  <1> USE DEF helperVars
  <1>1. ASSUME NEW c \in Call, \/ BeginBind(c) \/ Record(c) \/ Send(c) \/ Timeout(c)
        PROVE  UNCHANGED <<helper, job, stopping, binds, share>>
    BY <1>1 DEF BeginBind, Record, Send, Register, WriteRequest, WriteFails, TakeAnswer, Timeout
  <1>2. CASE StartSucceeds \/ StartFails \/ HandleLine \/ WaitReturns \/ Drain \/ BeginStop
    BY <1>2 DEF StartSucceeds, StartFails, HandleLine, WaitReturns, Drain, BeginStop
  <1>3. CASE Stopping
    BY <1>3 DEF Stopping, CloseStdin, StopReturns, Terminate
  <1>4. CASE AnnounceReady \/ GiveUp \/ VirtiofsdExits
    BY <1>4 DEF AnnounceReady, GiveUp, VirtiofsdExits
  <1> QED
    BY <1>1, <1>2, <1>3, <1>4 DEF VfsNext, vfsVars, Call

\* A channel is made, answered by the reader, or by the watcher.
LEMMA AnswersComeFrom ==
    ASSUME [VfsNext]_vfsVars
    PROVE  \/ UNCHANGED answer
           \/ \E c \in Call : Register(c)
           \/ HandleLine
           \/ Drain
  <1> USE DEF callVars, HostSees
  <1>1. ASSUME NEW c \in Call, \/ BeginBind(c) \/ Record(c) \/ Send(c) \/ Timeout(c), ~Register(c)
        PROVE  UNCHANGED answer
    BY <1>1 DEF BeginBind, Record, Send, WriteRequest, WriteFails, TakeAnswer, Timeout
  <1>2. CASE StartSucceeds \/ StartFails \/ WaitReturns \/ BeginStop
    BY <1>2 DEF StartSucceeds, StartFails, WaitReturns, BeginStop
  <1>3. CASE Stopping
    BY <1>3 DEF Stopping, CloseStdin, StopReturns, Terminate, KillHelper
  <1>4. CASE AnnounceReady \/ GiveUp \/ Serving \/ VirtiofsdExits
    BY <1>4 DEF AnnounceReady, GiveUp, Serving, SkipBind, TakeBind, TakeStop, EndServing,
                ExitAfterVirtiofsd, VirtiofsdExits
  <1>5. CASE Mounting
    BY <1>5 DEF Mounting, MountFails, Mount, Remount, RemountFails
  <1> QED
    BY <1>1, <1>2, <1>3, <1>4, <1>5 DEF VfsNext, vfsVars, Call

\* The table of pending calls grows in Register alone.
LEMMA PendingComesFrom ==
    ASSUME [VfsNext]_vfsVars
    PROVE  pending' \subseteq pending \/ \E c \in Call : Register(c)
  <1> USE DEF callVars, HostSees
  <1>1. ASSUME NEW c \in Call, \/ BeginBind(c) \/ Record(c) \/ Send(c) \/ Timeout(c), ~Register(c)
        PROVE  pending' \subseteq pending
    BY <1>1 DEF BeginBind, Record, Send, WriteRequest, WriteFails, TakeAnswer, Timeout
  <1>2. CASE StartSucceeds \/ StartFails \/ WaitReturns \/ BeginStop \/ Drain
    BY <1>2 DEF StartSucceeds, StartFails, WaitReturns, BeginStop, Drain
  <1>3. CASE HandleLine
    BY <1>3 DEF HandleLine, TakePending
  <1>4. CASE Stopping
    BY <1>4 DEF Stopping, CloseStdin, StopReturns, Terminate, KillHelper
  <1>5. CASE AnnounceReady \/ GiveUp \/ Serving \/ VirtiofsdExits
    BY <1>5 DEF AnnounceReady, GiveUp, Serving, SkipBind, TakeBind, TakeStop, EndServing,
                ExitAfterVirtiofsd, VirtiofsdExits
  <1>6. CASE Mounting
    BY <1>6 DEF Mounting, MountFails, Mount, Remount, RemountFails
  <1> QED
    BY <1>1, <1>2, <1>3, <1>4, <1>5, <1>6 DEF VfsNext, vfsVars, Call

\* A call is accepted when its channel says so.
LEMMA AcceptanceComesFrom ==
    ASSUME VfsTypeOK, [VfsNext]_vfsVars, NEW c \in Call, call'[c] = "accepted"
    PROVE  call[c] = "accepted" \/ answer[c] = "ok"
  <1> USE VfsAssumption DEF callVars, HostSees, VfsTypeOK, Call
  <1>1. ASSUME NEW d \in Call, \/ BeginBind(d) \/ Record(d) \/ Send(d) \/ Timeout(d)
        PROVE  call[c] = "accepted" \/ answer[c] = "ok"
    BY <1>1 DEF BeginBind, Record, Send, Register, WriteRequest, WriteFails, TakeAnswer, Timeout, CallGoesTo
  <1>2. CASE BeginStop
    BY <1>2 DEF BeginStop
  <1>3. CASE StartSucceeds \/ StartFails \/ HandleLine \/ WaitReturns \/ Drain
    BY <1>3 DEF StartSucceeds, StartFails, HandleLine, WaitReturns, Drain
  <1>4. CASE Stopping
    BY <1>4 DEF Stopping, CloseStdin, StopReturns, Terminate, KillHelper
  <1>5. CASE AnnounceReady \/ GiveUp \/ Serving \/ VirtiofsdExits
    BY <1>5 DEF AnnounceReady, GiveUp, Serving, SkipBind, TakeBind, TakeStop, EndServing,
                ExitAfterVirtiofsd, VirtiofsdExits
  <1>6. CASE Mounting
    BY <1>6 DEF Mounting, MountFails, Mount, Remount, RemountFails
  <1> QED
    BY <1>1, <1>2, <1>3, <1>4, <1>5, <1>6 DEF VfsNext, vfsVars

\* The helper alone writes lines, and the daemon takes or loses them.
LEMMA RepliesComeFrom ==
    ASSUME [VfsNext]_vfsVars
    PROVE  \/ UNCHANGED replies
           \/ HandleLine \/ WaitReturns \/ AnnounceReady \/ Serving \/ Mounting
  <1>1. ASSUME NEW c \in Call, \/ BeginBind(c) \/ Record(c) \/ Send(c) \/ Timeout(c)
        PROVE  UNCHANGED replies
    BY <1>1 DEF BeginBind, Record, Send, Register, WriteRequest, WriteFails, TakeAnswer, Timeout
  <1>2. CASE StartSucceeds \/ StartFails \/ Drain \/ BeginStop \/ GiveUp \/ VirtiofsdExits
    BY <1>2 DEF StartSucceeds, StartFails, Drain, BeginStop, GiveUp, VirtiofsdExits
  <1>3. CASE Stopping
    BY <1>3 DEF Stopping, CloseStdin, StopReturns, Terminate, KillHelper
  <1> QED
    BY <1>1, <1>2, <1>3 DEF VfsNext, vfsVars, Call

\* A path is recorded by a call that was accepted.
LEMMA ActiveComesFrom ==
    ASSUME [VfsNext]_vfsVars
    PROVE  UNCHANGED active \/ \E c \in Binder : Record(c)
  <1> USE DEF callVars, HostSees
  <1>1. ASSUME NEW c \in Call, \/ BeginBind(c) \/ Send(c) \/ Timeout(c)
        PROVE  UNCHANGED active
    BY <1>1 DEF BeginBind, Send, Register, WriteRequest, WriteFails, TakeAnswer, Timeout
  <1>2. CASE StartSucceeds \/ StartFails \/ HandleLine \/ WaitReturns \/ Drain \/ BeginStop
    BY <1>2 DEF StartSucceeds, StartFails, HandleLine, WaitReturns, Drain, BeginStop
  <1>3. CASE Stopping
    BY <1>3 DEF Stopping, CloseStdin, StopReturns, Terminate, KillHelper
  <1>4. CASE AnnounceReady \/ GiveUp \/ Serving \/ VirtiofsdExits
    BY <1>4 DEF AnnounceReady, GiveUp, Serving, SkipBind, TakeBind, TakeStop, EndServing,
                ExitAfterVirtiofsd, VirtiofsdExits
  <1>5. CASE Mounting
    BY <1>5 DEF Mounting, MountFails, Mount, Remount, RemountFails
  <1> QED
    BY <1>1, <1>2, <1>3, <1>4, <1>5 DEF VfsNext, vfsVars, Call

-----------------------------------------------------------------------------
(* The parts of the invariant.                                             *)

LEMMA SettledStays ==
    ASSUME [VfsNext]_vfsVars, NEW p, Settled(p)
    PROVE  Settled(p)'
  <1> USE DEF Settled
  <1>1. CASE UNCHANGED <<helper, job, stopping, binds, share>>
    BY <1>1
  <1>2. CASE KillHelper
    BY <1>2 DEF KillHelper
  <1>3. CASE Serving
    BY <1>3 DEF Serving, SkipBind, TakeBind, NextIs, TakeStop, EndServing, HelperGoesTo, doStop,
                ExitAfterVirtiofsd, helperVars
  <1>4. CASE Mounting
    BY <1>4 DEF Mounting, MountFails, Mount, Remount, RemountFails, HelperGoesTo
  <1> QED
    BY <1>1, <1>2, <1>3, <1>4, HelperIsAlone

LEMMA PendingStep ==
    ASSUME VfsTypeOK, PendingInv, [VfsNext]_vfsVars
    PROVE  PendingInv'
  <1> SUFFICES ASSUME NEW c \in pending' PROVE answer'[c] = "open"
    BY DEF PendingInv
  <1>1. ASSUME NEW d \in Call, Register(d) PROVE answer'[c] = "open"
    BY <1>1 DEF Register, PendingInv, VfsTypeOK
  <1>2. ASSUME c \in pending PROVE answer'[c] = "open"
    <2>1. answer[c] = "open" /\ c \in Call
      BY <1>2 DEF PendingInv, VfsTypeOK
    <2>2. CASE HandleLine
      BY <2>1, <2>2 DEF HandleLine, TakePending, Answered, VfsTypeOK
    <2>3. CASE Drain
      BY <2>3 DEF Drain
    <2> QED
      BY <1>1, <2>1, <2>2, <2>3, AnswersComeFrom
  <1> QED
    BY <1>1, <1>2, PendingComesFrom

LEMMA MountingStep ==
    ASSUME MountingInv, [VfsNext]_vfsVars
    PROVE  MountingInv'
  <1>1. want' = want
    BY WantIsKept
  <1> USE DEF MountingInv, pathOf
  <1>2. CASE UNCHANGED <<helper, job, stopping, binds, share>>
    BY <1>1, <1>2
  <1>3. CASE KillHelper
    BY <1>3 DEF KillHelper
  <1>4. CASE Serving
    BY <1>1, <1>4 DEF Serving, SkipBind, TakeBind, NothingToMount, NextIs, TakeStop, EndServing, HelperGoesTo,
                      ExitAfterVirtiofsd, helperVars
  <1>5. CASE Mounting
    BY <1>1, <1>5 DEF Mounting, MountFails, Mount, Remount, RemountFails, HelperGoesTo
  <1> QED
    BY <1>2, <1>3, <1>4, <1>5, HelperIsAlone

LEMMA BoundStep ==
    ASSUME VfsTypeOK, MountingInv, BoundAsAsked, [VfsNext]_vfsVars
    PROVE  BoundAsAsked'
  <1>1. want' = want
    BY WantIsKept
  <1>2. CASE UNCHANGED <<helper, job, stopping, binds, share>>
    BY <1>1, <1>2 DEF BoundAsAsked
  <1>3. CASE KillHelper
    BY <1>1, <1>3 DEF KillHelper, BoundAsAsked
  <1>4. CASE Serving
    <2>1. binds' = {} \/ UNCHANGED <<binds, share>>
      BY <1>4 DEF Serving, SkipBind, TakeBind, TakeStop, EndServing, doStop, ExitAfterVirtiofsd, helperVars
    <2> QED
      BY <1>1, <2>1 DEF BoundAsAsked
  <1>5. CASE MountFails \/ RemountFails
    BY <1>1, <1>5 DEF MountFails, RemountFails, BoundAsAsked
  <1>6. CASE Mount
    <2>1. job \in Binder /\ pathOf(job) \notin binds /\ pathOf(job) \in Path
      BY <1>6 DEF Mount, MountingInv, VfsTypeOK, pathOf
    <2>2. share' = [share EXCEPT ![pathOf(job)] = "rw"] /\ share \in [Path -> {"none", "rw", "ro"}]
      BY <1>6 DEF Mount, VfsTypeOK
    <2>3. CASE modeOf(job) = "ro"
      BY <1>1, <1>6, <2>1, <2>2, <2>3 DEF Mount, BoundAsAsked, VfsTypeOK
    <2>4. CASE modeOf(job) # "ro"
      <3>1. want[job] = <<pathOf(job), "rw">>
        BY <2>1, <2>4 DEF VfsTypeOK, pathOf, modeOf
      <3>2. binds' = binds \union {pathOf(job)}
        BY <1>6, <2>4 DEF Mount
      <3>3. \A p \in binds : p \in Path /\ share'[p] = share[p]
        BY <2>1, <2>2 DEF VfsTypeOK
      <3>4. share'[pathOf(job)] = "rw"
        BY <2>1, <2>2
      <3> QED
        BY <1>1, <2>1, <3>1, <3>2, <3>3, <3>4 DEF BoundAsAsked
    <2> QED
      BY <2>3, <2>4
  <1>7. CASE Remount
    <2>1. job \in Binder /\ pathOf(job) \notin binds /\ pathOf(job) \in Path
      BY <1>7 DEF Remount, HelperGoesTo, MountingInv, VfsTypeOK, pathOf
    <2>2. /\ share' = [share EXCEPT ![pathOf(job)] = "ro"] /\ share \in [Path -> {"none", "rw", "ro"}]
          /\ binds' = binds \union {pathOf(job)} /\ binds \subseteq Path
      BY <1>7 DEF Remount, VfsTypeOK
    <2> QED
      BY <1>1, <2>1, <2>2 DEF BoundAsAsked
  <1> QED
    BY <1>2, <1>3, <1>4, <1>5, <1>6, <1>7, HelperIsAlone DEF Mounting

\* A line that is honest stays so.
LEMMA HonestStays ==
    ASSUME [VfsNext]_vfsVars
    PROVE  HonestLine \subseteq HonestLine'
  <1>1. want' = want
    BY WantIsKept
  <1> SUFFICES ASSUME NEW line \in HonestLine PROVE line \in HonestLine'
    OBVIOUS
  <1>2. ASSUME NEW c \in Binder, line = <<"ok", c>> PROVE Settled(pathOf(c))'
    <2>1. Settled(pathOf(c))
      BY <1>2 DEF HonestLine
    <2> QED
      BY <1>1, <2>1, SettledStays DEF pathOf, Settled
  <1> QED
    BY <1>2 DEF HonestLine, Call, Ready

\* What the helper says after a step that settles the path.
LEMMA HonestReply ==
    ASSUME NEW c \in Call, NEW result \in {"ok", "error"},
           c \in Binder /\ result = "ok" => Settled(pathOf(c))'
    PROVE  Reply(c, result) \in HonestLine'
  BY DEF HonestLine, Reply, Ready, Call

LEMMA RepliesStep ==
    ASSUME VfsTypeOK, MountingInv, RepliesInv, [VfsNext]_vfsVars
    PROVE  RepliesInv'
  <1>1. want' = want
    BY WantIsKept
  <1>2. replies \in Seq(HonestLine')
    <2> HIDE DEF HonestLine
    <2> QED
      BY HonestStays, SeqOfMore DEF RepliesInv
  <1>3. ASSUME NEW line \in HonestLine', Says(line) PROVE RepliesInv'
    <2> HIDE DEF HonestLine
    <2> QED
      BY <1>2, <1>3 DEF Says, RepliesInv
  <1>4. CASE UNCHANGED replies
    BY <1>2, <1>4 DEF RepliesInv
  <1>5. CASE HandleLine
    <2> HIDE DEF HonestLine
    <2> QED
      BY <1>2, <1>5 DEF HandleLine, RepliesInv
  <1>6. CASE WaitReturns
    <2> HIDE DEF HonestLine
    <2> QED
      BY <1>2, <1>6, SomeOfThem DEF WaitReturns, RepliesInv
  <1>7. CASE AnnounceReady
    <2>1. Ready \in HonestLine'
      BY DEF HonestLine, Ready
    <2> QED
      BY <1>3, <1>7, <2>1 DEF AnnounceReady
  <1>8. ASSUME NEW c \in Call, SkipBind(c) PROVE RepliesInv'
    <2>1. Settled(pathOf(c))'
      BY <1>1, <1>8 DEF SkipBind, NothingToMount, Settled, pathOf, helperVars
    <2>2. Reply(c, "ok") \in HonestLine'
      BY <2>1, HonestReply
    <2> QED
      BY <1>3, <1>8, <2>2 DEF SkipBind
  <1>9. CASE TakeStop
    <2>1. Reply(Stop, "ok") \in HonestLine'
      BY VfsAssumption, HonestReply DEF Call
    <2> QED
      BY <1>3, <1>9, <2>1 DEF TakeStop
  <1>10. CASE MountFails \/ RemountFails
    <2>1. Reply(job, "error") \in HonestLine'
      BY HonestReply DEF VfsTypeOK
    <2> QED
      BY <1>3, <1>10, <2>1 DEF MountFails, RemountFails
  <1>11. ASSUME job \in Call, binds' = binds \union {pathOf(job)}, Says(Reply(job, "ok"))
         PROVE  RepliesInv'
    <2>1. \A c \in Binder : c = job => Settled(pathOf(c))'
      BY <1>1, <1>11 DEF Settled, pathOf
    <2>2. Reply(job, "ok") \in HonestLine'
      BY <1>11, <2>1, HonestReply
    <2> QED
      BY <1>3, <1>11, <2>2
  <1>12. CASE Mount
    BY <1>4, <1>11, <1>12 DEF Mount, VfsTypeOK
  <1>13. CASE Remount
    BY <1>11, <1>13 DEF Remount, VfsTypeOK
  <1>14. CASE Serving
    BY <1>4, <1>8, <1>9, <1>14 DEF Serving, TakeBind, EndServing, ExitAfterVirtiofsd
  <1> QED
    BY <1>4, <1>5, <1>6, <1>7, <1>10, <1>12, <1>13, <1>14, RepliesComeFrom DEF Mounting

LEMMA CallsStep ==
    ASSUME VfsTypeOK, PendingInv, RepliesInv, CallsInv, [VfsNext]_vfsVars
    PROVE  CallsInv'
  <1>1. want' = want
    BY WantIsKept
  <1> SUFFICES ASSUME NEW c \in Binder, answer'[c] = "ok" \/ call'[c] = "accepted"
               PROVE  Settled(pathOf(c))
    BY <1>1, SettledStays DEF CallsInv, pathOf, Settled
  <1>2. c \in Call
    BY DEF Call
  <1>3. CASE answer[c] = "ok" \/ call[c] = "accepted"
    BY <1>3 DEF CallsInv
  <1>4. CASE answer'[c] = "ok" /\ answer[c] # "ok"
    <2>1. ~ \E d \in Call : Register(d)
      BY <1>2, <1>4 DEF Register, VfsTypeOK
    <2>2. ~ Drain
      BY <1>2, <1>4 DEF Drain, VfsTypeOK
    <2>3. HandleLine
      BY <1>4, <2>1, <2>2, AnswersComeFrom
    <2>4. Head(replies) \in HonestLine
      <3> HIDE DEF HonestLine
      <3> QED
        BY <2>3 DEF HandleLine, RepliesInv
    <2>5. Head(replies) \in {"ok", "error"} \X Call /\ Head(replies) = <<"ok", c>>
      <3>1. Head(replies) # Ready /\ answer' = Answered(Head(replies)[2], Head(replies)[1])
        BY <1>4, <2>3 DEF HandleLine
      <3>2. Head(replies) \in {"ok", "error"} \X Call
        BY <2>4, <3>1 DEF HonestLine
      <3>3. Head(replies)[2] = c /\ Head(replies)[1] = "ok"
        BY <1>2, <1>4, <3>1, <3>2 DEF Answered, VfsTypeOK
      <3> QED
        BY <3>2, <3>3
    <2> QED
      BY <2>4, <2>5 DEF HonestLine
  <1> QED
    BY <1>2, <1>3, <1>4, AcceptanceComesFrom DEF CallsInv

LEMMA ActiveStep ==
    ASSUME VfsTypeOK, CallsInv, ActiveInv, [VfsNext]_vfsVars
    PROVE  ActiveInv'
  <1> SUFFICES ASSUME NEW p \in active' PROVE Settled(p)
    BY SettledStays DEF ActiveInv
  <1>1. ASSUME NEW c \in Binder, Record(c) PROVE Settled(p)
    <2>1. Settled(pathOf(c))
      BY <1>1 DEF Record, CallGoesTo, CallsInv
    <2>2. p \in active \/ p = pathOf(c)
      BY <1>1 DEF Record
    <2> QED
      BY <2>1, <2>2 DEF ActiveInv
  <1> QED
    BY <1>1, ActiveComesFrom DEF ActiveInv

-----------------------------------------------------------------------------
(* The theorems.                                                           *)

\* What the daemon and the helper believe of the shared root is an invariant.
THEOREM ShareInductive == VfsSpec => []ShareInv
  <1>1. VfsInit => ShareInv
    <2> SUFFICES ASSUME VfsInit PROVE ShareInv
      OBVIOUS
    <2>1. VfsTypeOK
      <3>1. /\ call \in [Call -> {"idle", "checked", "registered", "waiting", "accepted", "failed", "done"}]
            /\ answer \in [Call -> {"none", "open", "ok", "error"}]
            /\ share \in [Path -> {"none", "rw", "ro"}]
            /\ want \in [Binder -> Path \X {"rw", "ro"}]
        BY DEF VfsInit
      <3>2. /\ requests \in Seq(Call)
            /\ replies \in Seq({Ready} \union ({"ok", "error"} \X Call))
        BY DEF VfsInit
      <3> QED
        BY <3>1, <3>2 DEF VfsInit, VfsTypeOK, Call
    <2>2. PendingInv /\ MountingInv /\ BoundAsAsked /\ ActiveInv
      BY DEF VfsInit, PendingInv, MountingInv, BoundAsAsked, ActiveInv
    <2>3. RepliesInv
      BY DEF VfsInit, RepliesInv
    <2>4. CallsInv
      BY DEF VfsInit, CallsInv, Call
    <2> QED
      BY <2>1, <2>2, <2>3, <2>4 DEF ShareInv
  <1>2. ShareInv /\ [VfsNext]_vfsVars => ShareInv'
    BY VfsTypeStep, PendingStep, MountingStep, BoundStep, RepliesStep, CallsStep, ActiveStep DEF ShareInv
  <1> QED
    BY <1>1, <1>2, PTL DEF VfsSpec

\* The types, which say that no channel of a call is closed twice: not by a
\* late reply, nor by the watcher that answers every call when the helper exits.
THEOREM VfsTypeCorrect == VfsSpec => []VfsTypeOK
  BY ShareInductive, PTL DEF ShareInv

\* What Bind has confirmed is mounted in a mode that was asked for, or needs no
\* mount, until the helper stops or dies; though binds of one path race, mounts
\* fail half way, and replies come late.
THEOREM ConfirmedIsShared == VfsSpec => []SharedAsAsked
  <1>1. ShareInv => SharedAsAsked
    BY DEF ShareInv, ActiveInv, Settled, BoundAsAsked, SharedAsAsked
  <1> QED
    BY <1>1, ShareInductive, PTL
=============================================================================
