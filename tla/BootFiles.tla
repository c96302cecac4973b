------------------------------ MODULE BootFiles ------------------------------
(***************************************************************************)
(* What a boot leaves on disk, and what the next boot makes of it.         *)
(*                                                                         *)
(* StartVM prepares a root disk (vm/qemu.go: a qcow2 converted from the    *)
(* VHDX that Desktop ships; vm/uefi.go: a qcow2 overlay over the raw       *)
(* image), firmware variables, the session data disk and a vsock CID from  *)
(* a counter in a file, and starts QEMU on them.  The files outlive the    *)
(* daemon, and whether one of them is complete is inferred from its        *)
(* existence or, for the converted root, from a trailer stamped on the     *)
(* VHDX.                                                                   *)
(*                                                                         *)
(* Daemons are killed between any two steps, together with the qemu-img    *)
(* and the QEMU they started (one systemd service; QEMU has Pdeathsig).    *)
(* Commands and writes fail, Desktop ships new images at any time, the     *)
(* user deletes the converted root to start afresh.  Two daemons share     *)
(* the files, as allocateCID expects (a user's and the service's).         *)
(*                                                                         *)
(* External: qemu-img writes its output in place and locks it, QEMU locks  *)
(* the disks it runs on, and neither runs on a locked one; unlinking a     *)
(* file leaves those who opened it with the old one.                       *)
(***************************************************************************)
EXTENDS Integers, FiniteSets

CONSTANTS
    Daemons,      \* the daemons of one user
    MaxVhdx,      \* bound: versions of the VHDX that Desktop ships
    MaxImg,       \* bound: versions of the raw image
    MaxFaults,    \* bound: failures, kills and deletions
    CidLimit      \* where the CID counter wraps round (65535 in the code)

ASSUME BoundsAssumption ==
    /\ {MaxVhdx, MaxImg} \subseteq Nat \ {0}
    /\ {MaxFaults, CidLimit} \subseteq Nat /\ CidLimit > 4
ASSUME DaemonsAssumption == "nobody" \notin Daemons

VARIABLES
    vhdx,         \* the shipped VHDX: its version (0: none), its stamp
    qcow,         \* the root converted from it: state, version, guest's data
    img,          \* the version of the shipped raw image (0: none)
    overlay,      \* the overlay over it: state, version it was made over
    disk,         \* sessiondata.qcow2
    counter,      \* .next_cid (0: empty)
    flock,        \* the daemon that holds the lock on it
    boot,         \* each daemon's StartVM, and the VM it leads to
    faults,       \* how many there have been
    \* history, read by the properties only:
    doubt         \* the events that excuse a bad boot

files == <<vhdx, qcow, img, overlay, disk>>
vars == <<vhdx, qcow, img, overlay, disk, counter, flock, boot, faults, doubt>>

defaultCID == 3
Nobody == "nobody"
States == {"absent", "partial", "whole"}
Versions == 0..(MaxVhdx + MaxImg)

\* version: of the image the boot relies on; linked: the root it converts or
\* runs on is still the one in the bundle; root: what QEMU was started on.
Idle == [pc |-> "idle", kind |-> "vhdx", version |-> 0, linked |-> FALSE,
         nvram |-> "absent", cid |-> 0, root |-> "absent"]

Steps == {"root", "converting", "stamp", "overlay", "nvram",
          "disk", "cid", "write", "launch"}
Booting(d) == boot[d].pc \in Steps
Up(d) == boot[d].pc = "up"

At(d, pc) == boot[d].pc = pc
Goto(d, pc) == boot' = [boot EXCEPT ![d].pc = pc]
\* StartVM returns an error; the firmware variables stay in its directory.
Abandon(d) == [Idle EXCEPT !.nvram = boot[d].nvram]
Fault == faults < MaxFaults /\ faults' = faults + 1
Doubt(events) == doubt' = doubt \cup events
Others(d) == Daemons \ {d}

(***************************************************************************)
(* The root disk.                                                          *)
(***************************************************************************)

StartVM(d) ==
    /\ At(d, "idle")
    /\ boot' = [boot EXCEPT ![d].pc = "root",
                            ![d].kind = IF img # 0 THEN "img" ELSE "vhdx"]
    /\ Doubt(IF \E r \in Others(d) : Booting(r) THEN {"overlap"} ELSE {})
    /\ UNCHANGED <<files, counter, flock, faults>>

hasUsableRootfs == img # 0 \/ vhdx.version # 0 \/ qcow.state # "absent"

FindBundleFails(d) ==
    /\ At(d, "root") /\ ~hasUsableRootfs
    /\ boot' = [boot EXCEPT ![d] = Abandon(d)]
    /\ UNCHANGED <<files, counter, flock, faults, doubt>>

\* Mutation: a root is taken for converted whenever it is there.
Mut_Converted == qcow.state # "absent"

\* There is a converted root, and no VHDX or a stamped one.
Converted == qcow.state # "absent" /\ (vhdx.version = 0 \/ vhdx.stamped)

\* Mutation: the VHDX is looked for first, and missed beside its converted root.
Mut_UseConverted(d) ==
    /\ At(d, "root") /\ boot[d].kind = "vhdx" /\ Converted
    /\ boot' = [boot EXCEPT ![d] = IF vhdx.version = 0 THEN Abandon(d)
                                   ELSE [@ EXCEPT !.pc = "disk", !.version = vhdx.version]]
    /\ UNCHANGED <<files, counter, flock, faults, doubt>>

UseConverted(d) ==
    /\ At(d, "root") /\ boot[d].kind = "vhdx" /\ Converted
    /\ boot' = [boot EXCEPT ![d].pc = "disk", ![d].version = vhdx.version]
    /\ UNCHANGED <<files, counter, flock, faults, doubt>>

NoQcow == [state |-> "absent", version |-> 0, data |-> FALSE]
Unlinked == [d \in Daemons |-> [boot[d] EXCEPT !.linked = FALSE]]

\* A root beside a VHDX without a stamp is removed, and qemu-img begins.
BeginConversion(d) ==
    /\ At(d, "root") /\ boot[d].kind = "vhdx"
    /\ vhdx.version # 0 /\ ~Converted
    /\ qcow' = [NoQcow EXCEPT !.state = "partial"]
    /\ boot' = [Unlinked EXCEPT ![d].pc = "converting", ![d].linked = TRUE,
                                ![d].version = vhdx.version]
    /\ UNCHANGED <<vhdx, img, overlay, disk, counter, flock, faults, doubt>>

EndConversion(d) ==
    /\ At(d, "converting")
    /\ qcow' = IF boot[d].linked
               THEN [NoQcow EXCEPT !.state = "whole", !.version = boot[d].version]
               ELSE qcow
    /\ Goto(d, "stamp")
    /\ UNCHANGED <<vhdx, img, overlay, disk, counter, flock, faults, doubt>>

\* qemu-img fails: whatever lies under the name of the root is removed.
ConversionFails(d) ==
    /\ At(d, "converting") /\ Fault
    /\ qcow' = NoQcow
    /\ boot' = [Unlinked EXCEPT ![d] = Abandon(d)]
    /\ UNCHANGED <<vhdx, img, overlay, disk, counter, flock, doubt>>

\* Mutation: the conversion is not stamped.
Mut_appendVhdxCanary(d) ==
    /\ At(d, "stamp")
    /\ Goto(d, "disk")
    /\ UNCHANGED <<files, counter, flock, faults, doubt>>

\* The VHDX that has the name now is stamped.
appendVhdxCanary(d) ==
    /\ At(d, "stamp")
    /\ vhdx' = [vhdx EXCEPT !.stamped = TRUE]
    /\ Goto(d, "disk")
    /\ Doubt(IF vhdx.version # boot[d].version THEN {"replaced"} ELSE {})
    /\ UNCHANGED <<qcow, img, overlay, disk, counter, flock, faults>>

\* The stamp cannot be written; the boot goes on.
StampFails(d) ==
    /\ At(d, "stamp") /\ Fault
    /\ Goto(d, "disk")
    /\ Doubt({"unstamped"})
    /\ UNCHANGED <<files, counter, flock>>

UseOverlay(d) ==
    /\ At(d, "root") /\ boot[d].kind = "img" /\ overlay.state # "absent"
    /\ boot' = [boot EXCEPT ![d].pc = "nvram", ![d].version = img]
    /\ UNCHANGED <<files, counter, flock, faults, doubt>>

BeginOverlay(d) ==
    /\ At(d, "root") /\ boot[d].kind = "img" /\ overlay.state = "absent"
    /\ overlay' = [state |-> "partial", version |-> img]
    /\ boot' = [boot EXCEPT ![d].pc = "overlay", ![d].version = img]
    /\ UNCHANGED <<vhdx, qcow, img, disk, counter, flock, faults, doubt>>

EndOverlay(d) ==
    /\ At(d, "overlay")
    /\ overlay' = [overlay EXCEPT !.state = "whole"]
    /\ Goto(d, "nvram")
    /\ UNCHANGED <<vhdx, qcow, img, disk, counter, flock, faults, doubt>>

OverlayFails(d) ==
    /\ At(d, "overlay") /\ Fault
    /\ overlay' = [overlay EXCEPT !.state = "absent"]
    /\ boot' = [boot EXCEPT ![d] = Abandon(d)]
    /\ UNCHANGED <<vhdx, qcow, img, disk, counter, flock, doubt>>

(***************************************************************************)
(* Firmware variables and session data.                                    *)
(***************************************************************************)

UseNvram(d) ==
    /\ At(d, "nvram") /\ boot[d].nvram # "absent"
    /\ Goto(d, "disk")
    /\ UNCHANGED <<files, counter, flock, faults, doubt>>

\* The copy in one step; interrupted, it leaves a part that is never redone.
ensureOVMFVars(d) ==
    /\ At(d, "nvram") /\ boot[d].nvram = "absent"
    /\ \/ /\ boot' = [boot EXCEPT ![d].nvram = "whole", ![d].pc = "disk"]
          /\ UNCHANGED <<faults, doubt>>
       \/ /\ Fault
          /\ \/ boot' = [boot EXCEPT ![d] = Idle] /\ UNCHANGED doubt
             \/ /\ boot' = [boot EXCEPT ![d] = [Idle EXCEPT !.nvram = "partial"]]
                /\ Doubt({"nvram"})
    /\ UNCHANGED <<files, counter, flock>>

UseSessionDisk(d) ==
    /\ At(d, "disk") /\ disk # "absent"
    /\ Goto(d, "cid")
    /\ UNCHANGED <<files, counter, flock, faults, doubt>>

\* A failure is logged only, and may leave a part behind.
ensureSessionDataDisk(d) ==
    /\ At(d, "disk") /\ disk = "absent"
    /\ \/ disk' = "whole" /\ UNCHANGED <<faults, doubt>>
       \/ Fault /\ UNCHANGED <<disk, doubt>>
       \/ Fault /\ disk' = "partial" /\ Doubt({"disk"})
    /\ Goto(d, "cid")
    /\ UNCHANGED <<vhdx, qcow, img, overlay, counter, flock>>

(***************************************************************************)
(* The CID, and QEMU.                                                      *)
(***************************************************************************)

\* Mutation: the counter does not wrap round.
Mut_NextCid(cid) == cid + 1

NextCid(cid) == IF cid + 1 >= CidLimit THEN defaultCID ELSE cid + 1
ReadCid == IF counter >= 3 THEN counter ELSE defaultCID

\* Mutation: the counter is not locked.
Mut_BeginAllocate(d) ==
    /\ At(d, "cid")
    /\ flock' = d /\ counter' = 0
    /\ boot' = [boot EXCEPT ![d].pc = "write", ![d].cid = ReadCid]
    /\ UNCHANGED <<files, faults, doubt>>

\* The counter is locked, read and truncated.
BeginAllocate(d) ==
    /\ At(d, "cid") /\ flock = Nobody
    /\ flock' = d /\ counter' = 0
    /\ boot' = [boot EXCEPT ![d].pc = "write", ![d].cid = ReadCid]
    /\ UNCHANGED <<files, faults, doubt>>

\* The next value is written, and closing the file unlocks it.
EndAllocate(d) ==
    /\ At(d, "write")
    /\ flock' = Nobody
    /\ counter' = NextCid(boot[d].cid)
    /\ Goto(d, "launch")
    /\ Doubt(IF counter' = defaultCID THEN {"wrapped"} ELSE {})
    /\ UNCHANGED <<files, faults>>

\* The file cannot be opened or locked; or not truncated; or not written.
AllocateFails(d) ==
    /\ Fault
    /\ \/ /\ At(d, "cid")
          /\ boot' = [boot EXCEPT ![d].pc = "launch", ![d].cid = defaultCID]
          /\ UNCHANGED <<counter, flock>>
       \/ /\ At(d, "write")
          /\ Goto(d, "launch")
          /\ flock' = Nobody
          /\ counter' \in {counter, boot[d].cid}
    /\ Doubt({"counter"})
    /\ UNCHANGED files

\* Another's qemu-img or QEMU is at work on the root in the bundle.
RootLocked(d) ==
    \E r \in Others(d) : /\ boot[r].linked /\ boot[r].kind = "vhdx"
                         /\ boot[r].pc \in {"converting", "up"}

RootState(d) == IF boot[d].kind = "img" THEN overlay.state ELSE qcow.state

\* No VM runs on the session disk, the root is not locked, the CID is free.
CanLaunch(d) ==
    /\ RootState(d) # "absent" /\ ~RootLocked(d)
    /\ disk = "whole" /\ \A r \in Others(d) : ~Up(r)
    /\ boot[d].kind = "img" => boot[d].nvram = "whole"

startQEMU(d) ==
    /\ At(d, "launch") /\ CanLaunch(d)
    /\ boot' = [boot EXCEPT ![d].pc = "up", ![d].root = RootState(d),
                            ![d].linked = (boot[d].kind = "vhdx")]
    /\ UNCHANGED <<files, counter, flock, faults, doubt>>

QemuExits(d) ==
    /\ At(d, "launch") /\ ~CanLaunch(d)
    /\ boot' = [boot EXCEPT ![d] = Abandon(d)]
    /\ UNCHANGED <<files, counter, flock, faults, doubt>>

(***************************************************************************)
(* Around a boot.                                                          *)
(***************************************************************************)

\* The VM stops, and its session directory goes.
StopVM(d) ==
    /\ Up(d)
    /\ boot' = [boot EXCEPT ![d] = Idle]
    /\ UNCHANGED <<files, counter, flock, faults, doubt>>

\* The guest installs a package.
GuestWrites(d) ==
    /\ Up(d) /\ boot[d].linked /\ qcow.state = "whole"
    /\ qcow' = [qcow EXCEPT !.data = TRUE]
    /\ UNCHANGED <<vhdx, img, overlay, disk, counter, flock, boot, faults, doubt>>

\* The daemon is killed: its qemu-img or QEMU ends and its lock is released.
Kill(d) ==
    /\ ~At(d, "idle") /\ Fault
    /\ boot' = [boot EXCEPT ![d] = Abandon(d)]
    /\ flock' = IF flock = d THEN Nobody ELSE flock
    /\ Doubt((IF At(d, "overlay") THEN {"overlay"} ELSE {}) \cup
             (IF At(d, "write") THEN {"counter"} ELSE {}) \cup
             (IF At(d, "stamp") THEN {"unstamped"} ELSE {}))
    /\ UNCHANGED <<files, counter>>

\* Desktop puts a new image in the bundle (a rename); one release ships VHDX
\* files, another raw images, and a bundle holds one kind.
ShipVhdx ==
    /\ vhdx.version < MaxVhdx /\ img = 0
    /\ vhdx' = [version |-> vhdx.version + 1, stamped |-> FALSE]
    /\ UNCHANGED <<qcow, img, overlay, disk, counter, flock, boot, faults, doubt>>

ShipImg ==
    /\ 0 < img /\ img < MaxImg
    /\ img' = img + 1
    /\ UNCHANGED <<vhdx, qcow, overlay, disk, counter, flock, boot, faults, doubt>>

\* The user deletes the converted root.
DeleteRoot ==
    /\ qcow.state # "absent" /\ vhdx.version # 0 /\ Fault
    /\ qcow' = NoQcow
    /\ boot' = Unlinked
    /\ Doubt({"deleted"})
    /\ UNCHANGED <<vhdx, img, overlay, disk, counter, flock>>

(***************************************************************************)
(* Specification.                                                          *)
(***************************************************************************)

\* The bundle as Desktop or the user left it: empty, a VHDX, a converted root
\* without one, or the raw image; nothing else has been prepared.
Init ==
    /\ \/ vhdx = [version |-> 0, stamped |-> FALSE] /\ qcow = NoQcow /\ img = 0
       \/ vhdx = [version |-> 1, stamped |-> FALSE] /\ qcow = NoQcow /\ img = 0
       \/ /\ vhdx = [version |-> 0, stamped |-> FALSE] /\ img = 0
          /\ qcow = [NoQcow EXCEPT !.state = "whole"]
       \/ vhdx = [version |-> 0, stamped |-> FALSE] /\ qcow = NoQcow /\ img = 1
    /\ overlay = [state |-> "absent", version |-> 0]
    /\ disk = "absent"
    /\ counter = 0 /\ flock = Nobody
    /\ boot = [d \in Daemons |-> Idle]
    /\ faults = 0 /\ doubt = {}

\* The steps of StartVM that are taken unless something else happens.
Advance(d) ==
    \/ FindBundleFails(d) \/ UseConverted(d)
    \/ BeginConversion(d) \/ EndConversion(d) \/ ConversionFails(d)
    \/ appendVhdxCanary(d) \/ StampFails(d)
    \/ UseOverlay(d) \/ BeginOverlay(d) \/ EndOverlay(d) \/ OverlayFails(d)
    \/ UseNvram(d) \/ ensureOVMFVars(d)
    \/ UseSessionDisk(d) \/ ensureSessionDataDisk(d)
    \/ BeginAllocate(d) \/ EndAllocate(d) \/ AllocateFails(d)
    \/ startQEMU(d) \/ QemuExits(d)

Next ==
    \/ \E d \in Daemons : \/ StartVM(d) \/ Advance(d) \/ StopVM(d)
                          \/ GuestWrites(d) \/ Kill(d)
    \/ ShipVhdx \/ ShipImg \/ DeleteRoot

\* A call of StartVM goes on, and Desktop calls again after one that failed.
Fairness == \A d \in Daemons : WF_vars(StartVM(d)) /\ WF_vars(Advance(d))

Spec == Init /\ [][Next]_vars /\ Fairness

Cids == {0} \cup 3..(CidLimit - 1)
Boots == [pc : Steps \cup {"idle", "up"}, kind : {"vhdx", "img"},
          version : Versions, linked : BOOLEAN, nvram : States, cid : Cids,
          root : States]

TypeOK ==
    /\ vhdx \in [version : Versions, stamped : BOOLEAN]
    /\ qcow \in [state : States, version : Versions, data : BOOLEAN]
    /\ img \in Versions
    /\ overlay \in [state : States, version : Versions]
    /\ disk \in States
    /\ counter \in Cids
    /\ flock \in Daemons \cup {Nobody}
    /\ boot \in [Daemons -> Boots]
    /\ faults \in 0..MaxFaults

(***************************************************************************)
(* Properties.                                                             *)
(***************************************************************************)

\* A VM runs on a complete root, converted from the VHDX that was in the
\* bundle when its boot looked: a killed or failed conversion is never
\* mistaken for a finished one.  Excused: two daemons preparing at once, a
\* VHDX replaced while it was converted (the stamp lands on the new one), a
\* root deleted beside a stamped VHDX, an overlay cut short.
RunsOnCompleteRoot ==
    \A d \in Daemons :
        Up(d) /\ doubt \cap {"overlap", "replaced", "deleted", "overlay"} = {}
        => /\ boot[d].root = "whole"
           /\ boot[d].kind = "vhdx" /\ boot[d].linked
              => qcow.version = boot[d].version

\* What a guest installed survives every stop, kill and restart, until Desktop
\* ships another VHDX.  Excused: a stamp that could not be written, a deletion
\* and two daemons preparing at once.
GuestDataSurvives ==
    [][qcow.data /\ ~qcow'.data
       => \/ vhdx.version # qcow.version
          \/ doubt' \cap {"unstamped", "deleted", "overlap"} # {}]_vars

\* A guest and one that is about to start never have one CID, because the
\* counter is read and advanced under its lock.  Excused: a counter that could
\* not be used or was lost between truncation and write, and one that wrapped
\* round.
CidsDiffer ==
    \A d \in Daemons, r \in Daemons :
        /\ d # r /\ doubt \cap {"counter", "wrapped"} = {}
        /\ {boot[d].pc, boot[r].pc} \subseteq {"write", "launch", "up"}
        => boot[d].cid # boot[r].cid

\* Whatever was killed or failed, and wherever, a bundle with a root boots again
\* if Desktop keeps asking: nothing half-done stops every later boot.  Excused:
\* the first three of the events above, and a part of a session disk, an
\* overlay or firmware variables, which are taken as they are for ever.
BootsAgain ==
    []<>(\/ ~hasUsableRootfs
         \/ \E d \in Daemons : Up(d) /\ boot[d].root = "whole"
         \/ doubt \cap {"overlap", "replaced", "deleted",
                        "disk", "overlay", "nvram"} # {})

\* An overlay lies over the image that is in the bundle, as uefi.go:131 has it
\* ("Mirrors the persistence semantics of the vhdx->qcow2 path", where a fresh
\* VHDX makes the daemon convert again).  The code reuses any overlay it finds.
OverlayMatchesImage ==
    \A d \in Daemons :
        Up(d) /\ boot[d].kind = "img" => overlay.version = boot[d].version

=============================================================================
