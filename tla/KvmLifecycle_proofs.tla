------------------------ MODULE KvmLifecycle_proofs ------------------------
(***************************************************************************)
(* Safety of KvmLifecycle for any number of boots and any session names.   *)
(***************************************************************************)
EXTENDS KvmLifecycle, TLAPS

\* Every variable keeps to its set of values in every reachable state.
THEOREM TypeCorrect == Spec => []TypeOK
<1>1. Init => TypeOK
  BY DEF Init, TypeOK, PcState, CleanState, Session
<1>2. TypeOK /\ [Next]_vars => TypeOK'
  <2> SUFFICES ASSUME TypeOK, [Next]_vars PROVE TypeOK'
    OBVIOUS
  <2> USE DEF TypeOK, Session, vars, backendVars, threadVars, hostVars, envVars
  <2>1. CASE Touch
    BY <2>1 DEF Touch, Rpc
  <2>2. CASE StartIgnored
    BY <2>2 DEF StartIgnored, Rpc
  <2>3. CASE StopVM
    BY <2>3 DEF StopVM, Rpc, Take, ClearPublished, CleanState
  <2>4. CASE Shutdown
    BY <2>4 DEF Shutdown, Take, ClearPublished, CleanState
  <2>5. CASE IsRunningReaps
    BY <2>5 DEF IsRunningReaps, Rpc, PublishedExited, Take, ClearPublished, CleanState
  <2>6. CASE GoesIdle
    BY <2>6 DEF GoesIdle
  <2>7. CASE DesktopDies
    BY <2>7 DEF DesktopDies
  <2>8. ASSUME NEW v \in Vm, NEW s \in Names \union {v}, StartBegins(v, s)
        PROVE  TypeOK'
    BY <2>8 DEF StartBegins, SetSession, Rpc, SetStarting, NoTake, Take, ClearPublished,
                PcState, CleanState
  <2>9. ASSUME NEW v \in Vm, Pipeline(v)
        PROVE  TypeOK'
    <3> USE DEF Return, GoesTo, PcState
    <3>1. CASE PrepareFails(v)
      BY <3>1 DEF PrepareFails
    <3>2. CASE Prepare(v)
      BY <3>2 DEF Prepare, killStalePID
    <3>3. CASE StartHelper(v)
      BY <3>3 DEF StartHelper
    <3>4. CASE startQEMU(v)
      <4>1. session[v] \in Session
        OBVIOUS
      <4>2. pidfile' \in [Session -> Vm \union {NoVm}]
        BY <3>4, <4>1 DEF startQEMU
      <4>3. /\ qemu' \in [Vm -> {"none", "up", "exited", "reaped"}]
            /\ helper' \in [Vm -> {"none", "up", "down"}]
            /\ pc' \in [Vm -> PcState]
            /\ starting' \in BOOLEAN
        BY <3>4 DEF startQEMU
      <4> QED
        BY <3>4, <4>2, <4>3 DEF startQEMU
    <3>5. CASE ListenBridge(v)
      BY <3>5 DEF ListenBridge
    <3>6. CASE Unwind(v)
      BY <3>6 DEF Unwind
    <3>7. CASE Publish(v)
      BY <3>7 DEF Publish
    <3>8. CASE ArmWatchdog(v)
      BY <3>8 DEF ArmWatchdog
    <3>9. CASE StartProber(v)
      BY <3>9 DEF StartProber
    <3>10. CASE AnnounceStarted(v)
      BY <3>10 DEF AnnounceStarted
    <3> QED
      BY <2>9, <3>1, <3>2, <3>3, <3>4, <3>5, <3>6, <3>7, <3>8, <3>9, <3>10 DEF Pipeline
  <2>10. ASSUME NEW v \in Vm, CleanUp(v)
         PROVE  TypeOK'
    <3> USE DEF CleanGoesTo, CleanState
    <3>1. CASE CleanProber(v)
      BY <3>1 DEF CleanProber
    <3>2. CASE CleanClose(v)
      BY <3>2 DEF CleanClose
    <3>3. CASE CleanQemu(v)
      BY <3>3 DEF CleanQemu
    <3>4. CASE CleanHelper(v)
      BY <3>4 DEF CleanHelper
    <3>5. CASE CleanDir(v)
      BY <3>5 DEF CleanDir
    <3> QED
      BY <2>10, <3>1, <3>2, <3>3, <3>4, <3>5 DEF CleanUp
  <2>11. ASSUME NEW v \in Vm, WatchdogFires(v) \/ WatchdogStopsVM(v) \/ WatchdogQuits(v)
         PROVE  TypeOK'
    BY <2>11 DEF WatchdogFires, WatchdogStopsVM, WatchdogQuits, NoTake, Take,
                 ClearPublished, CleanState
  <2>12. ASSUME NEW v \in Vm, QemuExits(v) \/ QemuPidfileRemoved(v)
         PROVE  TypeOK'
    BY <2>12 DEF QemuExits, QemuPidfileRemoved
  <2>13. CASE UNCHANGED vars
    BY <2>13
  <2> QED
    BY <2>1, <2>2, <2>3, <2>4, <2>5, <2>6, <2>7, <2>8, <2>9, <2>10, <2>11, <2>12, <2>13
       DEF Next
<1> QED
  BY <1>1, <1>2, PTL DEF Spec

-----------------------------------------------------------------------------
(* The inductive invariant, in named parts.                                *)

\* The pipeline phases before and after Publish.
Before == {"prepare", "helper", "qemu", "bridge", "unwind", "publish"}
After  == {"guest", "probe", "announce", "returned"}

\* b.starting is set while a pipeline is in flight, so there is only one.
GateInv ==
    /\ OneBoot
    /\ \A v \in Vm : InFlight(v) => starting

\* A pipeline in flight faces no runtime but its own; a published runtime is in
\* nobody else's hands; runtimes are taken or dropped only after publication.
PublishedInv == \A v \in Vm :
    /\ InFlight(v) => published \in {v, NoVm}
    /\ published = v => pc[v] \in After /\ clean[v] = "none" /\ v \notin dropped
    /\ clean[v] # "none" \/ v \in dropped => pc[v] \in After
    /\ v \in dropped => clean[v] = "none" /\ qemu[v] # "up"

\* Who is responsible for each live resource, phase by phase.
ResourceInv == \A v \in Vm :
    /\ pc[v] \in {"none", "prepare", "helper", "qemu"} => qemu[v] = "none" /\ bridge[v] = "none"
    /\ pc[v] \in {"none", "prepare", "helper"} => helper[v] = "none"
    /\ qemu[v] = "up" => \/ pc[v] \in {"bridge", "unwind", "publish"}
                         \/ published = v
                         \/ clean[v] \in {"prober", "close", "qemu"}
    /\ helper[v] = "up" => \/ pc[v] \in {"qemu", "bridge", "unwind", "publish"}
                           \/ published = v
                           \/ clean[v] \in {"prober", "close", "qemu", "helper"}
                           \/ v \in dropped
    /\ bridge[v] = "open" => \/ pc[v] = "publish"
                             \/ published = v
                             \/ clean[v] \in {"prober", "close"}
                             \/ v \in dropped

WatchdogInv == \A v \in Vm :
    /\ watchdog[v] = "closing" => clean[v] # "none"
    /\ published = v /\ pc[v] # "guest" => watchdog[v] \in {"watching", "fired"}
    /\ watchdog[v] = "watching" =>
          published = v \/ clean[v] \in {"prober", "close"} \/ v \in dropped

\* A random session id is nobody else's, so nobody else removes its directory.
SessionInv == \A v \in Vm :
    /\ session[v] \in Names \union {v}
    /\ session[v] = v /\ (published = v \/ pc[v] \in Before \ {"prepare"}) => v \in files

IInv == TypeOK /\ GateInv /\ PublishedInv /\ ResourceInv /\ WatchdogInv /\ SessionInv

-----------------------------------------------------------------------------
(* Preservation, one lemma per goroutine.                                  *)

\* RPC handlers, the signal handler and Desktop keep the invariant.
LEMMA RpcStep ==
  ASSUME IInv, TypeOK', Touch \/ StartIgnored \/ StopVM \/ Shutdown \/ IsRunningReaps \/ GoesIdle \/ DesktopDies
  PROVE  GateInv' /\ PublishedInv' /\ ResourceInv' /\ WatchdogInv' /\ SessionInv'
<1> USE ConstantsAssumption DEF IInv, vars, backendVars, threadVars, hostVars, envVars
<1>1. CASE Touch
  <2>1. GateInv'
    BY <1>1 DEF Touch, Rpc, GateInv, OneBoot, InFlight, TypeOK
  <2>2. PublishedInv'
    BY <1>1 DEF Touch, Rpc, PublishedInv, GateInv, OneBoot, InFlight, After, TypeOK
  <2>3. ResourceInv'
    BY <1>1 DEF Touch, Rpc, ResourceInv, PublishedInv, After, InFlight, TypeOK
  <2>4. WatchdogInv'
    BY <1>1 DEF Touch, Rpc, WatchdogInv, PublishedInv, After, GateInv, OneBoot, InFlight, TypeOK
  <2>5. SessionInv'
    BY <1>1 DEF Touch, Rpc, SessionInv, PublishedInv, After, Before, TypeOK
  <2> QED
    BY <2>1, <2>2, <2>3, <2>4, <2>5
<1>2. CASE StartIgnored
  <2>1. GateInv'
    BY <1>2 DEF StartIgnored, Rpc, PublishedExited, GateInv, OneBoot, InFlight, TypeOK
  <2>2. PublishedInv'
    BY <1>2 DEF StartIgnored, Rpc, PublishedExited, PublishedInv, GateInv, OneBoot, InFlight, After, TypeOK
  <2>3. ResourceInv'
    BY <1>2 DEF StartIgnored, Rpc, PublishedExited, ResourceInv, PublishedInv, After, InFlight, TypeOK
  <2>4. WatchdogInv'
    BY <1>2 DEF StartIgnored, Rpc, PublishedExited, WatchdogInv, PublishedInv, After, GateInv, OneBoot, InFlight, TypeOK
  <2>5. SessionInv'
    BY <1>2 DEF StartIgnored, Rpc, PublishedExited, SessionInv, PublishedInv, After, Before, TypeOK
  <2> QED
    BY <2>1, <2>2, <2>3, <2>4, <2>5
<1>3. CASE StopVM
  <2>1. GateInv'
    BY <1>3 DEF StopVM, Rpc, Take, ClearPublished, GateInv, OneBoot, InFlight, TypeOK
  <2>2. PublishedInv'
    BY <1>3 DEF StopVM, Rpc, Take, ClearPublished, PublishedInv, GateInv, OneBoot, InFlight, After, TypeOK
  <2>3. ResourceInv'
    BY <1>3 DEF StopVM, Rpc, Take, ClearPublished, ResourceInv, PublishedInv, After, InFlight, TypeOK
  <2>4. WatchdogInv'
    BY <1>3 DEF StopVM, Rpc, Take, ClearPublished, WatchdogInv, PublishedInv, After, GateInv, OneBoot, InFlight, TypeOK
  <2>5. SessionInv'
    BY <1>3 DEF StopVM, Rpc, Take, ClearPublished, SessionInv, PublishedInv, After, Before, TypeOK
  <2> QED
    BY <2>1, <2>2, <2>3, <2>4, <2>5
<1>4. CASE Shutdown
  <2>1. GateInv'
    BY <1>4 DEF Shutdown, Take, ClearPublished, GateInv, OneBoot, InFlight, TypeOK
  <2>2. PublishedInv'
    BY <1>4 DEF Shutdown, Take, ClearPublished, PublishedInv, GateInv, OneBoot, InFlight, After, TypeOK
  <2>3. ResourceInv'
    BY <1>4 DEF Shutdown, Take, ClearPublished, ResourceInv, PublishedInv, After, InFlight, TypeOK
  <2>4. WatchdogInv'
    BY <1>4 DEF Shutdown, Take, ClearPublished, WatchdogInv, PublishedInv, After, GateInv, OneBoot, InFlight, TypeOK
  <2>5. SessionInv'
    BY <1>4 DEF Shutdown, Take, ClearPublished, SessionInv, PublishedInv, After, Before, TypeOK
  <2> QED
    BY <2>1, <2>2, <2>3, <2>4, <2>5
<1>5. CASE IsRunningReaps
  <2>1. GateInv'
    BY <1>5 DEF IsRunningReaps, Rpc, PublishedExited, Take, ClearPublished, GateInv, OneBoot, InFlight, TypeOK
  <2>2. PublishedInv'
    BY <1>5 DEF IsRunningReaps, Rpc, PublishedExited, Take, ClearPublished, PublishedInv, GateInv, OneBoot, InFlight, After, TypeOK
  <2>3. ResourceInv'
    BY <1>5 DEF IsRunningReaps, Rpc, PublishedExited, Take, ClearPublished, ResourceInv, PublishedInv, After, InFlight, TypeOK
  <2>4. WatchdogInv'
    BY <1>5 DEF IsRunningReaps, Rpc, PublishedExited, Take, ClearPublished, WatchdogInv, PublishedInv, After, GateInv, OneBoot, InFlight, TypeOK
  <2>5. SessionInv'
    BY <1>5 DEF IsRunningReaps, Rpc, PublishedExited, Take, ClearPublished, SessionInv, PublishedInv, After, Before, TypeOK
  <2> QED
    BY <2>1, <2>2, <2>3, <2>4, <2>5
<1>6. CASE GoesIdle
  <2>1. GateInv'
    BY <1>6 DEF GoesIdle, GateInv, OneBoot, InFlight, TypeOK
  <2>2. PublishedInv'
    BY <1>6 DEF GoesIdle, PublishedInv, GateInv, OneBoot, InFlight, After, TypeOK
  <2>3. ResourceInv'
    BY <1>6 DEF GoesIdle, ResourceInv, PublishedInv, After, InFlight, TypeOK
  <2>4. WatchdogInv'
    BY <1>6 DEF GoesIdle, WatchdogInv, PublishedInv, After, GateInv, OneBoot, InFlight, TypeOK
  <2>5. SessionInv'
    BY <1>6 DEF GoesIdle, SessionInv, PublishedInv, After, Before, TypeOK
  <2> QED
    BY <2>1, <2>2, <2>3, <2>4, <2>5
<1>7. CASE DesktopDies
  <2>1. GateInv'
    BY <1>7 DEF DesktopDies, GateInv, OneBoot, InFlight, TypeOK
  <2>2. PublishedInv'
    BY <1>7 DEF DesktopDies, PublishedInv, GateInv, OneBoot, InFlight, After, TypeOK
  <2>3. ResourceInv'
    BY <1>7 DEF DesktopDies, ResourceInv, PublishedInv, After, InFlight, TypeOK
  <2>4. WatchdogInv'
    BY <1>7 DEF DesktopDies, WatchdogInv, PublishedInv, After, GateInv, OneBoot, InFlight, TypeOK
  <2>5. SessionInv'
    BY <1>7 DEF DesktopDies, SessionInv, PublishedInv, After, Before, TypeOK
  <2> QED
    BY <2>1, <2>2, <2>3, <2>4, <2>5
<1> QED
  BY <1>1, <1>2, <1>3, <1>4, <1>5, <1>6, <1>7

\* A StartVM call that passes the gate keeps the invariant.
LEMMA StartStep ==
  ASSUME IInv, TypeOK', NEW v \in Vm, NEW s \in Names \union {v}, StartBegins(v, s)
  PROVE  GateInv' /\ PublishedInv' /\ ResourceInv' /\ WatchdogInv' /\ SessionInv'
<1> USE ConstantsAssumption DEF IInv, vars, backendVars, threadVars, hostVars, envVars
<1>1. CASE StartBegins(v, s)
  <2>1. GateInv'
    BY <1>1 DEF StartBegins, SetSession, Rpc, PublishedExited, SetStarting, NoTake, Take, ClearPublished, GateInv, OneBoot, InFlight, TypeOK
  <2>2. PublishedInv'
    BY <1>1 DEF StartBegins, SetSession, Rpc, PublishedExited, SetStarting, NoTake, Take, ClearPublished, PublishedInv, GateInv, OneBoot, InFlight, After, TypeOK
  <2>3. ResourceInv'
    BY <1>1 DEF StartBegins, SetSession, Rpc, PublishedExited, SetStarting, NoTake, Take, ClearPublished, ResourceInv, PublishedInv, After, InFlight, TypeOK
  <2>4. WatchdogInv'
    BY <1>1 DEF StartBegins, SetSession, Rpc, PublishedExited, SetStarting, NoTake, Take, ClearPublished, WatchdogInv, PublishedInv, After, GateInv, OneBoot, InFlight, TypeOK
  <2>5. SessionInv'
    BY <1>1 DEF StartBegins, SetSession, Rpc, PublishedExited, SetStarting, NoTake, Take, ClearPublished, SessionInv, PublishedInv, After, Before, TypeOK
  <2> QED
    BY <2>1, <2>2, <2>3, <2>4, <2>5
<1> QED
  BY <1>1

\* Every phase of the boot pipeline keeps the invariant.
LEMMA PipelineStep ==
  ASSUME IInv, TypeOK', NEW v \in Vm, Pipeline(v)
  PROVE  GateInv' /\ PublishedInv' /\ ResourceInv' /\ WatchdogInv' /\ SessionInv'
<1> USE ConstantsAssumption DEF IInv, vars, backendVars, threadVars, hostVars, envVars
<1>1. CASE PrepareFails(v)
  <2>1. GateInv'
    BY <1>1 DEF PrepareFails, Return, GateInv, OneBoot, InFlight, TypeOK
  <2>2. PublishedInv'
    BY <1>1 DEF PrepareFails, Return, PublishedInv, GateInv, OneBoot, InFlight, After, TypeOK
  <2>3. ResourceInv'
    BY <1>1 DEF PrepareFails, Return, ResourceInv, PublishedInv, After, InFlight, TypeOK
  <2>4. WatchdogInv'
    BY <1>1 DEF PrepareFails, Return, WatchdogInv, PublishedInv, After, GateInv, OneBoot, InFlight, TypeOK
  <2>5. SessionInv'
    BY <1>1 DEF PrepareFails, Return, SessionInv, PublishedInv, After, Before, TypeOK
  <2> QED
    BY <2>1, <2>2, <2>3, <2>4, <2>5
<1>2. CASE Prepare(v)
  <2>1. GateInv'
    BY <1>2 DEF Prepare, GoesTo, killStalePID, GateInv, OneBoot, InFlight, TypeOK
  <2>2. PublishedInv'
    BY <1>2 DEF Prepare, GoesTo, killStalePID, PublishedInv, GateInv, OneBoot, InFlight, After, TypeOK
  <2>3. ResourceInv'
    BY <1>2 DEF Prepare, GoesTo, killStalePID, ResourceInv, PublishedInv, After, InFlight, TypeOK
  <2>4. WatchdogInv'
    BY <1>2 DEF Prepare, GoesTo, killStalePID, WatchdogInv, PublishedInv, After, GateInv, OneBoot, InFlight, TypeOK
  <2>5. SessionInv'
    BY <1>2 DEF Prepare, GoesTo, killStalePID, SessionInv, PublishedInv, After, Before, TypeOK
  <2> QED
    BY <2>1, <2>2, <2>3, <2>4, <2>5
<1>3. CASE StartHelper(v)
  <2>1. GateInv'
    BY <1>3 DEF StartHelper, GoesTo, Return, GateInv, OneBoot, InFlight, TypeOK
  <2>2. PublishedInv'
    BY <1>3 DEF StartHelper, GoesTo, Return, PublishedInv, GateInv, OneBoot, InFlight, After, TypeOK
  <2>3. ResourceInv'
    BY <1>3 DEF StartHelper, GoesTo, Return, ResourceInv, PublishedInv, After, InFlight, TypeOK
  <2>4. WatchdogInv'
    BY <1>3 DEF StartHelper, GoesTo, Return, WatchdogInv, PublishedInv, After, GateInv, OneBoot, InFlight, TypeOK
  <2>5. SessionInv'
    BY <1>3 DEF StartHelper, GoesTo, Return, SessionInv, PublishedInv, After, Before, TypeOK
  <2> QED
    BY <2>1, <2>2, <2>3, <2>4, <2>5
<1>4. CASE startQEMU(v)
  <2>1. GateInv'
    <3>1. \/ pc' = [pc EXCEPT ![v] = "bridge"] /\ starting' = starting
          \/ pc' = [pc EXCEPT ![v] = "returned"] /\ starting' = FALSE
      BY <1>4 DEF startQEMU, GoesTo, Return
    <3>2. pc[v] = "qemu"
      BY <1>4 DEF startQEMU
    <3>3. InFlight(v) /\ \A w \in Vm : InFlight(w) => w = v
      BY <3>2 DEF GateInv, OneBoot, InFlight
    <3>4. \A w \in Vm : w # v => pc'[w] = pc[w]
      BY <3>1 DEF TypeOK
    <3>5. starting' \/ pc'[v] = "returned"
      BY <3>1, <3>3 DEF GateInv, TypeOK
    <3>6. \A w \in Vm : InFlight(w)' => w = v
      BY <3>3, <3>4 DEF InFlight
    <3> QED
      BY <3>5, <3>6 DEF GateInv, OneBoot, InFlight
  <2>2. PublishedInv'
    BY <1>4 DEF startQEMU, GoesTo, Return, PublishedInv, GateInv, OneBoot, InFlight, After, TypeOK
  <2>3. ResourceInv'
    BY <1>4 DEF startQEMU, GoesTo, Return, ResourceInv, PublishedInv, After, InFlight, TypeOK
  <2>4. WatchdogInv'
    BY <1>4 DEF startQEMU, GoesTo, Return, WatchdogInv, PublishedInv, After, GateInv, OneBoot, InFlight, TypeOK
  <2>5. SessionInv'
    BY <1>4 DEF startQEMU, GoesTo, Return, SessionInv, PublishedInv, After, Before, TypeOK
  <2> QED
    BY <2>1, <2>2, <2>3, <2>4, <2>5
<1>5. CASE ListenBridge(v)
  <2>1. GateInv'
    BY <1>5 DEF ListenBridge, GoesTo, GateInv, OneBoot, InFlight, TypeOK
  <2>2. PublishedInv'
    BY <1>5 DEF ListenBridge, GoesTo, PublishedInv, GateInv, OneBoot, InFlight, After, TypeOK
  <2>3. ResourceInv'
    BY <1>5 DEF ListenBridge, GoesTo, ResourceInv, PublishedInv, After, InFlight, TypeOK
  <2>4. WatchdogInv'
    BY <1>5 DEF ListenBridge, GoesTo, WatchdogInv, PublishedInv, After, GateInv, OneBoot, InFlight, TypeOK
  <2>5. SessionInv'
    BY <1>5 DEF ListenBridge, GoesTo, SessionInv, PublishedInv, After, Before, TypeOK
  <2> QED
    BY <2>1, <2>2, <2>3, <2>4, <2>5
<1>6. CASE Unwind(v)
  <2>1. GateInv'
    BY <1>6 DEF Unwind, Return, GateInv, OneBoot, InFlight, TypeOK
  <2>2. PublishedInv'
    BY <1>6 DEF Unwind, Return, PublishedInv, GateInv, OneBoot, InFlight, After, TypeOK
  <2>3. ResourceInv'
    BY <1>6 DEF Unwind, Return, ResourceInv, PublishedInv, After, InFlight, TypeOK
  <2>4. WatchdogInv'
    BY <1>6 DEF Unwind, Return, WatchdogInv, PublishedInv, After, GateInv, OneBoot, InFlight, TypeOK
  <2>5. SessionInv'
    BY <1>6 DEF Unwind, Return, SessionInv, PublishedInv, After, Before, TypeOK
  <2> QED
    BY <2>1, <2>2, <2>3, <2>4, <2>5
<1>7. CASE Publish(v)
  <2>1. GateInv'
    BY <1>7 DEF Publish, GoesTo, GateInv, OneBoot, InFlight, TypeOK
  <2>2. PublishedInv'
    BY <1>7 DEF Publish, GoesTo, PublishedInv, GateInv, OneBoot, InFlight, After, TypeOK
  <2>3. ResourceInv'
    BY <1>7 DEF Publish, GoesTo, ResourceInv, PublishedInv, After, InFlight, TypeOK
  <2>4. WatchdogInv'
    BY <1>7 DEF Publish, GoesTo, WatchdogInv, PublishedInv, After, GateInv, OneBoot, InFlight, TypeOK
  <2>5. SessionInv'
    BY <1>7 DEF Publish, GoesTo, SessionInv, PublishedInv, After, Before, TypeOK
  <2> QED
    BY <2>1, <2>2, <2>3, <2>4, <2>5
<1>8. CASE ArmWatchdog(v)
  <2>1. GateInv'
    BY <1>8 DEF ArmWatchdog, GoesTo, GateInv, OneBoot, InFlight, TypeOK
  <2>2. PublishedInv'
    BY <1>8 DEF ArmWatchdog, GoesTo, PublishedInv, GateInv, OneBoot, InFlight, After, TypeOK
  <2>3. ResourceInv'
    BY <1>8 DEF ArmWatchdog, GoesTo, ResourceInv, PublishedInv, After, InFlight, TypeOK
  <2>4. WatchdogInv'
    BY <1>8 DEF ArmWatchdog, GoesTo, WatchdogInv, PublishedInv, After, GateInv, OneBoot, InFlight, TypeOK
  <2>5. SessionInv'
    BY <1>8 DEF ArmWatchdog, GoesTo, SessionInv, PublishedInv, After, Before, TypeOK
  <2> QED
    BY <2>1, <2>2, <2>3, <2>4, <2>5
<1>9. CASE StartProber(v)
  <2>1. GateInv'
    BY <1>9 DEF StartProber, GoesTo, GateInv, OneBoot, InFlight, TypeOK
  <2>2. PublishedInv'
    BY <1>9 DEF StartProber, GoesTo, PublishedInv, GateInv, OneBoot, InFlight, After, TypeOK
  <2>3. ResourceInv'
    BY <1>9 DEF StartProber, GoesTo, ResourceInv, PublishedInv, After, InFlight, TypeOK
  <2>4. WatchdogInv'
    BY <1>9 DEF StartProber, GoesTo, WatchdogInv, PublishedInv, After, GateInv, OneBoot, InFlight, TypeOK
  <2>5. SessionInv'
    BY <1>9 DEF StartProber, GoesTo, SessionInv, PublishedInv, After, Before, TypeOK
  <2> QED
    BY <2>1, <2>2, <2>3, <2>4, <2>5
<1>10. CASE AnnounceStarted(v)
  <2>1. GateInv'
    BY <1>10 DEF AnnounceStarted, Return, GateInv, OneBoot, InFlight, TypeOK
  <2>2. PublishedInv'
    BY <1>10 DEF AnnounceStarted, Return, PublishedInv, GateInv, OneBoot, InFlight, After, TypeOK
  <2>3. ResourceInv'
    BY <1>10 DEF AnnounceStarted, Return, ResourceInv, PublishedInv, After, InFlight, TypeOK
  <2>4. WatchdogInv'
    BY <1>10 DEF AnnounceStarted, Return, WatchdogInv, PublishedInv, After, GateInv, OneBoot, InFlight, TypeOK
  <2>5. SessionInv'
    BY <1>10 DEF AnnounceStarted, Return, SessionInv, PublishedInv, After, Before, TypeOK
  <2> QED
    BY <2>1, <2>2, <2>3, <2>4, <2>5
<1> QED
  BY <1>1, <1>2, <1>3, <1>4, <1>5, <1>6, <1>7, <1>8, <1>9, <1>10 DEF Pipeline

\* Every phase of cleanupVMRuntime keeps the invariant.
LEMMA CleanUpStep ==
  ASSUME IInv, TypeOK', NEW v \in Vm, CleanUp(v)
  PROVE  GateInv' /\ PublishedInv' /\ ResourceInv' /\ WatchdogInv' /\ SessionInv'
<1> USE ConstantsAssumption DEF IInv, vars, backendVars, threadVars, hostVars, envVars
<1>1. CASE CleanProber(v)
  <2>1. GateInv'
    BY <1>1 DEF CleanProber, CleanGoesTo, GateInv, OneBoot, InFlight, TypeOK
  <2>2. PublishedInv'
    BY <1>1 DEF CleanProber, CleanGoesTo, PublishedInv, GateInv, OneBoot, InFlight, After, TypeOK
  <2>3. ResourceInv'
    BY <1>1 DEF CleanProber, CleanGoesTo, ResourceInv, PublishedInv, After, InFlight, TypeOK
  <2>4. WatchdogInv'
    BY <1>1 DEF CleanProber, CleanGoesTo, WatchdogInv, PublishedInv, After, GateInv, OneBoot, InFlight, TypeOK
  <2>5. SessionInv'
    BY <1>1 DEF CleanProber, CleanGoesTo, SessionInv, PublishedInv, After, Before, TypeOK
  <2> QED
    BY <2>1, <2>2, <2>3, <2>4, <2>5
<1>2. CASE CleanClose(v)
  <2>1. GateInv'
    BY <1>2 DEF CleanClose, CleanGoesTo, GateInv, OneBoot, InFlight, TypeOK
  <2>2. PublishedInv'
    BY <1>2 DEF CleanClose, CleanGoesTo, PublishedInv, GateInv, OneBoot, InFlight, After, TypeOK
  <2>3. ResourceInv'
    BY <1>2 DEF CleanClose, CleanGoesTo, ResourceInv, PublishedInv, After, InFlight, TypeOK
  <2>4. WatchdogInv'
    BY <1>2 DEF CleanClose, CleanGoesTo, WatchdogInv, PublishedInv, After, GateInv, OneBoot, InFlight, TypeOK
  <2>5. SessionInv'
    BY <1>2 DEF CleanClose, CleanGoesTo, SessionInv, PublishedInv, After, Before, TypeOK
  <2> QED
    BY <2>1, <2>2, <2>3, <2>4, <2>5
<1>3. CASE CleanQemu(v)
  <2>1. GateInv'
    BY <1>3 DEF CleanQemu, CleanGoesTo, GateInv, OneBoot, InFlight, TypeOK
  <2>2. PublishedInv'
    BY <1>3 DEF CleanQemu, CleanGoesTo, PublishedInv, GateInv, OneBoot, InFlight, After, TypeOK
  <2>3. ResourceInv'
    BY <1>3 DEF CleanQemu, CleanGoesTo, ResourceInv, PublishedInv, After, InFlight, TypeOK
  <2>4. WatchdogInv'
    BY <1>3 DEF CleanQemu, CleanGoesTo, WatchdogInv, PublishedInv, After, GateInv, OneBoot, InFlight, TypeOK
  <2>5. SessionInv'
    BY <1>3 DEF CleanQemu, CleanGoesTo, SessionInv, PublishedInv, After, Before, TypeOK
  <2> QED
    BY <2>1, <2>2, <2>3, <2>4, <2>5
<1>4. CASE CleanHelper(v)
  <2>1. GateInv'
    BY <1>4 DEF CleanHelper, CleanGoesTo, GateInv, OneBoot, InFlight, TypeOK
  <2>2. PublishedInv'
    BY <1>4 DEF CleanHelper, CleanGoesTo, PublishedInv, GateInv, OneBoot, InFlight, After, TypeOK
  <2>3. ResourceInv'
    BY <1>4 DEF CleanHelper, CleanGoesTo, ResourceInv, PublishedInv, After, InFlight, TypeOK
  <2>4. WatchdogInv'
    BY <1>4 DEF CleanHelper, CleanGoesTo, WatchdogInv, PublishedInv, After, GateInv, OneBoot, InFlight, TypeOK
  <2>5. SessionInv'
    BY <1>4 DEF CleanHelper, CleanGoesTo, SessionInv, PublishedInv, After, Before, TypeOK
  <2> QED
    BY <2>1, <2>2, <2>3, <2>4, <2>5
<1>5. CASE CleanDir(v)
  <2>1. GateInv'
    BY <1>5 DEF CleanDir, CleanGoesTo, GateInv, OneBoot, InFlight, TypeOK
  <2>2. PublishedInv'
    BY <1>5 DEF CleanDir, CleanGoesTo, PublishedInv, GateInv, OneBoot, InFlight, After, TypeOK
  <2>3. ResourceInv'
    BY <1>5 DEF CleanDir, CleanGoesTo, ResourceInv, PublishedInv, After, InFlight, TypeOK
  <2>4. WatchdogInv'
    BY <1>5 DEF CleanDir, CleanGoesTo, WatchdogInv, PublishedInv, After, GateInv, OneBoot, InFlight, TypeOK
  <2>5. SessionInv'
    BY <1>5 DEF CleanDir, CleanGoesTo, SessionInv, PublishedInv, After, Before, TypeOK
  <2> QED
    BY <2>1, <2>2, <2>3, <2>4, <2>5
<1> QED
  BY <1>1, <1>2, <1>3, <1>4, <1>5 DEF CleanUp

\* The watchdog keeps the invariant.
LEMMA WatchdogStep ==
  ASSUME IInv, TypeOK', NEW v \in Vm, WatchdogFires(v) \/ WatchdogStopsVM(v) \/ WatchdogQuits(v)
  PROVE  GateInv' /\ PublishedInv' /\ ResourceInv' /\ WatchdogInv' /\ SessionInv'
<1> USE ConstantsAssumption DEF IInv, vars, backendVars, threadVars, hostVars, envVars
<1>1. CASE WatchdogFires(v)
  <2>1. GateInv'
    BY <1>1 DEF WatchdogFires, GateInv, OneBoot, InFlight, TypeOK
  <2>2. PublishedInv'
    BY <1>1 DEF WatchdogFires, PublishedInv, GateInv, OneBoot, InFlight, After, TypeOK
  <2>3. ResourceInv'
    BY <1>1 DEF WatchdogFires, ResourceInv, PublishedInv, After, InFlight, TypeOK
  <2>4. WatchdogInv'
    BY <1>1 DEF WatchdogFires, WatchdogInv, PublishedInv, After, GateInv, OneBoot, InFlight, TypeOK
  <2>5. SessionInv'
    BY <1>1 DEF WatchdogFires, SessionInv, PublishedInv, After, Before, TypeOK
  <2> QED
    BY <2>1, <2>2, <2>3, <2>4, <2>5
<1>2. CASE WatchdogStopsVM(v)
  <2>1. GateInv'
    BY <1>2 DEF WatchdogStopsVM, NoTake, Take, ClearPublished, GateInv, OneBoot, InFlight, TypeOK
  <2>2. PublishedInv'
    BY <1>2 DEF WatchdogStopsVM, NoTake, Take, ClearPublished, PublishedInv, GateInv, OneBoot, InFlight, After, TypeOK
  <2>3. ResourceInv'
    BY <1>2 DEF WatchdogStopsVM, NoTake, Take, ClearPublished, ResourceInv, PublishedInv, After, InFlight, TypeOK
  <2>4. WatchdogInv'
    BY <1>2 DEF WatchdogStopsVM, NoTake, Take, ClearPublished, WatchdogInv, PublishedInv, After, GateInv, OneBoot, InFlight, TypeOK
  <2>5. SessionInv'
    BY <1>2 DEF WatchdogStopsVM, NoTake, Take, ClearPublished, SessionInv, PublishedInv, After, Before, TypeOK
  <2> QED
    BY <2>1, <2>2, <2>3, <2>4, <2>5
<1>3. CASE WatchdogQuits(v)
  <2>1. GateInv'
    BY <1>3 DEF WatchdogQuits, GateInv, OneBoot, InFlight, TypeOK
  <2>2. PublishedInv'
    BY <1>3 DEF WatchdogQuits, PublishedInv, GateInv, OneBoot, InFlight, After, TypeOK
  <2>3. ResourceInv'
    BY <1>3 DEF WatchdogQuits, ResourceInv, PublishedInv, After, InFlight, TypeOK
  <2>4. WatchdogInv'
    BY <1>3 DEF WatchdogQuits, WatchdogInv, PublishedInv, After, GateInv, OneBoot, InFlight, TypeOK
  <2>5. SessionInv'
    BY <1>3 DEF WatchdogQuits, SessionInv, PublishedInv, After, Before, TypeOK
  <2> QED
    BY <2>1, <2>2, <2>3, <2>4, <2>5
<1> QED
  BY <1>1, <1>2, <1>3

\* QEMU's exit keeps the invariant.
LEMMA QemuStep ==
  ASSUME IInv, TypeOK', NEW v \in Vm, QemuExits(v) \/ QemuPidfileRemoved(v)
  PROVE  GateInv' /\ PublishedInv' /\ ResourceInv' /\ WatchdogInv' /\ SessionInv'
<1> USE ConstantsAssumption DEF IInv, vars, backendVars, threadVars, hostVars, envVars
<1>1. CASE QemuExits(v)
  <2>1. GateInv'
    BY <1>1 DEF QemuExits, GateInv, OneBoot, InFlight, TypeOK
  <2>2. PublishedInv'
    BY <1>1 DEF QemuExits, PublishedInv, GateInv, OneBoot, InFlight, After, TypeOK
  <2>3. ResourceInv'
    BY <1>1 DEF QemuExits, ResourceInv, PublishedInv, After, InFlight, TypeOK
  <2>4. WatchdogInv'
    BY <1>1 DEF QemuExits, WatchdogInv, PublishedInv, After, GateInv, OneBoot, InFlight, TypeOK
  <2>5. SessionInv'
    BY <1>1 DEF QemuExits, SessionInv, PublishedInv, After, Before, TypeOK
  <2> QED
    BY <2>1, <2>2, <2>3, <2>4, <2>5
<1>2. CASE QemuPidfileRemoved(v)
  <2>1. GateInv'
    BY <1>2 DEF QemuPidfileRemoved, GateInv, OneBoot, InFlight, TypeOK
  <2>2. PublishedInv'
    BY <1>2 DEF QemuPidfileRemoved, PublishedInv, GateInv, OneBoot, InFlight, After, TypeOK
  <2>3. ResourceInv'
    BY <1>2 DEF QemuPidfileRemoved, ResourceInv, PublishedInv, After, InFlight, TypeOK
  <2>4. WatchdogInv'
    BY <1>2 DEF QemuPidfileRemoved, WatchdogInv, PublishedInv, After, GateInv, OneBoot, InFlight, TypeOK
  <2>5. SessionInv'
    BY <1>2 DEF QemuPidfileRemoved, SessionInv, PublishedInv, After, Before, TypeOK
  <2> QED
    BY <2>1, <2>2, <2>3, <2>4, <2>5
<1> QED
  BY <1>1, <1>2

-----------------------------------------------------------------------------
\* The inductive invariant holds in every reachable state.
THEOREM LifecycleSafe == Spec => []IInv
<1>1. Init => IInv
  <2> SUFFICES ASSUME Init PROVE IInv
    OBVIOUS
  <2>1. TypeOK
    BY ConstantsAssumption DEF Init, TypeOK, PcState, CleanState, Session
  <2>2. GateInv
    BY DEF Init, GateInv, OneBoot, InFlight
  <2>3. PublishedInv
    BY ConstantsAssumption DEF Init, PublishedInv
  <2>4. ResourceInv
    BY ConstantsAssumption DEF Init, ResourceInv
  <2>5. WatchdogInv
    BY ConstantsAssumption DEF Init, WatchdogInv
  <2>6. SessionInv
    BY ConstantsAssumption DEF Init, SessionInv, Before
  <2> QED
    BY <2>1, <2>2, <2>3, <2>4, <2>5, <2>6 DEF IInv
<1>2. IInv /\ TypeOK' /\ [Next]_vars => IInv'
  <2> SUFFICES ASSUME IInv, TypeOK', [Next]_vars PROVE IInv'
    OBVIOUS
  <2>1. CASE UNCHANGED vars
    BY <2>1 DEF IInv, vars, backendVars, threadVars, hostVars, envVars, GateInv, OneBoot,
                InFlight, PublishedInv, ResourceInv, WatchdogInv, SessionInv
  <2>2. CASE Next
    BY <2>2, RpcStep, StartStep, PipelineStep, CleanUpStep, WatchdogStep, QemuStep
       DEF Next, IInv
  <2> QED
    BY <2>1, <2>2
<1> QED
  BY <1>1, <1>2, TypeCorrect, PTL DEF Spec

\* vm/backend.go, StartVM's gate: two concurrent calls never both run the pipeline.
THEOREM BootsAreExclusive == Spec => []OneBoot
<1>1. IInv => OneBoot
  BY DEF IInv, GateInv
<1> QED
  BY <1>1, LifecycleSafe, PTL

\* However StartVM, StopVM, the watchdog and the reaping race, at most one QEMU
\* is running that nobody is tearing down.
THEOREM OneQemuServes == Spec => []OneServingQemu
<1>1. IInv => OneServingQemu
  BY ConstantsAssumption
     DEF IInv, GateInv, OneBoot, InFlight, PublishedInv, ResourceInv, After, OneServingQemu, Serving
<1> QED
  BY <1>1, LifecycleSafe, PTL

\* Every live resource has an owner or was dropped by an ignored StartVM call.
THEOREM OrphansExplained == Spec => []OrphansAreDropped
<1>1. IInv => OrphansAreDropped
  BY DEF IInv, PublishedInv, ResourceInv, OrphansAreDropped, HoldsResources, Owned, Cleaning, InFlight
<1> QED
  BY <1>1, LifecycleSafe, PTL

\* A runtime reaches cleanupVMRuntime at most once.
THEOREM RuntimesTakenOnce == Spec => []TakenOnce
<1>1. IInv => TakenOnce
  BY DEF IInv, PublishedInv, TakenOnce
<1> QED
  BY <1>1, LifecycleSafe, PTL

\* No watchdog outlives its VM, and no VM whose boot is over lacks one.
THEOREM WatchdogsMatchVms == Spec => [](WatchdogHasVm /\ PublishedIsWatched)
<1>1. IInv => WatchdogHasVm /\ PublishedIsWatched
  BY DEF IInv, WatchdogInv, WatchdogHasVm, PublishedIsWatched
<1> QED
  BY <1>1, LifecycleSafe, PTL

\* A random session id protects the session directory of a running VM.
THEOREM RandomSessionsKeepDir == Spec => []RandomSessionKeepsDir
<1>1. IInv => RandomSessionKeepsDir
  BY DEF IInv, SessionInv, RandomSessionKeepsDir
<1> QED
  BY <1>1, LifecycleSafe, PTL

\* Publish never overwrites a runtime StopVM could still reach.
THEOREM NoOverwrite == Spec => PublishNeverOverwrites
<1>1. IInv /\ [Next]_vars => [published # NoVm => published' \in {published, NoVm}]_vars
  <2> SUFFICES ASSUME IInv, Next, published # NoVm PROVE published' \in {published, NoVm}
    OBVIOUS
  <2> USE DEF backendVars, ClearPublished
  <2>1. ASSUME NEW v \in Vm, Publish(v) PROVE published' = v /\ published \in {v, NoVm}
    BY <2>1 DEF Publish, IInv, PublishedInv, InFlight
  <2>2. ASSUME NEW v \in Vm, Pipeline(v), ~Publish(v) PROVE published' = published
    BY <2>2 DEF Pipeline, PrepareFails, Prepare, StartHelper, startQEMU, ListenBridge, Unwind,
                ArmWatchdog, StartProber, AnnounceStarted
  <2>3. ASSUME NEW v \in Vm, CleanUp(v) PROVE published' = published
    BY <2>3 DEF CleanUp, CleanProber, CleanClose, CleanQemu, CleanHelper, CleanDir
  <2>4. ASSUME NEW v \in Vm,
               \/ WatchdogFires(v) \/ WatchdogStopsVM(v) \/ WatchdogQuits(v)
               \/ QemuExits(v) \/ QemuPidfileRemoved(v)
        PROVE  published' \in {published, NoVm}
    BY <2>4 DEF WatchdogFires, WatchdogStopsVM, WatchdogQuits, QemuExits, QemuPidfileRemoved
  <2>5. ASSUME NEW v \in Vm, NEW s \in Names \union {v}, StartBegins(v, s)
        PROVE  published' \in {published, NoVm}
    BY <2>5 DEF StartBegins, SetSession
  <2>6. CASE Touch \/ StartIgnored \/ StopVM \/ Shutdown \/ IsRunningReaps \/ GoesIdle \/ DesktopDies
    BY <2>6 DEF Touch, StartIgnored, StopVM, Shutdown, IsRunningReaps, GoesIdle, DesktopDies
  <2> QED
    BY <2>1, <2>2, <2>3, <2>4, <2>5, <2>6 DEF Next
<1> QED
  BY <1>1, LifecycleSafe, PTL DEF Spec, PublishNeverOverwrites
=============================================================================
