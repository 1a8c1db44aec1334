------------------------------ MODULE VVMOrch ------------------------------
(***************************************************************************)
(* VVM orchestration: pkg/vvm/impl_orch.go on top of Elections.  A VVM     *)
(* starts its services once it leads one of the indexes 1 .. numVVM, warns *)
(* its host and kills its own process when it has lost the leadership, and *)
(* on Shutdown stops the services first and releases the leadership last.  *)
(*                                                                         *)
(* The host starts a dead process again.  Services take any time to start  *)
(* and to stop; the goroutines of impl_orch.go react within a tick.        *)
(***************************************************************************)
EXTENDS Elections, FiniteSets

CONSTANTS AcquisitionDuration,  \* ticks Launch tries to acquire for
          NoTimer               \* no killer routine

ASSUME VVMOrchConstants ==
    /\ AcquisitionDuration \in Nat /\ NoTimer \notin Nat
    /\ 1 \in Keys /\ IsFiniteSet(Keys) /\ Keys = 1 .. Cardinality(Keys)

VARIABLES
    launch,         \* [VVMs -> ...]: where Launch is
    vvmIdx,         \* the index to acquire, or acquired
    acquireTimer,
    services,       \* ServicePipeline runs
    monitor,        \* leadershipMonitor
    killer,         \* killerRoutine: ticks it still sleeps
    problem,        \* problemCtx is cancelled
    shutdowner,
    handedOver      \* history: the VVM removed its record on losing leadership

orchVars == <<launch, vvmIdx, acquireTimer, services, monitor, killer, problem,
              shutdowner, handedOver>>
vars == <<electionsVars, orchVars>>

numVVM == Cardinality(Keys)

Init ==
    /\ ElectionsInit
    /\ launch = [v \in VVMs |-> "new"] /\ vvmIdx = [v \in VVMs |-> 1]
    /\ acquireTimer = [v \in VVMs |-> 0]
    /\ services = [v \in VVMs |-> FALSE] /\ monitor = [v \in VVMs |-> "off"]
    /\ killer = [v \in VVMs |-> NoTimer] /\ problem = [v \in VVMs |-> FALSE]
    /\ shutdowner = [v \in VVMs |-> "off"] /\ handedOver = [v \in VVMs |-> FALSE]

Lead(v) == li[v][vvmIdx[v]]
LeadershipLost(v) == Lead(v).ctx = "cancelled"

-----------------------------------------------------------------------------
(***************************************************************************)
(* Launch and tryToAcquireLeadership.                                      *)
(***************************************************************************)
Launch(v) ==
    /\ launch[v] = "new"
    /\ launch' = [launch EXCEPT ![v] = "try"]
    /\ acquireTimer' = [acquireTimer EXCEPT ![v] = AcquisitionDuration]
    /\ shutdowner' = [shutdowner EXCEPT ![v] = "waiting"]
    /\ UNCHANGED <<electionsVars, vvmIdx, services, monitor, killer, problem, handedOver>>

TryAcquires(v) ==
    /\ launch[v] = "try" /\ acquireTimer[v] > 0
    /\ Acquire(v, vvmIdx[v])
    /\ launch' = [launch EXCEPT ![v] = "igniting"]
    /\ monitor' = [monitor EXCEPT ![v] = "waiting"]
    /\ UNCHANGED <<vvmIdx, acquireTimer, services, killer, problem, shutdowner, handedOver>>

\* The next index is tried a second later.
TryNextIndex(v) ==
    /\ launch[v] = "try" /\ acquireTimer[v] > 0
    /\ AcquireFails(v, vvmIdx[v])
    /\ launch' = [launch EXCEPT ![v] = "sleeping"]
    /\ vvmIdx' = [vvmIdx EXCEPT ![v] = IF @ + 1 > numVVM THEN 1 ELSE @ + 1]
    /\ UNCHANGED <<acquireTimer, services, monitor, killer, problem, shutdowner, handedOver>>

\* ErrVVMLeadershipAcquisition
AcquisitionTimeout(v) ==
    /\ launch[v] = "try" /\ acquireTimer[v] = 0
    /\ launch' = [launch EXCEPT ![v] = "launched"]
    /\ problem' = [problem EXCEPT ![v] = TRUE]
    /\ UNCHANGED <<electionsVars, vvmIdx, acquireTimer, services, monitor, killer,
                   shutdowner, handedOver>>

\* ServicePipeline is ignited.  When a service fails (ErrVVMServicesLaunch)
\* those that were started before it go on.
Ignite(v) ==
    /\ launch[v] = "igniting"
    /\ launch' = [launch EXCEPT ![v] = "launched"]
    /\ services' = [services EXCEPT ![v] = TRUE]
    /\ \E failed \in BOOLEAN : problem' = [problem EXCEPT ![v] = @ \/ failed]
    /\ UNCHANGED <<electionsVars, vvmIdx, acquireTimer, monitor, killer, shutdowner,
                   handedOver>>

(***************************************************************************)
(* leadershipMonitor and killerRoutine.                                    *)
(***************************************************************************)
processKillThreshold == Quarter

\* Mutated form of MonitorSeesLoss: only the host is warned.
MonitorWarnsOnly(v) ==
    /\ monitor[v] = "waiting" /\ LeadershipLost(v)
    /\ monitor' = [monitor EXCEPT ![v] = "stopped"]
    /\ problem' = [problem EXCEPT ![v] = TRUE]
    /\ UNCHANGED <<electionsVars, launch, vvmIdx, acquireTimer, services, killer,
                   shutdowner, handedOver>>

MonitorSeesLoss(v) ==
    /\ monitor[v] = "waiting" /\ LeadershipLost(v)
    /\ monitor' = [monitor EXCEPT ![v] = "stopped"]
    /\ killer' = [killer EXCEPT ![v] = processKillThreshold]
    /\ problem' = [problem EXCEPT ![v] = TRUE]
    /\ UNCHANGED <<electionsVars, launch, vvmIdx, acquireTimer, services, shutdowner,
                   handedOver>>

MonitorIgnoresShutdown(v) == FALSE /\ UNCHANGED vars

\* monitorShutCtx is cancelled.
MonitorStops(v) ==
    /\ monitor[v] = "waiting" /\ shutdowner[v] = "monitor"
    /\ monitor' = [monitor EXCEPT ![v] = "stopped"]
    /\ UNCHANGED <<electionsVars, launch, vvmIdx, acquireTimer, services, killer, problem,
                   shutdowner, handedOver>>

\* The process is gone and another one is about to start.
ProcessEnds(v) ==
    /\ Reset(v)
    /\ launch' = [launch EXCEPT ![v] = "new"] /\ vvmIdx' = [vvmIdx EXCEPT ![v] = 1]
    /\ acquireTimer' = [acquireTimer EXCEPT ![v] = 0]
    /\ services' = [services EXCEPT ![v] = FALSE]
    /\ monitor' = [monitor EXCEPT ![v] = "off"]
    /\ killer' = [killer EXCEPT ![v] = NoTimer]
    /\ problem' = [problem EXCEPT ![v] = FALSE]
    /\ shutdowner' = [shutdowner EXCEPT ![v] = "off"]
    /\ handedOver' = [handedOver EXCEPT ![v] = FALSE]

Kill(v) == killer[v] = 0 /\ ProcessEnds(v)

Crash(v) == launch[v] # "new" /\ ProcessEnds(v)

(***************************************************************************)
(* Shutdown and the shutdowner.                                            *)
(***************************************************************************)
\* The host calls it when it wants, or on problemCtx, after Launch returned.
Shutdown(v) ==
    /\ launch[v] = "launched" /\ shutdowner[v] = "waiting"
    /\ shutdowner' = [shutdowner EXCEPT ![v] = "services"]
    /\ UNCHANGED <<electionsVars, launch, vvmIdx, acquireTimer, services, monitor, killer,
                   problem, handedOver>>

\* Mutated form of ServicesStop: the services are told to stop, not waited for.
ServicesNotAwaited(v) ==
    /\ shutdowner[v] = "services"
    /\ shutdowner' = [shutdowner EXCEPT ![v] = "monitor"]
    /\ UNCHANGED <<electionsVars, launch, vvmIdx, acquireTimer, services, monitor, killer,
                   problem, handedOver>>

ServicesStop(v) ==
    /\ shutdowner[v] = "services"
    /\ services' = [services EXCEPT ![v] = FALSE]
    /\ shutdowner' = [shutdowner EXCEPT ![v] = "monitor"]
    /\ UNCHANGED <<electionsVars, launch, vvmIdx, acquireTimer, monitor, killer, problem,
                   handedOver>>

\* monitorShutWg.Wait() is over, electionsCleanup() begins.
ElectionsCleanup(v) ==
    /\ shutdowner[v] = "monitor" /\ monitor[v] # "waiting"
    /\ Cleanup(v)
    /\ shutdowner' = [shutdowner EXCEPT ![v] = "elections"]
    /\ UNCHANGED <<launch, vvmIdx, acquireTimer, services, monitor, killer, problem,
                   handedOver>>

ShutdownDone(v) ==
    /\ shutdowner[v] = "elections" /\ caller[v].at = "done"
    /\ shutdowner' = [shutdowner EXCEPT ![v] = "done"]
    /\ problem' = [problem EXCEPT ![v] = TRUE]
    /\ UNCHANGED <<electionsVars, launch, vvmIdx, acquireTimer, services, monitor, killer,
                   handedOver>>

-----------------------------------------------------------------------------
(***************************************************************************)
(* The goroutines of Elections, and time.                                  *)
(***************************************************************************)
ElectionsRun(v) ==
    /\ Maintain(v, vvmIdx[v]) \/ Call(v)
    /\ handedOver' = [handedOver EXCEPT
           ![v] = @ \/ (Lead(v).at = "deleting" /\ holder[vvmIdx[v]] = v
                                                /\ holder'[vvmIdx[v]] # v)]
    /\ UNCHANGED <<launch, vvmIdx, acquireTimer, services, monitor, killer, problem,
                   shutdowner>>

OrchDue(v) ==
    \/ launch[v] = "try"
    \/ monitor[v] = "waiting" /\ LeadershipLost(v)
    \/ killer[v] = 0
    \/ shutdowner[v] = "monitor" \/ shutdowner[v] = "elections"

OrchTick ==
    /\ \A v \in VVMs : ~OrchDue(v)
    /\ Tick
    /\ killer' = [v \in VVMs |-> IF killer[v] = NoTimer THEN NoTimer
                                 ELSE CountDown(killer[v])]
    /\ acquireTimer' = [v \in VVMs |-> CountDown(acquireTimer[v])]
    /\ launch' = [v \in VVMs |-> IF launch[v] = "sleeping" THEN "try" ELSE launch[v]]
    /\ UNCHANGED <<vvmIdx, services, monitor, problem, shutdowner, handedOver>>

\* What the goroutines of a VVM do promptly.
Goroutines(v) ==
    \/ TryAcquires(v) \/ TryNextIndex(v) \/ AcquisitionTimeout(v)
    \/ MonitorSeesLoss(v) \/ MonitorStops(v) \/ Kill(v)
    \/ ElectionsCleanup(v) \/ ShutdownDone(v) \/ ElectionsRun(v)

Step ==
    \/ OrchTick
    \/ \E v \in VVMs : \/ Launch(v) \/ Ignite(v) \/ Shutdown(v) \/ ServicesStop(v)
                       \/ Goroutines(v)

Next == Step \/ \E v \in VVMs : Crash(v)

Spec == Init /\ [][Next]_vars

\* Goroutines run and time passes; nothing is asked of the host.
FairSpec == Init /\ [][Next]_vars /\ SF_vars(OrchTick)
                 /\ \A v \in VVMs : WF_vars(Goroutines(v))

\* Services stop when they are told to, they do not hang in their shutdown.
ServicesStopInTime == \A v \in VVMs : WF_vars(ServicesStop(v))

-----------------------------------------------------------------------------
TypeOK ==
    /\ ElectionsTypeOK
    /\ launch \in [VVMs -> {"new", "try", "sleeping", "igniting", "launched"}]
    /\ vvmIdx \in [VVMs -> Keys]
    /\ acquireTimer \in [VVMs -> 0 .. AcquisitionDuration]
    /\ services \in [VVMs -> BOOLEAN] /\ problem \in [VVMs -> BOOLEAN]
    /\ monitor \in [VVMs -> {"off", "waiting", "stopped"}]
    /\ killer \in [VVMs -> (0 .. Quarter) \union {NoTimer}]
    /\ shutdowner \in [VVMs -> {"off", "waiting", "services", "monitor", "elections", "done"}]
    /\ handedOver \in [VVMs -> BOOLEAN]

\* The time to give up renewing and the time to kill the process fit into the
\* life of a record: the services of a VVM that has not removed its record
\* itself stop before the record expires, even when they hang.
RecordOutlivesServices ==
    \A v \in VVMs : services[v] /\ ~handedOver[v] => holder[vvmIdx[v]] = v

\* Services without leadership live on borrowed time: the monitor is about to
\* start the killer, or has started it.  A shutdown under way does not lift that.
LostLeaderIsDoomed ==
    \A v \in VVMs : services[v] /\ LeadershipLost(v) =>
        monitor[v] = "waiting" \/ killer[v] # NoTimer

\* The services of a VVM that lost its leadership end, even when they hang in
\* their shutdown and whatever the host does.
LostLeaderStops ==
    \A v \in VVMs : (services[v] /\ LeadershipLost(v)) ~> ~services[v]

\* If services do not hang, Shutdown() returns, or the process was killed
\* meanwhile: the shutdowner, the monitor and the goroutines of the elections
\* never wait for one another.
ShutdownCompletes ==
    ServicesStopInTime =>
        \A v \in VVMs : (shutdowner[v] \in {"services", "monitor", "elections"})
                            ~> (shutdowner[v] = "done" \/ launch[v] = "new")
=============================================================================
