----------------------- MODULE WorkspaceServiceProofs -----------------------
(***************************************************************************)
(* Theorems about WorkspaceService, for any backends, any durations and    *)
(* any start limit.                                                        *)
(*                                                                         *)
(* Within the life of one composition the service takes the steps of       *)
(* Supervisor, whose invariant BaseInv it keeps; every start of a new one  *)
(* establishes it afresh.                                                  *)
(***************************************************************************)
EXTENDS WorkspaceService, SupervisorProofs

LEMMA UnitDurations ==
    /\ RestartSec \in Nat /\ TimeoutStopSec \in Nat /\ StartLimitInterval \in Nat
    /\ StartLimitBurst \in Nat /\ StartLimitBurst > 0
BY ServiceAssumption

(***************************************************************************)
(* Between two compositions nothing of the earlier one is left.            *)
(***************************************************************************)

UnitInv ==
    /\ unit \in {"running", "stop-sigterm", "final-sigterm", "auto-restart",
                 "inactive", "start-limit-hit"}
    /\ unitTimer \in Nat
    /\ window \in 0 .. StartLimitInterval
    /\ starts \in 1 .. StartLimitBurst

Switches == stopJob \in BOOLEAN /\ otherEnd \in BOOLEAN

Settled ==
    /\ ~ SupervisorActive => main = "ended"
    /\ unit \in {"auto-restart", "inactive", "start-limit-hit"} => alive = {}
    /\ main = "start" => alive = {}

ServiceInv == BaseInv /\ UnitInv /\ Settled

LEMMA ServiceInvInit == ServiceInit => ServiceInv /\ Switches
<1>1. ServiceInit => BaseInv
  BY BaseInit DEF ServiceInit
<1>2. ServiceInit => Switches
  BY DEF ServiceInit, Switches
<1> QED
  BY <1>1, <1>2, UnitDurations DEF ServiceInit, ServiceInv, UnitInv, Settled, SupervisorActive,
                                   Init

\* The supervisor's own steps, and those of its processes.
LEMMA CompositionSteps ==
    ASSUME ServiceInv, ServiceSupervisor \/ ServiceProcess \/ ServiceSignal
    PROVE  ServiceInv'
<1>1. BaseInv'
  BY BaseInductive DEF ServiceInv, ServiceSupervisor, ServiceProcess, ServiceSignal, Next
<1>2. UNCHANGED unitVars
  BY DEF ServiceSupervisor, ServiceProcess, ServiceSignal
<1>3. CASE ServiceSupervisor
  <2>1. main' # "start" /\ SupervisorActive
    BY <1>3 DEF ServiceSupervisor, SupervisorStep, StartFails, Spawn, HandlersInstalled,
                StartupExpires, StopBegins, ProxyExited, ProbeBegins, ProbeTimesOut, ProbeFinds,
                ProbeHealthy, StartupProbeBad, Tolerated, FailsClosed, WaitEnds, StopEnds,
                GraceEnds, StopGivesUp, Exit
  <2> QED
    BY <1>1, <1>2, <2>1 DEF ServiceInv, UnitInv, Settled, SupervisorActive, unitVars
<1>4. CASE ServiceProcess
  <2>1. main' = main /\ alive' \subseteq alive
    BY <1>4 DEF ServiceProcess, ProcessStep, Dies, Hangs, Answers, ProbeAnswered, ProbeRefused,
                ProbeFinds, supervisorVars, processVars
  <2> QED
    BY <1>1, <1>2, <2>1 DEF ServiceInv, UnitInv, Settled, SupervisorActive, unitVars
<1>5. CASE ServiceSignal
  <2>1. main' \in {main, "ended"} /\ alive' = alive /\ unit = "running"
    BY <1>5 DEF ServiceSignal, StopSignal, Exit, processVars
  <2> QED
    BY <1>1, <1>2, <2>1 DEF ServiceInv, UnitInv, Settled, SupervisorActive, unitVars
<1> QED
  BY <1>3, <1>4, <1>5

LEMMA SystemdEndsComposition ==
    ASSUME ServiceInv,
           SupervisorCrashes \/ StopCommand \/ StopForced \/ MainExited \/ KillRest
    PROVE  ServiceInv'
<1> USE Durations, UnitDurations
    DEF ServiceInv, BaseInv, TypeOK, LoopInv, UnitInv, Settled, SupervisorActive,
        supervisorVars, processVars, historyVars, unitVars
<1>1. CASE SupervisorCrashes
  BY <1>1 DEF SupervisorCrashes, Exit
<1>2. CASE StopCommand
  <2>1. sig' \in [Processes -> {"none", "TERM", "KILL"}]
    BY <1>2, SendTypes DEF StopCommand
  <2>2. stopRequested' \in BOOLEAN /\ (stopRequested => stopRequested')
    BY <1>2 DEF StopCommand
  <2>3. CASE main \in {"start", "spawned"}
    BY <1>2, <2>1, <2>2, <2>3 DEF StopCommand, Exit
  <2>4. CASE main \notin {"start", "spawned"}
    BY <1>2, <2>1, <2>2, <2>4 DEF StopCommand
  <2> QED
    BY <2>3, <2>4
<1>3. CASE StopForced
  BY <1>3 DEF StopForced, Exit
<1>4. CASE MainExited
  BY <1>4, SendTypes DEF MainExited
<1>5. CASE KillRest
  BY <1>5 DEF KillRest
<1> QED
  BY <1>1, <1>2, <1>3, <1>4, <1>5

LEMMA SystemdMoves ==
    ASSUME ServiceInv, StopWhileEnding \/ StopWaiting \/ Settles \/ StartLimitHit
    PROVE  ServiceInv'
<1>1. UNCHANGED svars
  BY DEF StopWhileEnding, StopWaiting, Settles, StartLimitHit
<1>2. BaseInv'
  BY <1>1, BaseInductive DEF ServiceInv
<1> QED
  BY <1>1, <1>2, UnitDurations
     DEF StopWhileEnding, StopWaiting, Settles, StartLimitHit, ServiceInv, UnitInv, Settled, SupervisorActive,
         svars, supervisorVars, processVars

LEMMA RestartKeeps ==
    ASSUME ServiceInv, Restart
    PROVE  ServiceInv'
<1>1. /\ StartAgain /\ unit = "auto-restart" /\ UNCHANGED <<stopJob, unitTimer>>
      /\ window' \in {window, StartLimitInterval}
      /\ starts' = 1 \/ (starts < StartLimitBurst /\ starts' = starts + 1)
  BY DEF Restart
<1>2. BaseInv'
  <2>1. stopRequested' = FALSE /\ outage' = FALSE
    BY <1>1 DEF StartAgain
  <2>2. ready' \subseteq Backends /\ alive' \subseteq Processes
    BY <1>1 DEF StartAgain, ServiceInv, BaseInv, TypeOK
  <2>3. /\ main' = "start" /\ phase' = "startup" /\ returned' = "no"
        /\ uptime' = 0 /\ failures' = 0 /\ timer' = 0 /\ stopFor' = 0 /\ outages' = 0
        /\ seen' = [b \in Backends |-> "pending"] /\ sig' = [p \in Processes |-> "none"]
        /\ downFor' = [b \in Backends |-> 0]
    BY <1>1 DEF StartAgain
  <2>4. TypeOK'
    <3>1. seen' \in [Backends -> {"pending", "healthy", "unhealthy"}]
      BY <2>3
    <3>2. sig' \in [Processes -> {"none", "TERM", "KILL"}]
      BY <2>3
    <3>3. downFor' \in [Backends -> 0 .. Horizon]
      BY <2>3, Durations
    <3>4. stopRequested' \in BOOLEAN /\ outage' \in BOOLEAN
      BY <2>1
    <3>5. /\ main' = "start" /\ phase' = "startup" /\ returned' = "no"
          /\ uptime' = 0 /\ failures' = 0 /\ timer' = 0 /\ stopFor' = 0 /\ outages' = 0
      BY <2>3
    <3> QED
      BY <2>2, <3>1, <3>2, <3>3, <3>4, <3>5, Durations DEF TypeOK
  <2> QED
    BY <2>1, <2>3, <2>4, Durations DEF BaseInv, LoopInv
<1>3. UnitInv' /\ Settled'
  BY <1>1, UnitDurations DEF StartAgain, ServiceInv, UnitInv, Settled, SupervisorActive
<1> QED
  BY <1>2, <1>3 DEF ServiceInv

LEMMA TicksKeep ==
    ASSUME ServiceInv, ServiceTick
    PROVE  ServiceInv'
<1>1. BaseInv'
  <2>1. CASE main # "ended"
    BY <2>1, BaseTick DEF ServiceTick, Tick, ServiceInv
  <2>2. CASE main = "ended"
    <3>1. /\ UNCHANGED <<main, phase, failures, stopRequested, seen, returned, processVars,
                         outage, outages, uptime>>
          /\ timer' \in Nat
          /\ downFor' \in [Backends -> 0 .. Horizon] /\ stopFor' \in 0 .. Horizon
      BY <2>2, Durations DEF ServiceTick, Passes, Smaller, ServiceInv, BaseInv, TypeOK
    <3> QED
      BY <2>2, <3>1, Durations DEF processVars, ServiceInv, BaseInv, TypeOK, LoopInv
  <2> QED
    BY <2>1, <2>2
<1>2. UNCHANGED <<main, alive, unit, starts>>
  BY DEF ServiceTick, Passes, processVars
<1>3. unitTimer' \in Nat /\ window' \in 0 .. StartLimitInterval
  BY UnitDurations DEF ServiceTick, ServiceInv, UnitInv
<1> QED
  BY <1>1, <1>2, <1>3 DEF ServiceInv, UnitInv, Settled, SupervisorActive

LEMMA ServiceInvInductive ==
    ASSUME ServiceInv, [ServiceNext]_wvars
    PROVE  ServiceInv'
<1>1. CASE UNCHANGED wvars
  <2>1. BaseInv'
    BY <1>1, BaseInductive DEF wvars, ServiceInv
  <2> QED
    BY <1>1, <2>1 DEF wvars, svars, supervisorVars, processVars, unitVars, ServiceInv, UnitInv,
                      Settled, SupervisorActive
<1> QED
  BY <1>1, CompositionSteps, SystemdEndsComposition, SystemdMoves, RestartKeeps, TicksKeep
     DEF ServiceNext, Operator, Systemd

LEMMA SwitchesInductive ==
    ASSUME Switches, [ServiceNext]_wvars
    PROVE  Switches'
<1> USE DEF Switches, unitVars
<1>1. CASE ServiceSupervisor \/ ServiceProcess \/ ServiceSignal \/ KillRest
  BY <1>1 DEF ServiceSupervisor, ServiceProcess, ServiceSignal, KillRest
<1>2. CASE SupervisorCrashes
  <2>1. otherEnd' = TRUE /\ stopJob' = stopJob
    BY <1>2 DEF SupervisorCrashes
  <2> QED
    BY <2>1
<1>3. CASE StopCommand \/ StopWhileEnding \/ StopWaiting
  <2>1. stopJob' = TRUE /\ otherEnd' = otherEnd
    BY <1>3 DEF StopCommand, StopWhileEnding, StopWaiting
  <2> QED
    BY <2>1
<1>4. CASE MainExited
  <2>1. otherEnd' = (otherEnd \/ phase = "monitor" \/ Proxy \notin alive) /\ stopJob' = stopJob
    BY <1>4 DEF MainExited
  <2> QED
    BY <2>1
<1>5. CASE StopForced \/ Settles \/ StartLimitHit \/ ServiceTick
  BY <1>5 DEF StopForced, Settles, StartLimitHit, ServiceTick
<1>6. CASE Restart
  <2>1. (otherEnd' = FALSE \/ otherEnd' = otherEnd) /\ stopJob' = stopJob
    BY <1>6 DEF Restart
  <2> QED
    BY <2>1
<1>7. CASE UNCHANGED wvars
  BY <1>7 DEF wvars
<1> QED
  BY <1>1, <1>2, <1>3, <1>4, <1>5, <1>6, <1>7 DEF ServiceNext, Operator, Systemd

LEMMA ServiceInvariant == ServiceSpec => [](ServiceInv /\ Switches)
BY ServiceInvInit, ServiceInvInductive, SwitchesInductive, PTL DEF ServiceSpec

\* Every reachable state of the unit is well typed, through any number of restarts.
THEOREM Service_TypeCorrect == ServiceSpec => []ServiceTypeOK
<1>1. ServiceInv /\ Switches => ServiceTypeOK
  BY DEF ServiceInv, UnitInv, Switches, BaseInv, ServiceTypeOK
<1> QED
  BY <1>1, ServiceInvariant, PTL

\* No composition is started beside the remains of an earlier one.
THEOREM One_Composition == ServiceSpec => []OneComposition
<1>1. ServiceInv => OneComposition
  BY DEF ServiceInv, Settled, OneComposition
<1> QED
  BY <1>1, ServiceInvariant, PTL

(***************************************************************************)
(* What Supervisor promises of one composition holds of every one of them. *)
(* A step of the service is a step of Supervisor, the end of a composition *)
(* from outside, a stop by systemd, a fresh start, or time that passes     *)
(* without a supervisor.                                                   *)
(***************************************************************************)

EndsFromOutside == SupervisorCrashes \/ StopForced \/ MainExited \/ KillRest

LEMMA ServiceStepIs ==
    ASSUME [ServiceNext]_wvars
    PROVE  \/ [Next]_svars
           \/ EndsFromOutside
           \/ StopCommand
           \/ Restart
           \/ ServiceTick /\ main = "ended"
<1>1. CASE ServiceSupervisor \/ ServiceProcess \/ ServiceSignal
  BY <1>1 DEF ServiceSupervisor, ServiceProcess, ServiceSignal, Next
<1>2. CASE StopWhileEnding \/ StopWaiting \/ Settles \/ StartLimitHit \/ UNCHANGED wvars
  BY <1>2 DEF StopWhileEnding, StopWaiting, Settles, StartLimitHit, wvars
<1>3. CASE ServiceTick /\ main # "ended"
  BY <1>3 DEF ServiceTick, Tick, Next
<1> QED
  BY <1>1, <1>2, <1>3 DEF ServiceNext, Operator, Systemd, EndsFromOutside

CompositionInv ==
    /\ StopInv
    /\ KillInv
    /\ DetectInv
    /\ Counted
    /\ ready \subseteq alive

LEMMA CompositionInvInit == ServiceInit => CompositionInv
BY DEF ServiceInit, Init, CompositionInv, StopInv, KillInv, DetectInv, Lasting, Able, Counted

\* Only the proxy's start makes processes live, and it leaves nobody ready.
LEMMA ReadyAreAlive ==
    ASSUME BaseInv, ready \subseteq alive, [Next]_svars
    PROVE  ready' \subseteq alive'
<1>1. CASE SupervisorStep \/ StopSignal \/ Tick \/ UNCHANGED svars
  <2>1. UNCHANGED ready /\ (UNCHANGED alive \/ alive' = Processes)
    BY <1>1 DEF svars, SupervisorStep, StartFails, Spawn, HandlersInstalled, StartupExpires,
                StopBegins, ProxyExited, ProbeBegins, ProbeTimesOut, ProbeFinds, ProbeHealthy,
                StartupProbeBad, Tolerated, FailsClosed, WaitEnds, StopEnds, GraceEnds,
                StopGivesUp, StopSignal, Tick, Passes, processVars
  <2> QED
    BY <2>1 DEF BaseInv, TypeOK, Processes
<1>2. CASE ProcessStep
  BY <1>2 DEF ProcessStep, Dies, Hangs, Answers, ProbeAnswered, ProbeRefused, ProbeFinds,
              processVars
<1> QED
  BY <1>1, <1>2 DEF Next

\* With FailsOnlyAfterOutages, which a running supervisor has not violated yet.
LEMMA CountedKept ==
    ASSUME BaseInv, Counted, [Next]_svars
    PROVE  Counted' /\ (SupervisorStep => FailsOnlyAfterOutages')
<1>1. CASE main # "ended"
  <2>1. FailsOnlyAfterOutages
    BY <1>1 DEF BaseInv, LoopInv, FailsOnlyAfterOutages
  <2> QED
    BY <2>1, OutageInductive DEF OutageInv
<1>2. CASE main = "ended"
  <2>1. ~ SupervisorStep
    BY <1>2 DEF SupervisorStep, StartFails, Spawn, HandlersInstalled, StartupExpires,
                StopBegins, ProxyExited, InLoop, ProbeBegins, ProbeTimesOut, ProbeFinds,
                ProbeHealthy, StartupProbeBad, Tolerated, FailsClosed, ProbeBad, WaitEnds,
                StopEnds, GraceEnds, StopGivesUp
  <2>2. main' = "ended"
    BY <1>2, <2>1 DEF Next, ProcessStep, Dies, Hangs, Answers, ProbeAnswered, ProbeRefused,
                      ProbeFinds, StopSignal, Tick, svars, supervisorVars
  <2> QED
    BY <2>1, <2>2 DEF Counted
<1> QED
  BY <1>1, <1>2

LEMMA CompositionSupervised ==
    ASSUME BaseInv, CompositionInv, [Next]_svars
    PROVE  CompositionInv'
BY StopInductive, KillInductive, DetectInductive, CountedKept, ReadyAreAlive DEF CompositionInv

LEMMA CompositionEnded ==
    ASSUME ServiceInv, CompositionInv, EndsFromOutside
    PROVE  CompositionInv'
<1>1. /\ main' = "ended"
      /\ returned' \in {returned, "failed"}
      /\ UNCHANGED <<phase, failures, stopRequested, seen, downFor, stopFor>>
      /\ alive' \subseteq alive /\ ready' \subseteq ready /\ ready' \subseteq alive'
  BY DEF ServiceInv, Settled, SupervisorActive, CompositionInv, EndsFromOutside,
         SupervisorCrashes, StopForced, MainExited, KillRest, Exit, supervisorVars, processVars,
         historyVars
<1>2. sig[Proxy] = "KILL" => sig'[Proxy] = "KILL"
  BY DEF EndsFromOutside, SupervisorCrashes, StopForced, MainExited, KillRest, Send, Processes,
         processVars
<1>3. \A b \in Backends : Able(b)' => Able(b)
  BY <1>1 DEF Able
<1> QED
  BY <1>1, <1>2, <1>3 DEF CompositionInv, StopInv, KillInv, DetectInv, Lasting, Counted

\* The stop of systemd is to the supervisor the signal it waits for.
LEMMA CompositionStopped ==
    ASSUME ServiceInv, CompositionInv, StopCommand
    PROVE  CompositionInv'
<1>1. /\ stopRequested' = (stopRequested \/ main # "ended")
      /\ UNCHANGED <<phase, failures, seen, alive, ready, downFor, stopFor, outage, outages>>
      /\ \/ main' = "ended" /\ returned' = "signalled"
         \/ main \notin {"start", "spawned"} /\ UNCHANGED <<main, returned, timer>>
  BY DEF StopCommand, Exit, historyVars
<1>2. /\ main = "probe" => timer <= ProbeTimeout
      /\ main \in {"term", "kill"} => stopRequested
      /\ timer \in Nat /\ stopFor \in Nat
  BY Durations DEF ServiceInv, BaseInv, TypeOK, LoopInv
<1>3. \A b \in Backends : Able(b)' <=> Able(b)
  BY <1>1 DEF Able
<1>4. StopInv'
  BY <1>1, <1>2, Durations DEF CompositionInv, StopInv, ServiceInv, BaseInv, TypeOK
<1>5. KillInv'
  <2>1. sig[Proxy] = "KILL" => sig'[Proxy] = "KILL"
    BY DEF StopCommand, Send, Processes
  <2> QED
    BY <1>1, <2>1 DEF CompositionInv, KillInv
<1>6. DetectInv' /\ Counted'
  <2>1. main' = "ended" \/ stopRequested'
    BY <1>1
  <2> QED
    BY <1>1, <1>3, <2>1 DEF CompositionInv, DetectInv, Lasting, Counted
<1> QED
  BY <1>1, <1>4, <1>5, <1>6 DEF CompositionInv

\* Nothing lives when a composition is started, so nobody is able to answer yet.
LEMMA CompositionStarted ==
    ASSUME ServiceInv, CompositionInv, Restart
    PROVE  CompositionInv'
<1>1. /\ main' = "start" /\ returned' = "no" /\ phase' = "startup" /\ ~ stopRequested'
      /\ stopFor' = 0 /\ failures' = 0 /\ outages' = 0
      /\ downFor' = [b \in Backends |-> 0]
      /\ alive' = {} /\ ready' = {}
  BY DEF Restart, StartAgain, ServiceInv, Settled, CompositionInv
<1> QED
  BY <1>1 DEF CompositionInv, StopInv, KillInv, DetectInv, Lasting, Counted

LEMMA CompositionOver ==
    ASSUME CompositionInv, ServiceTick, main = "ended"
    PROVE  CompositionInv'
<1>1. /\ main' = "ended" /\ stopFor' = 0 /\ downFor' = [b \in Backends |-> 0]
      /\ UNCHANGED <<returned, alive, ready, sig>>
  BY DEF ServiceTick, Passes, processVars
<1> QED
  BY <1>1 DEF CompositionInv, StopInv, KillInv, DetectInv, Lasting, Counted

LEMMA CompositionInvariant == ServiceSpec => [](ServiceInv /\ CompositionInv)
<1>1. ServiceInv /\ CompositionInv /\ [ServiceNext]_wvars => CompositionInv'
  BY ServiceStepIs, CompositionSupervised, CompositionEnded, CompositionStopped,
     CompositionStarted, CompositionOver DEF ServiceInv
<1> QED
  BY <1>1, CompositionInvInit, ServiceInvariant, PTL DEF ServiceSpec

\* Whatever systemd, the operator and crashes did before, every composition starts, finds
\* a dead backend and stops within its bounds, and no clean stop spares its proxy.
THEOREM Service_KeepsDeadlines ==
    ServiceSpec => [](StartupEndsInTime /\ DetectedInTime /\ StopsInTime /\ StopReachesProxy)
<1>1. ServiceInv /\ CompositionInv => StartupEndsInTime /\ StopReachesProxy
  BY DEF ServiceInv, BaseInv, LoopInv, StartupEndsInTime, CompositionInv, KillInv,
         StopReachesProxy
<1>2. ServiceInv /\ CompositionInv => DetectedInTime /\ StopsInTime
  BY StopBounded, DetectBounded DEF ServiceInv, CompositionInv
<1> QED
  BY <1>1, <1>2, CompositionInvariant, PTL

\* What the supervisor itself gives up has really failed: a composition that was healthy
\* fails by its own step only with the proxy gone or FailureThreshold real outages.
THEOREM Service_FailsOnlyAfterOutages ==
    ServiceSpec => [][ServiceSupervisor => FailsOnlyAfterOutages']_wvars
<1>1. ServiceInv /\ CompositionInv /\ [ServiceNext]_wvars
        => [ServiceSupervisor => FailsOnlyAfterOutages']_wvars
  BY CountedKept DEF ServiceInv, CompositionInv, ServiceSupervisor, Next
<1> QED
  BY <1>1, CompositionInvariant, PTL DEF ServiceSpec

(***************************************************************************)
(* A stop by systemd.  What the supervisor still has to wait for is always *)
(* less than what is left of TimeoutStopSec.                               *)
(***************************************************************************)

InTime ==
    unit = "stop-sigterm" /\ main # "ended" =>
        /\ stopRequested
        /\ main \in {"check", "wait"} => StopGrace + KillWait < unitTimer
        /\ main = "probe" => timer + StopGrace + KillWait < unitTimer
        /\ main = "term" => timer + KillWait < unitTimer
        /\ main = "kill" => timer < unitTimer

LEMMA InTimeSupervised ==
    ASSUME ServiceInv, InTime, ServiceSupervisor \/ ServiceProcess
    PROVE  InTime'
<1> USE Durations DEF InTime
<1>0. /\ UNCHANGED <<unit, unitTimer>> /\ unitTimer \in Nat /\ timer \in Nat
      /\ main \in {"start", "spawned"} => ~ stopRequested
  BY DEF ServiceSupervisor, ServiceProcess, unitVars, ServiceInv, UnitInv, BaseInv, TypeOK,
         LoopInv
<1>1. CASE StartFails \/ StartupExpires \/ ProxyExited \/ FailsClosed
  BY <1>1 DEF StartFails, StartupExpires, ProxyExited, FailsClosed, Exit
<1>2. CASE Spawn \/ HandlersInstalled \/ ProbeBegins
  <2>1. unit' = unit /\ ~ stopRequested /\ main # "ended"
    BY <1>0, <1>2 DEF Spawn, HandlersInstalled, ProbeBegins, InLoop
  <2> QED
    BY <2>1
<1>3. CASE StopBegins
  BY <1>0, <1>3 DEF StopBegins, InLoop, Exit
<1>4. ASSUME NEW b \in Backends, ProbeTimesOut(b) \/ ProbeAnswered(b) \/ ProbeRefused(b)
      PROVE  InTime'
  BY <1>0, <1>4 DEF ProbeTimesOut, ProbeAnswered, ProbeRefused, ProbeFinds
<1>5. CASE ProbeHealthy \/ StartupProbeBad \/ Tolerated
  BY <1>0, <1>5 DEF ProbeHealthy, StartupProbeBad, Tolerated, ProbeBad
<1>6. CASE WaitEnds \/ StopEnds \/ StopGivesUp
  BY <1>0, <1>6 DEF WaitEnds, StopEnds, StopGivesUp, Exit
<1>7. CASE GraceEnds
  BY <1>0, <1>7 DEF GraceEnds
<1>8. ASSUME NEW p \in Processes, Dies(p) PROVE InTime'
  BY <1>0, <1>8 DEF Dies, supervisorVars
<1>9. ASSUME NEW b \in Backends, Hangs(b) \/ Answers(b) PROVE InTime'
  BY <1>0, <1>9 DEF Hangs, Answers, supervisorVars
<1> QED
  BY <1>1, <1>2, <1>3, <1>4, <1>5, <1>6, <1>7, <1>8, <1>9
     DEF ServiceSupervisor, ServiceProcess, SupervisorStep, ProcessStep

LEMMA InTimeOthers ==
    ASSUME ServiceInv, StopInv, InTime, StopTime < TimeoutStopSec,
           \/ ServiceSignal \/ SupervisorCrashes \/ StopCommand \/ StopWhileEnding
           \/ StopWaiting \/ StopForced \/ MainExited \/ KillRest \/ Settles \/ Restart \/ StartLimitHit \/ ServiceTick
           \/ UNCHANGED wvars
    PROVE  InTime'
<1> USE Durations, UnitDurations DEF InTime
<1>0. /\ unitTimer \in Nat /\ timer \in Nat
      /\ main = "probe" => timer <= ProbeTimeout
      /\ main \in {"term", "kill"} => stopRequested
  BY DEF ServiceInv, UnitInv, BaseInv, TypeOK, LoopInv
<1>1. CASE ServiceSignal \/ StopWhileEnding \/ StopWaiting \/ MainExited \/ KillRest
           \/ Settles \/ Restart \/ StartLimitHit
  <2>1. unit' # "stop-sigterm"
    BY <1>1 DEF ServiceSignal, StopWhileEnding, StopWaiting, MainExited, KillRest, Settles, Restart, StartAgain,
                StartLimitHit, unitVars
  <2> QED
    BY <2>1
<1>2. CASE SupervisorCrashes \/ StopForced
  BY <1>2 DEF SupervisorCrashes, StopForced, Exit
<1>3. CASE StopCommand
  <2>1. SUFFICES ASSUME main' # "ended" PROVE InTime'
    OBVIOUS
  <2>2. /\ unitTimer' = TimeoutStopSec /\ UNCHANGED <<main, timer>>
        /\ main # "ended" /\ stopRequested'
    BY <1>3, <2>1 DEF StopCommand, Exit
  <2>3. main \in {"term", "kill"} => stopFor + timer <= ProbeTimeout + StopGrace + KillWait
    BY <1>0 DEF StopInv, ServiceInv, BaseInv, TypeOK
  <2>4. main = "term" => stopFor + timer <= ProbeTimeout + StopGrace
    BY <1>0 DEF StopInv
  <2>5. stopFor \in Nat /\ KillWait \in Nat /\ TimeoutStopSec \in Nat
    BY DEF ServiceInv, BaseInv, TypeOK, KillWait
  <2> QED
    BY <1>0, <2>2, <2>3, <2>4, <2>5 DEF StopTime
<1>4. CASE ServiceTick
  <2>1. /\ main \in {"probe", "term", "kill"} => timer > 0 /\ timer' = timer - 1
        /\ main # "check" /\ (main = "wait" => ~ stopRequested)
        /\ unit = "stop-sigterm" => unitTimer > 0 /\ unitTimer' = unitTimer - 1
        /\ UNCHANGED <<main, stopRequested, unit>>
    BY <1>0, <1>4 DEF ServiceTick, Passes, Urgent, SystemdUrgent
  <2> QED
    BY <1>0, <2>1
<1>5. CASE UNCHANGED wvars
  BY <1>5 DEF wvars, svars, supervisorVars, unitVars
<1> QED
  BY <1>1, <1>2, <1>3, <1>4, <1>5

\* A TimeoutStopSec above StopTime is never run out: no stop by systemd ends in the SIGKILL
\* of the control group while the supervisor still stops the proxy.
THEOREM Stop_NeverForced ==
    ASSUME StopTime < TimeoutStopSec
    PROVE  ServiceSpec => [][~ StopForced]_wvars
<1>1. ServiceInit => InTime
  BY DEF ServiceInit, InTime
<1>2. ServiceInv /\ StopInv /\ InTime /\ [ServiceNext]_wvars => InTime'
  BY InTimeSupervised, InTimeOthers DEF ServiceNext, Operator, Systemd
<1>3. ServiceInv /\ InTime /\ [ServiceNext]_wvars => [~ StopForced]_wvars
  <2> SUFFICES ASSUME ServiceInv, InTime, StopForced PROVE FALSE
    OBVIOUS
  <2>1. /\ main \in {"check", "probe", "wait", "term", "kill"} /\ timer \in Nat
        /\ unit = "stop-sigterm" /\ unitTimer = 0
    BY DEF StopForced, InTime, ServiceInv, BaseInv, TypeOK, LoopInv
  <2> QED
    BY <2>1, Durations DEF InTime
<1> QED
  <2>1. CompositionInv => StopInv
    BY DEF CompositionInv
  <2> QED
    BY <1>1, <1>2, <1>3, <2>1, CompositionInvariant, PTL DEF ServiceSpec

(***************************************************************************)
(* The start limit.  As long as every composition of a window ended by     *)
(* never being healthy, each took StartupTimeout and the wait for its      *)
(* restart; a window that lasts for StartLimitBurst of them ends first.    *)
(***************************************************************************)

Cycle == StartupTimeout + RestartSec

Due(n) == n * Cycle

LEMMA DueGrows ==
    /\ Due(0) = 0
    /\ \A n \in Nat : Due(n) \in Nat /\ Due(n + 1) = Due(n) + StartupTimeout + RestartSec
BY Durations, UnitDurations DEF Due, Cycle

\* The time from the window's beginning, with what is left of it, is the window.
LimitInv ==
    /\ ~ otherEnd /\ SupervisorActive /\ main = "ended" /\ returned = "failed"
         /\ phase = "startup" /\ Proxy \in alive
         => uptime >= StartupTimeout
    /\ ~ otherEnd /\ window > 0 =>
         /\ SupervisorActive => window + Due(starts - 1) + uptime <= StartLimitInterval
         /\ unit = "final-sigterm" /\ returned = "failed" /\ ~ stopJob
              => window + Due(starts - 1) + StartupTimeout <= StartLimitInterval
         /\ unit = "auto-restart"
              => window + Due(starts) <= StartLimitInterval + unitTimer
    /\ unit = "start-limit-hit" => otherEnd

LEMMA LimitInvInit == ServiceInit => LimitInv
BY DueGrows, UnitDurations DEF ServiceInit, Init, LimitInv, SupervisorActive

\* How a composition ends while its supervisor runs.
LEMMA EndsBySupervisor ==
    ASSUME ServiceInv, ServiceSupervisor \/ ServiceProcess \/ ServiceSignal
    PROVE  /\ uptime' = uptime \/ uptime' = 0
           /\ main' = "ended" /\ returned' = "failed" /\ phase' = "startup" /\ Proxy \in alive' =>
                \/ main = "ended" /\ returned = "failed" /\ phase = "startup" /\ Proxy \in alive
                     /\ uptime' = uptime
                \/ uptime' >= StartupTimeout
<1>1. CASE ServiceSupervisor
  <2>1. CASE StartFails
    BY <2>1 DEF StartFails, Exit, ServiceInv, Settled, processVars
  <2>2. CASE StartupExpires
    BY <2>2, Durations DEF StartupExpires, Exit, ServiceInv, BaseInv, TypeOK
  <2>3. CASE ProxyExited \/ FailsClosed
    BY <2>3 DEF ProxyExited, FailsClosed, ProbeBad, processVars
  <2>4. CASE Spawn \/ HandlersInstalled \/ ProbeBegins \/ ProbeHealthy \/ StartupProbeBad
             \/ Tolerated \/ WaitEnds \/ GraceEnds \/ \E b \in Backends : ProbeTimesOut(b)
    <3>1. main' # "ended" /\ (uptime' = uptime \/ uptime' = 0)
      BY <2>4 DEF Spawn, HandlersInstalled, ProbeBegins, ProbeHealthy, StartupProbeBad,
                  Tolerated, WaitEnds, GraceEnds, ProbeTimesOut, ProbeFinds
    <3> QED
      BY <3>1
  <2>5. CASE StopBegins \/ StopEnds \/ StopGivesUp
    <3>1. (main' = "ended" => returned' = "stopped") /\ uptime' = uptime
      BY <2>5 DEF StopBegins, StopEnds, StopGivesUp, Exit
    <3> QED
      BY <3>1
  <2> QED
    BY <1>1, <2>1, <2>2, <2>3, <2>4, <2>5 DEF ServiceSupervisor, SupervisorStep
<1>2. CASE ServiceProcess
  <2>1. UNCHANGED <<main, returned, phase, uptime>> /\ alive' \subseteq alive
    BY <1>2 DEF ServiceProcess, ProcessStep, Dies, Hangs, Answers, ProbeAnswered, ProbeRefused,
                ProbeFinds, supervisorVars, processVars
  <2> QED
    BY <2>1
<1>3. CASE ServiceSignal
  BY <1>3 DEF ServiceSignal, StopSignal, Exit, processVars
<1> QED
  BY <1>1, <1>2, <1>3

LEMMA LimitComposition ==
    ASSUME ServiceInv, LimitInv, ServiceSupervisor \/ ServiceProcess \/ ServiceSignal
    PROVE  LimitInv'
<1>1. UNCHANGED <<unit, stopJob, unitTimer, window, starts, otherEnd>>
  BY DEF ServiceSupervisor, ServiceProcess, ServiceSignal, unitVars
<1>2. /\ uptime' <= uptime /\ uptime \in Nat /\ uptime' \in Nat /\ window \in Nat
      /\ starts - 1 \in Nat /\ Due(starts - 1) \in Nat
  BY EndsBySupervisor, DueGrows, UnitDurations, Durations DEF ServiceInv, BaseInv, TypeOK, UnitInv
<1>3. unit = "final-sigterm" /\ returned' = "failed" => returned = "failed"
  BY DEF ServiceSupervisor, ServiceProcess, ServiceSignal, SupervisorActive, ProcessStep, Dies,
         Hangs, Answers, ProbeAnswered, ProbeRefused, ProbeFinds, supervisorVars
<1> QED
  BY <1>1, <1>2, <1>3, EndsBySupervisor, UnitDurations DEF LimitInv, SupervisorActive

LEMMA LimitOthers ==
    ASSUME ServiceInv, LimitInv,
           \/ SupervisorCrashes \/ StopCommand \/ StopWhileEnding \/ StopWaiting
           \/ StopForced \/ MainExited \/ KillRest \/ Settles \/ Restart \/ StartLimitHit \/ ServiceTick,
           StartLimitInterval <= Due(StartLimitBurst)
    PROVE  LimitInv'
<1> USE Durations, UnitDurations DEF LimitInv, SupervisorActive
<1>0. /\ uptime \in Nat /\ window \in Nat /\ unitTimer \in Nat /\ starts \in Nat
      /\ starts - 1 \in Nat /\ Due(starts - 1) \in Nat /\ Due(starts) \in Nat
      /\ Due(starts) = Due(starts - 1) + StartupTimeout + RestartSec
  BY DueGrows DEF ServiceInv, BaseInv, TypeOK, UnitInv
<1>1. CASE SupervisorCrashes
  <2>1. otherEnd'
    BY <1>1 DEF SupervisorCrashes
  <2>2. unit' = unit /\ unit \in {"running", "stop-sigterm"}
    BY <1>1 DEF SupervisorCrashes
  <2> QED
    BY <2>1, <2>2
<1>2. CASE StopCommand
  <2>1. /\ UNCHANGED <<phase, uptime, window, starts, otherEnd, alive>>
        /\ unit = "running" /\ unit' = "stop-sigterm"
        /\ \/ returned' = "signalled"
           \/ UNCHANGED <<main, returned>>
    BY <1>2 DEF StopCommand, Exit
  <2> QED
    BY <1>0, <2>1
<1>10. CASE StopWhileEnding
  <2>1. /\ unit' = "final-sigterm" /\ stopJob' = TRUE /\ otherEnd' = otherEnd
    BY <1>10 DEF StopWhileEnding
  <2> QED
    BY <2>1
<1>3. CASE StopWaiting \/ StopForced
  <2>1. /\ UNCHANGED <<uptime, window, starts, otherEnd>>
        /\ \/ unit' = "inactive"
           \/ unit' = "stop-sigterm" /\ unit = "stop-sigterm" /\ alive' = {}
    BY <1>3 DEF StopWaiting, StopForced, svars, supervisorVars
  <2> QED
    BY <1>0, <2>1
<1>4. CASE MainExited
  <2>1. /\ UNCHANGED <<main, returned, phase, uptime, alive, stopJob, window, starts>>
        /\ unit' = "final-sigterm" /\ SupervisorActive /\ main = "ended"
        /\ ~ otherEnd' => ~ otherEnd /\ phase # "monitor" /\ Proxy \in alive
    BY <1>4 DEF MainExited, supervisorVars
  <2>2. phase \in {"startup", "monitor"}
    BY DEF ServiceInv, BaseInv, TypeOK
  <2> QED
    BY <1>0, <2>1, <2>2
<1>5. CASE KillRest
  <2>1. /\ UNCHANGED <<returned, window, starts, otherEnd, unit, stopJob>>
        /\ unit = "final-sigterm"
    BY <1>5 DEF KillRest, supervisorVars, unitVars
  <2> QED
    BY <1>0, <2>1
<1>6. CASE Settles
  <2>1. /\ unit = "final-sigterm" /\ UNCHANGED <<window, starts, otherEnd>>
        /\ \/ returned = "failed" /\ ~ stopJob /\ unit' = "auto-restart" /\ unitTimer' = RestartSec
           \/ unit' = "inactive"
    BY <1>6 DEF Settles
  <2> QED
    BY <1>0, <2>1
<1>7. CASE Restart
  <2>1. /\ unit = "auto-restart" /\ unitTimer = 0 /\ unit' = "running"
        /\ main' = "start" /\ uptime' = 0
        /\ \/ window' = StartLimitInterval /\ starts' = 1
           \/ starts' = starts + 1 /\ UNCHANGED <<window, otherEnd>>
    BY <1>7 DEF Restart, StartAgain
  <2> QED
    BY <1>0, <2>1, DueGrows
<1>8. CASE StartLimitHit
  <2>1. /\ unit = "auto-restart" /\ unitTimer = 0 /\ window > 0 /\ starts = StartLimitBurst
        /\ otherEnd' = otherEnd /\ unit' = "start-limit-hit"
    BY <1>8 DEF StartLimitHit
  <2>2. otherEnd
    BY <1>0, <2>1
  <2> QED
    BY <2>1, <2>2
<1>9. CASE ServiceTick
  <2>1. /\ UNCHANGED <<main, phase, returned, alive, unit, stopJob, starts, otherEnd>>
        /\ uptime' = uptime \/ (main # "ended" /\ uptime' = uptime + 1)
        /\ window' = (IF window > 0 THEN window - 1 ELSE 0)
        /\ unitTimer' = (IF unitTimer > 0 THEN unitTimer - 1 ELSE 0)
    BY <1>9 DEF ServiceTick, Passes, processVars
  <2> QED
    BY <1>0, <2>1
<1> QED
  BY <1>1, <1>2, <1>3, <1>4, <1>5, <1>6, <1>7, <1>8, <1>9, <1>10

LEMMA LimitStutters ==
    ASSUME LimitInv, UNCHANGED wvars
    PROVE  LimitInv'
BY DEF wvars, svars, supervisorVars, processVars, unitVars, LimitInv, SupervisorActive

\* Why the start limit does not bound every restart loop: if StartLimitBurst starts that
\* each use up their startup deadline take as long as the window, only a composition that
\* ended otherwise than by never being healthy makes the unit give up.
THEOREM Limit_NeedsOtherEnd ==
    ASSUME StartLimitInterval <= StartLimitBurst * (StartupTimeout + RestartSec)
    PROVE  ServiceSpec => []LimitNeedsOtherEnd
<1>1. StartLimitInterval <= Due(StartLimitBurst)
  BY DEF Due, Cycle
<1>2. ServiceInv /\ LimitInv /\ [ServiceNext]_wvars => LimitInv'
  BY <1>1, LimitComposition, LimitOthers, LimitStutters DEF ServiceNext, Operator, Systemd
<1>3. LimitInv => LimitNeedsOtherEnd
  BY DEF LimitInv, LimitNeedsOtherEnd
<1> QED
  BY <1>2, <1>3, LimitInvInit, ServiceInvariant, PTL DEF ServiceSpec

\* The durations the supervisor and the example unit ship with, in seconds.
Shipped ==
    /\ StartupTimeout = 20 /\ ProbeInterval = 1 /\ ProbeTimeout = 2 /\ StopGrace = 5
    /\ RestartSec = 2 /\ TimeoutStopSec = 15
    /\ StartLimitInterval = 30 /\ StartLimitBurst = 5

\* As shipped a stop is never forced; and a workspace that just never gets healthy is
\* started again without end, its start limit never reached.
THEOREM Shipped_Unit ==
    ASSUME Shipped
    PROVE  ServiceSpec => [][~ StopForced]_wvars /\ []LimitNeedsOtherEnd
<1>1. StopTime < TimeoutStopSec
  BY DEF Shipped, StopTime, KillWait
<1>2. StartLimitInterval <= StartLimitBurst * (StartupTimeout + RestartSec)
  BY DEF Shipped
<1>3. ServiceSpec => [][~ StopForced]_wvars
  BY <1>1, Stop_NeverForced
<1>4. ServiceSpec => []LimitNeedsOtherEnd
  BY <1>2, Limit_NeedsOtherEnd
<1> QED
  BY <1>3, <1>4

=============================================================================
