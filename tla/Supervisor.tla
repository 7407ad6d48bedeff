----------------------------- MODULE Supervisor -----------------------------
(***************************************************************************)
(* The workspace supervisor (deploy/workspace/workspace-supervisor.py):    *)
(* one asyncio task that starts the proxy, waits until every named backend *)
(* answers a probe, then probes them for as long as the workspace lives,   *)
(* and ends the workspace after FailureThreshold bad probes in a row, when *)
(* the proxy exits, or when it is told to stop.                            *)
(*                                                                         *)
(* Time is discrete.  Tick waits for everything the event loop would run   *)
(* at once, so a deadline is met to the tick.  What the proxy and the      *)
(* backends do is not in the code: they come up, hang, recover and die     *)
(* whenever they like.                                                     *)
(***************************************************************************)
EXTENDS Naturals, FiniteSets

CONSTANTS
    Proxy,              \* the proxy process
    Backends,           \* names of the configured backends, one process each
    Group,              \* the processes in the proxy's process group
    StartupTimeout,
    ProbeInterval,
    ProbeTimeout,
    FailureThreshold,
    StopGrace,
    Horizon             \* how far downFor and stopFor count

Processes == {Proxy} \union Backends

\* load_backend_names, _positive_float and _positive_int refuse other values.
ASSUME SupervisorAssumption ==
    /\ Backends # {} /\ IsFiniteSet(Backends) /\ Proxy \notin Backends
    /\ Proxy \in Group /\ Group \subseteq Processes
    /\ {StartupTimeout, ProbeInterval, ProbeTimeout, FailureThreshold, StopGrace}
         \subseteq Nat \ {0}
    /\ Horizon \in Nat

VARIABLES
    main,           \* where supervise() stands
    phase,          \* which of its two loops
    uptime,         \* loop.time() since the proxy was started, in the first loop
    failures,       \* consecutive_failures
    stopRequested,
    timer,          \* what is left of the await
    seen,           \* what the probes of probe_all have found
    returned,       \* how the process ended
    alive,          \* processes of the composition
    ready,          \* backends that would answer
    sig,            \* the strongest signal a process was sent
    downFor,        \* history: for how long a backend has not been able to answer
    stopFor,        \* history: for how long a stop has been requested
    outage,         \* history: a backend was down at some time of this probe
    outages         \* history: probes in a row of which that was true

supervisorVars == <<main, phase, uptime, failures, stopRequested, timer, seen, returned>>
processVars == <<alive, ready, sig>>
historyVars == <<downFor, stopFor, outage, outages>>
svars == <<supervisorVars, processVars, historyVars>>

TypeOK ==
    /\ main \in {"start", "spawned", "check", "probe", "wait", "term", "kill", "ended"}
    /\ phase \in {"startup", "monitor"}
    /\ uptime \in 0 .. StartupTimeout + ProbeTimeout + ProbeInterval
    /\ failures \in 0 .. FailureThreshold
    /\ stopRequested \in BOOLEAN
    /\ timer \in Nat
    /\ seen \in [Backends -> {"pending", "healthy", "unhealthy"}]
    /\ returned \in {"no", "stopped", "failed", "signalled"}
    /\ alive \subseteq Processes
    /\ ready \subseteq Backends
    /\ sig \in [Processes -> {"none", "TERM", "KILL"}]
    /\ downFor \in [Backends -> 0 .. Horizon]
    /\ stopFor \in 0 .. Horizon
    /\ outage \in BOOLEAN
    /\ outages \in 0 .. FailureThreshold

-----------------------------------------------------------------------------

Smaller(m, n) == IF m < n THEN m ELSE n

\* A backend answers through the proxy, and at once.
Able(b) == {Proxy, b} \subseteq alive /\ b \in ready

Pending == {b \in Backends : seen[b] = "pending"}

KillWait == IF StopGrace > 1 THEN StopGrace ELSE 1

Init ==
    /\ main = "start"
    /\ phase = "startup"
    /\ uptime = 0
    /\ failures = 0
    /\ stopRequested = FALSE
    /\ timer = 0
    /\ seen = [b \in Backends |-> "pending"]
    /\ returned = "no"
    /\ alive = {}
    /\ ready = {}
    /\ sig = [p \in Processes |-> "none"]
    /\ downFor = [b \in Backends |-> 0]
    /\ stopFor = 0
    /\ outage = FALSE
    /\ outages = 0

Exit(how) ==
    /\ main' = "ended"
    /\ returned' = how
    /\ timer' = 0

Send(signal, targets) ==
    sig' = [p \in Processes |-> IF p \in targets \intersect alive /\ sig[p] # "KILL"
                                THEN signal ELSE sig[p]]

\* Reading the configuration or starting the proxy raises.
StartFails ==
    /\ main = "start"
    /\ Exit("failed")
    /\ UNCHANGED <<phase, uptime, failures, stopRequested, seen, processVars, historyVars>>

\* The proxy starts its backends; none of them answers yet.
Spawn ==
    /\ main = "start"
    /\ main' = "spawned"
    /\ alive' = Processes
    /\ UNCHANGED <<phase, uptime, failures, stopRequested, timer, seen, returned,
                   ready, sig, historyVars>>

\* From here on SIGTERM and SIGINT set stop_requested.
HandlersInstalled ==
    /\ main = "spawned"
    /\ main' = "check"
    /\ UNCHANGED <<phase, uptime, failures, stopRequested, timer, seen, returned,
                   processVars, historyVars>>

MutantInLoop == main = "check"

\* The head of either loop, with the startup deadline of the first one.
InLoop ==
    /\ main = "check"
    /\ phase = "startup" => uptime < StartupTimeout

\* _nudge_proxy_to_stop: the proxy alone is told, the rest is left to systemd.
StartupExpires ==
    /\ main = "check"
    /\ phase = "startup" /\ uptime >= StartupTimeout
    /\ Send("TERM", {Proxy})
    /\ Exit("failed")
    /\ UNCHANGED <<phase, uptime, failures, stopRequested, seen, alive, ready, historyVars>>

\* _terminate_proxy_group, up to its first await.
StopBegins ==
    /\ InLoop /\ stopRequested
    /\ Send("TERM", IF Proxy \in alive THEN Group ELSE {})
    /\ \/ /\ Proxy \in alive
          /\ main' = "term"
          /\ timer' = StopGrace
          /\ UNCHANGED returned
       \/ Proxy \notin alive /\ Exit("stopped")
    /\ UNCHANGED <<phase, uptime, failures, stopRequested, seen, alive, ready, historyVars>>

ProxyExited ==
    /\ InLoop /\ ~ stopRequested
    /\ Proxy \notin alive
    /\ Exit("failed")
    /\ UNCHANGED <<phase, uptime, failures, stopRequested, seen, processVars, historyVars>>

MutantProbeBegins ==
    /\ InLoop
    /\ Proxy \in alive
    /\ main' = "probe"
    /\ timer' = ProbeTimeout
    /\ seen' = [b \in Backends |-> "pending"]
    /\ outage' = \E b \in Backends : ~ Able(b)
    /\ UNCHANGED <<phase, uptime, failures, stopRequested, returned, processVars,
                   downFor, stopFor, outages>>

ProbeBegins ==
    /\ InLoop /\ ~ stopRequested
    /\ Proxy \in alive
    /\ main' = "probe"
    /\ timer' = ProbeTimeout
    /\ seen' = [b \in Backends |-> "pending"]
    /\ outage' = \E b \in Backends : ~ Able(b)
    /\ UNCHANGED <<phase, uptime, failures, stopRequested, returned, processVars,
                   downFor, stopFor, outages>>

ProbeFinds(b, what) ==
    /\ main = "probe"
    /\ b \in Pending
    /\ seen' = [seen EXCEPT ![b] = what]
    /\ UNCHANGED <<main, phase, uptime, failures, stopRequested, timer, returned,
                   processVars, historyVars>>

ProbeAnswered(b) == Able(b) /\ ProbeFinds(b, "healthy")

\* The connection is refused or closed, or an error comes back.
ProbeRefused(b) == ~ Able(b) /\ ProbeFinds(b, "unhealthy")

ProbeTimesOut(b) == timer = 0 /\ ProbeFinds(b, "unhealthy")

MutantHealthy == \E b \in Backends : seen[b] = "healthy"

Healthy == \A b \in Backends : seen[b] = "healthy"

CountOutage == outages' = IF outage THEN Smaller(outages + 1, FailureThreshold) ELSE 0

MutantProbeHealthy ==
    /\ main = "probe" /\ Healthy
    /\ IF phase = "startup" THEN main' = "check" /\ timer' = 0
                            ELSE main' = "wait" /\ timer' = ProbeInterval
    /\ phase' = "monitor"
    /\ uptime' = 0
    /\ CountOutage
    /\ UNCHANGED <<failures, stopRequested, seen, returned, processVars, downFor, stopFor, outage>>

\* The first loop is left at once, the second one waits for the next probe.
ProbeHealthy ==
    /\ main = "probe" /\ Healthy
    /\ IF phase = "startup" THEN main' = "check" /\ timer' = 0
                            ELSE main' = "wait" /\ timer' = ProbeInterval
    /\ phase' = "monitor"
    /\ uptime' = 0
    /\ failures' = 0
    /\ CountOutage
    /\ UNCHANGED <<stopRequested, seen, returned, processVars, downFor, stopFor, outage>>

ProbeBad ==
    /\ main = "probe" /\ Pending = {} /\ ~ Healthy
    /\ CountOutage

StartupProbeBad ==
    /\ ProbeBad /\ phase = "startup"
    /\ main' = "wait"
    /\ timer' = ProbeInterval
    /\ UNCHANGED <<phase, uptime, failures, stopRequested, seen, returned, processVars,
                   downFor, stopFor, outage>>

MutantTolerated ==
    /\ ProbeBad /\ phase = "monitor"
    /\ failures + 1 <= FailureThreshold
    /\ failures' = failures + 1
    /\ main' = "wait"
    /\ timer' = ProbeInterval
    /\ UNCHANGED <<phase, uptime, stopRequested, seen, returned, processVars,
                   downFor, stopFor, outage>>

Tolerated ==
    /\ ProbeBad /\ phase = "monitor"
    /\ failures + 1 < FailureThreshold
    /\ failures' = failures + 1
    /\ main' = "wait"
    /\ timer' = ProbeInterval
    /\ UNCHANGED <<phase, uptime, stopRequested, seen, returned, processVars,
                   downFor, stopFor, outage>>

MutantFailsClosed ==
    /\ ProbeBad /\ phase = "monitor"
    /\ failures + 2 >= FailureThreshold
    /\ failures' = failures + 1
    /\ Send("TERM", {Proxy})
    /\ Exit("failed")
    /\ UNCHANGED <<phase, uptime, stopRequested, seen, alive, ready, downFor, stopFor, outage>>

FailsClosed ==
    /\ ProbeBad /\ phase = "monitor"
    /\ failures + 1 >= FailureThreshold
    /\ failures' = failures + 1
    /\ Send("TERM", {Proxy})
    /\ Exit("failed")
    /\ UNCHANGED <<phase, uptime, stopRequested, seen, alive, ready, downFor, stopFor, outage>>

\* _wait_or_stop
WaitEnds ==
    /\ main = "wait"
    /\ timer = 0 \/ stopRequested
    /\ main' = "check"
    /\ timer' = 0
    /\ UNCHANGED <<phase, uptime, failures, stopRequested, seen, returned,
                   processVars, historyVars>>

\* process.wait() returns.
StopEnds ==
    /\ main \in {"term", "kill"}
    /\ Proxy \notin alive
    /\ Exit("stopped")
    /\ UNCHANGED <<phase, uptime, failures, stopRequested, seen, processVars, historyVars>>

MutantGraceEnds ==
    /\ main = "term" /\ timer = 0
    /\ Proxy \in alive
    /\ Exit("stopped")
    /\ UNCHANGED <<phase, uptime, failures, stopRequested, seen, alive, ready, sig, historyVars>>

GraceEnds ==
    /\ main = "term" /\ timer = 0
    /\ Proxy \in alive
    /\ Send("KILL", Group)
    /\ main' = "kill"
    /\ timer' = KillWait
    /\ UNCHANGED <<phase, uptime, failures, stopRequested, seen, returned, alive, ready, historyVars>>

\* A process killed in an uninterruptible sleep outlives this wait.
StopGivesUp ==
    /\ main = "kill" /\ timer = 0
    /\ Proxy \in alive
    /\ Exit("stopped")
    /\ UNCHANGED <<phase, uptime, failures, stopRequested, seen, processVars, historyVars>>

SupervisorStep ==
    \/ StartFails \/ Spawn \/ HandlersInstalled
    \/ StartupExpires \/ StopBegins \/ ProxyExited \/ ProbeBegins
    \/ \E b \in Backends : ProbeTimesOut(b)
    \/ ProbeHealthy \/ StartupProbeBad \/ Tolerated \/ FailsClosed
    \/ WaitEnds \/ StopEnds \/ GraceEnds \/ StopGivesUp

-----------------------------------------------------------------------------
(* The processes, the signal and the clock. *)

\* SIGTERM or SIGINT: before the handlers are installed it kills the supervisor.
StopSignal ==
    /\ main # "ended" /\ ~ stopRequested
    /\ stopRequested' = TRUE
    /\ \/ /\ main \in {"start", "spawned"}
          /\ Exit("signalled")
       \/ /\ main \notin {"start", "spawned"}
          /\ UNCHANGED <<main, returned, timer>>
    /\ UNCHANGED <<phase, uptime, failures, seen, processVars, historyVars>>

Dies(p) ==
    /\ p \in alive
    /\ alive' = alive \ {p}
    /\ ready' = ready \ {p}
    /\ outage' = TRUE
    /\ UNCHANGED <<supervisorVars, sig, downFor, stopFor, outages>>

Hangs(b) ==
    /\ b \in ready
    /\ ready' = ready \ {b}
    /\ outage' = TRUE
    /\ UNCHANGED <<supervisorVars, alive, sig, downFor, stopFor, outages>>

Answers(b) ==
    /\ b \in alive \ ready
    /\ ready' = ready \union {b}
    /\ downFor' = [downFor EXCEPT ![b] = IF Proxy \in alive THEN 0 ELSE @]
    /\ UNCHANGED <<supervisorVars, alive, sig, stopFor, outage, outages>>

ProcessStep ==
    \/ \E p \in Processes : Dies(p)
    \/ \E b \in Backends : Hangs(b) \/ Answers(b) \/ ProbeAnswered(b) \/ ProbeRefused(b)

\* What happens before time passes: an able backend answers, the event loop runs.
Urgent ==
    \/ main \in {"start", "spawned", "check"}
    \/ main = "probe" /\ (timer = 0 \/ Pending = {} \/ \E b \in Pending : Able(b))
    \/ main = "wait" /\ (timer = 0 \/ stopRequested)
    \/ main \in {"term", "kill"} /\ (timer = 0 \/ Proxy \notin alive)

Passes ==
    /\ ~ Urgent
    /\ timer' = IF timer > 0 THEN timer - 1 ELSE 0
    /\ uptime' = IF phase = "startup" /\ main \in {"probe", "wait"}
                  THEN uptime + 1 ELSE uptime
    /\ downFor' = [b \in Backends |->
                     IF Able(b) \/ main = "ended" THEN 0 ELSE Smaller(downFor[b] + 1, Horizon)]
    /\ stopFor' = IF stopRequested /\ main # "ended" THEN Smaller(stopFor + 1, Horizon) ELSE 0
    /\ UNCHANGED <<main, phase, failures, stopRequested, seen, returned, processVars,
                   outage, outages>>

Tick == main # "ended" /\ Passes

Next == SupervisorStep \/ ProcessStep \/ StopSignal \/ Tick

Spec == Init /\ [][Next]_svars

-----------------------------------------------------------------------------
(* Properties. *)

\* The longest a backend can be unable to answer before the workspace ends: the
\* rest of a probe it had answered, then FailureThreshold waits and probes.
DetectionTime == ProbeTimeout + FailureThreshold * (ProbeInterval + ProbeTimeout)

\* A half-dead workspace does not last: once every backend was healthy, none stays
\* dead or silent for longer than DetectionTime under a running supervisor.
DetectedInTime ==
    main # "ended" /\ phase = "monitor" /\ ~ stopRequested
        => \A b \in Backends : downFor[b] <= DetectionTime

\* The supervisor gives a healthy workspace up only when the proxy exits or when in
\* each of FailureThreshold consecutive probes some backend was really down.
FailsOnlyAfterOutages ==
    returned = "failed" /\ phase = "monitor"
        => outages = FailureThreshold \/ Proxy \notin alive

\* A start does not last: the first loop is left one late probe after its deadline.
StartupEndsInTime ==
    phase = "startup" /\ main # "ended"
        => uptime <= StartupTimeout + ProbeTimeout + ProbeInterval - 1

\* The longest a requested stop takes: the probe it interrupts, and both waits.
StopTime == ProbeTimeout + StopGrace + KillWait

\* A stop is carried out in bounded time, whatever the supervisor was doing and
\* whether or not the proxy obeys.
StopsInTime == stopRequested /\ main # "ended" => stopFor <= StopTime

\* A clean stop leaves no proxy behind that was not sent SIGKILL.
StopReachesProxy == returned = "stopped" => Proxy \notin alive \/ sig[Proxy] = "KILL"

=============================================================================
