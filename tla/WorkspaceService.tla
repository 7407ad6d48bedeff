-------------------------- MODULE WorkspaceService --------------------------
(***************************************************************************)
(* The workspace under systemd, as the unit in                             *)
(* deploy/workspace/haru-workspace.service.example configures it: systemd  *)
(* starts the supervisor, ends every process of the control group when the *)
(* supervisor ends or the operator stops the unit, and starts the          *)
(* composition again after a failure unless it was started too often.      *)
(* systemd itself is external; what is modelled is what the directives of  *)
(* the unit ask of it.                                                     *)
(***************************************************************************)
EXTENDS Supervisor

CONSTANTS
    RestartSec,
    TimeoutStopSec,
    StartLimitInterval,
    StartLimitBurst

ASSUME ServiceAssumption ==
    /\ {RestartSec, TimeoutStopSec, StartLimitInterval, StartLimitBurst} \subseteq Nat \ {0}

VARIABLES
    unit,           \* the state of the unit
    stopJob,        \* the operator asked to stop it
    unitTimer,      \* what is left of RestartSec or TimeoutStopSec
    window,         \* what is left of StartLimitIntervalSec
    starts,         \* starts in it
    otherEnd        \* history: since the window began some composition ended
                    \* otherwise than by never being healthy

unitVars == <<unit, stopJob, unitTimer, window, starts, otherEnd>>
wvars == <<svars, unitVars>>

ServiceTypeOK ==
    /\ TypeOK
    /\ unit \in {"running", "stop-sigterm", "final-sigterm", "auto-restart",
                 "inactive", "start-limit-hit"}
    /\ stopJob \in BOOLEAN
    /\ unitTimer \in Nat
    /\ window \in 0 .. StartLimitInterval
    /\ starts \in 1 .. StartLimitBurst
    /\ otherEnd \in BOOLEAN

ServiceInit ==
    /\ Init
    /\ unit = "running"
    /\ stopJob = FALSE
    /\ unitTimer = 0
    /\ window = StartLimitInterval
    /\ starts = 1
    /\ otherEnd = FALSE

SupervisorActive == unit \in {"running", "stop-sigterm"}

ServiceSupervisor == SupervisorActive /\ SupervisorStep /\ UNCHANGED unitVars

ServiceProcess == ProcessStep /\ UNCHANGED unitVars

\* The supervisor is killed, or ends with an error nothing catches.
SupervisorCrashes ==
    /\ SupervisorActive /\ main # "ended"
    /\ Exit("failed")
    /\ otherEnd' = TRUE
    /\ UNCHANGED <<phase, uptime, failures, stopRequested, seen, processVars, historyVars,
                   unit, stopJob, unitTimer, window, starts>>

\* KillMode=control-group: the supervisor, the proxy and the backends get SIGTERM.  It
\* may be the second one of the supervisor, or too late for it.
StopCommand ==
    /\ unit = "running"
    /\ unit' = "stop-sigterm"
    /\ stopJob' = TRUE
    /\ unitTimer' = TimeoutStopSec
    /\ stopRequested' = (stopRequested \/ main # "ended")
    /\ Send("TERM", Processes)
    /\ \/ main \in {"start", "spawned"} /\ Exit("signalled")
       \/ main \notin {"start", "spawned"} /\ UNCHANGED <<main, returned, timer>>
    /\ UNCHANGED <<phase, uptime, failures, seen, alive, ready, historyVars,
                   window, starts, otherEnd>>

\* Somebody else sends the supervisor a SIGTERM: a stop nobody asked systemd for.
ServiceSignal == unit = "running" /\ StopSignal /\ UNCHANGED unitVars

\* The operator stops a unit whose supervisor failed and whose rest is being ended: the
\* job changes no process, it forbids the restart.
StopWhileEnding ==
    /\ unit = "final-sigterm" /\ ~ stopJob
    /\ stopJob' = TRUE
    /\ UNCHANGED <<svars, unit, unitTimer, window, starts, otherEnd>>

\* The operator stops a unit that waits for its restart.
StopWaiting ==
    /\ unit = "auto-restart"
    /\ unit' = "inactive"
    /\ stopJob' = TRUE
    /\ unitTimer' = 0
    /\ UNCHANGED <<svars, window, starts, otherEnd>>

\* TimeoutStopSec is over and the supervisor is still there.
StopForced ==
    /\ unit = "stop-sigterm" /\ unitTimer = 0 /\ main # "ended"
    /\ alive' = {}
    /\ ready' = {}
    /\ Exit("failed")
    /\ UNCHANGED <<phase, uptime, failures, stopRequested, seen, sig, historyVars,
                   unit, stopJob, unitTimer, window, starts, otherEnd>>

\* The main process is gone: what is left of the control group is told to end.
MainExited ==
    /\ SupervisorActive /\ main = "ended"
    /\ unit' = "final-sigterm"
    /\ unitTimer' = TimeoutStopSec
    /\ otherEnd' = (otherEnd \/ phase = "monitor" \/ Proxy \notin alive)
    /\ Send("TERM", Processes)
    /\ UNCHANGED <<supervisorVars, alive, ready, historyVars, stopJob, window, starts>>

KillRest ==
    /\ unit = "final-sigterm" /\ unitTimer = 0 /\ alive # {}
    /\ alive' = {}
    /\ ready' = {}
    /\ UNCHANGED <<supervisorVars, sig, historyVars, unitVars>>

MutantSettles ==
    /\ unit = "final-sigterm"
    /\ IF returned = "failed" /\ ~ stopJob
       THEN unit' = "auto-restart" /\ unitTimer' = RestartSec
       ELSE unit' = "inactive" /\ unitTimer' = 0
    /\ UNCHANGED <<svars, stopJob, window, starts, otherEnd>>

MutantSettlesAnyway ==
    /\ unit = "final-sigterm" /\ alive = {}
    /\ IF returned = "failed"
       THEN unit' = "auto-restart" /\ unitTimer' = RestartSec
       ELSE unit' = "inactive" /\ unitTimer' = 0
    /\ UNCHANGED <<svars, stopJob, window, starts, otherEnd>>

\* Restart=on-failure: not after a clean exit, a SIGTERM or a stop.
Settles ==
    /\ unit = "final-sigterm" /\ alive = {}
    /\ IF returned = "failed" /\ ~ stopJob
       THEN unit' = "auto-restart" /\ unitTimer' = RestartSec
       ELSE unit' = "inactive" /\ unitTimer' = 0
    /\ UNCHANGED <<svars, stopJob, window, starts, otherEnd>>

\* A new supervisor process; the processes are those that are there.
StartAgain ==
    /\ unit' = "running"
    /\ main' = "start"
    /\ phase' = "startup"
    /\ uptime' = 0
    /\ failures' = 0
    /\ stopRequested' = FALSE
    /\ timer' = 0
    /\ seen' = [b \in Backends |-> "pending"]
    /\ returned' = "no"
    /\ sig' = [p \in Processes |-> "none"]
    /\ downFor' = [b \in Backends |-> 0]
    /\ stopFor' = 0
    /\ outage' = FALSE
    /\ outages' = 0
    /\ UNCHANGED <<alive, ready>>

\* The start limit counts from the first start of a window.
Restart ==
    /\ unit = "auto-restart" /\ unitTimer = 0
    /\ \/ /\ window = 0
          /\ window' = StartLimitInterval
          /\ starts' = 1
          /\ otherEnd' = FALSE
          /\ StartAgain
       \/ /\ window > 0 /\ starts < StartLimitBurst
          /\ starts' = starts + 1
          /\ UNCHANGED <<window, otherEnd>>
          /\ StartAgain
    /\ UNCHANGED <<stopJob, unitTimer>>

StartLimitHit ==
    /\ unit = "auto-restart" /\ unitTimer = 0
    /\ window > 0 /\ starts = StartLimitBurst
    /\ unit' = "start-limit-hit"
    /\ UNCHANGED <<svars, stopJob, unitTimer, window, starts, otherEnd>>

SystemdUrgent ==
    \/ SupervisorActive /\ main = "ended"
    \/ unit = "stop-sigterm" /\ unitTimer = 0
    \/ unit = "final-sigterm" /\ (unitTimer = 0 \/ alive = {})
    \/ unit = "auto-restart" /\ unitTimer = 0

ServiceTick ==
    /\ ~ SystemdUrgent /\ Passes
    /\ unit \notin {"inactive", "start-limit-hit"}
    /\ unitTimer' = IF unitTimer > 0 THEN unitTimer - 1 ELSE 0
    /\ window' = IF window > 0 THEN window - 1 ELSE 0
    /\ UNCHANGED <<unit, stopJob, starts, otherEnd>>

Systemd ==
    \/ StopForced \/ MainExited \/ KillRest \/ Settles \/ Restart \/ StartLimitHit

Operator == StopCommand \/ ServiceSignal \/ StopWhileEnding \/ StopWaiting

ServiceNext ==
    \/ ServiceSupervisor \/ ServiceProcess \/ SupervisorCrashes
    \/ Operator \/ Systemd \/ ServiceTick

ServiceSpec == ServiceInit /\ [][ServiceNext]_wvars

\* The event loop and systemd go on.  Time passes and an able backend answers,
\* strongly fair: backends cannot come and go infinitely often within an instant.
\* Processes, operators and crashes do what they like.
FairServiceSpec ==
    /\ ServiceSpec
    /\ WF_wvars(ServiceSupervisor)
    /\ WF_wvars(Systemd)
    /\ SF_wvars(ServiceTick)
    /\ \A b \in Backends : SF_wvars(ProbeAnswered(b) /\ UNCHANGED unitVars)

-----------------------------------------------------------------------------
(* Properties. *)

\* No composition is started while a process of an earlier one still lives: the new
\* proxy never finds its port taken, nor a second backend on the same workspace.
OneComposition == main = "start" => alive = {}

\* A backend that dies takes its composition with it: in the end it is replaced or
\* the unit is down, whatever else happens.
DeadBackendReplaced ==
    \A b \in Backends :
        unit = "running" /\ main \notin {"start", "ended"} /\ b \notin alive
            ~> unit # "running" \/ main = "ended"

\* A composition that merely never gets healthy is too slow for the start limit: the
\* unit only gives up when some composition ended otherwise.
LimitNeedsOtherEnd == unit = "start-limit-hit" => otherEnd

\* What docs/WORKSPACE-BACKENDS.md says of StartLimit*: a workspace that from some time on
\* never gets healthy, without a crash or an exit of its proxy, is not started again and
\* again; it is healthy once more or left down.
RestartStormPrevented ==
    <>[](phase = "startup" /\ ~ otherEnd) => <>(unit \in {"inactive", "start-limit-hit"})

\* A stop ends with nothing left of the control group and the unit down, also when the
\* supervisor, interrupted in the last probe before it would have given up, ends with
\* status 1 all the same, and when it is too slow for TimeoutStopSec.
StopCompletes == stopJob ~> unit = "inactive" /\ alive = {}

=============================================================================
