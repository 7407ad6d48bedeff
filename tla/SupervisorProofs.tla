-------------------------- MODULE SupervisorProofs --------------------------
(***************************************************************************)
(* Theorems about Supervisor, for any set of backends and any durations.   *)
(*                                                                         *)
(* The inductive invariant says where the time goes: what has passed since *)
(* something began, plus what is left of the current await, is within the  *)
(* bound.                                                                  *)
(***************************************************************************)
EXTENDS Supervisor, TLAPS

LEMMA Durations ==
    /\ StartupTimeout \in Nat /\ StartupTimeout > 0
    /\ ProbeInterval \in Nat /\ ProbeInterval > 0
    /\ ProbeTimeout \in Nat /\ ProbeTimeout > 0
    /\ FailureThreshold \in Nat /\ FailureThreshold > 0
    /\ StopGrace \in Nat /\ StopGrace > 0
    /\ KillWait \in Nat /\ KillWait = StopGrace
    /\ Horizon \in Nat
BY SupervisorAssumption DEF KillWait

LEMMA SmallerIs ==
    ASSUME NEW m \in Nat, NEW n \in Nat
    PROVE  Smaller(m, n) \in Nat /\ Smaller(m, n) <= m /\ Smaller(m, n) <= n
                                 /\ (Smaller(m, n) = m \/ Smaller(m, n) = n)
BY DEF Smaller

(***************************************************************************)
(* The first loop, the count of failures, and type correctness.            *)
(***************************************************************************)

LoopInv ==
    /\ main \in {"start", "spawned"} => phase = "startup" /\ ~ stopRequested
    /\ phase = "startup" =>
          /\ failures = 0
          /\ uptime <= StartupTimeout + ProbeTimeout + ProbeInterval - 1
          /\ main = "probe" => uptime + timer <= StartupTimeout + ProbeTimeout - 1
          /\ main = "wait"
               => uptime + timer <= StartupTimeout + ProbeTimeout + ProbeInterval - 1
    /\ phase = "monitor" => uptime = 0
    /\ main # "ended" => failures < FailureThreshold /\ returned = "no"
    /\ main = "probe" => timer <= ProbeTimeout
    /\ main \in {"term", "kill"} => stopRequested

BaseInv == TypeOK /\ LoopInv

LEMMA BaseInit == Init => BaseInv
<1>1. Init => LoopInv
  BY Durations DEF Init, LoopInv
<1>2. Init => stopRequested \in BOOLEAN /\ outage \in BOOLEAN
  BY DEF Init
<1>3. Init => TypeOK
  BY <1>2, Durations DEF Init, TypeOK
<1> QED
  BY <1>1, <1>3 DEF BaseInv

LEMMA SendTypes ==
    ASSUME sig \in [Processes -> {"none", "TERM", "KILL"}], NEW signal \in {"TERM", "KILL"},
           NEW targets, Send(signal, targets)
    PROVE  sig' \in [Processes -> {"none", "TERM", "KILL"}]
BY DEF Send

LEMMA OutagesTyped ==
    ASSUME TypeOK, CountOutage
    PROVE  outages' \in 0 .. FailureThreshold
<1>1. outages \in Nat /\ outages + 1 \in Nat /\ outages <= FailureThreshold
  BY Durations DEF TypeOK
<1>2. Smaller(outages + 1, FailureThreshold) \in 0 .. FailureThreshold
  BY <1>1, SmallerIs, Durations
<1> QED
  BY <1>2, Durations DEF CountOutage

\* The steps of the supervisor's own task.
LEMMA BaseSupervisor ==
    ASSUME BaseInv, SupervisorStep
    PROVE  BaseInv'
<1> USE Durations DEF BaseInv, TypeOK, LoopInv, processVars, historyVars
<1>1. CASE StartFails
  BY <1>1 DEF StartFails, Exit
<1>2. CASE Spawn
  BY <1>2 DEF Spawn
<1>3. CASE HandlersInstalled
  BY <1>3 DEF HandlersInstalled
<1>4. CASE StartupExpires
  BY <1>4, SendTypes DEF StartupExpires, Exit
<1>5. CASE StopBegins
  BY <1>5, SendTypes DEF StopBegins, InLoop, Exit
<1>6. CASE ProxyExited
  BY <1>6 DEF ProxyExited, InLoop, Exit
<1>7. CASE ProbeBegins
  BY <1>7 DEF ProbeBegins, InLoop
<1>8. ASSUME NEW b \in Backends, ProbeTimesOut(b) PROVE BaseInv'
  BY <1>8 DEF ProbeTimesOut, ProbeFinds
<1>9. CASE ProbeHealthy
  BY <1>9, OutagesTyped DEF ProbeHealthy
<1>10. CASE StartupProbeBad
  BY <1>10, OutagesTyped DEF StartupProbeBad, ProbeBad
<1>11. CASE Tolerated
  BY <1>11, OutagesTyped DEF Tolerated, ProbeBad
<1>12. CASE FailsClosed
  BY <1>12, OutagesTyped, SendTypes DEF FailsClosed, ProbeBad, Exit
<1>13. CASE WaitEnds
  BY <1>13 DEF WaitEnds
<1>14. CASE StopEnds
  BY <1>14 DEF StopEnds, Exit
<1>15. CASE GraceEnds
  BY <1>15, SendTypes DEF GraceEnds
<1>16. CASE StopGivesUp
  BY <1>16 DEF StopGivesUp, Exit
<1> QED
  BY <1>1, <1>2, <1>3, <1>4, <1>5, <1>6, <1>7, <1>8, <1>9, <1>10, <1>11, <1>12, <1>13,
     <1>14, <1>15, <1>16 DEF SupervisorStep

LEMMA BaseOthers ==
    ASSUME BaseInv, ProcessStep \/ StopSignal
    PROVE  BaseInv'
<1> USE Durations DEF BaseInv, TypeOK, LoopInv, supervisorVars, processVars, historyVars
<1>1. ASSUME NEW p \in Processes, Dies(p) PROVE BaseInv'
  <2>1. alive' \subseteq Processes /\ ready' \subseteq Backends
    BY <1>1 DEF Dies
  <2>2. outage' \in BOOLEAN
    BY <1>1 DEF Dies
  <2> QED
    BY <1>1, <2>1, <2>2 DEF Dies
<1>2. ASSUME NEW b \in Backends, Hangs(b) PROVE BaseInv'
  <2>1. outage' \in BOOLEAN
    BY <1>2 DEF Hangs
  <2> QED
    BY <1>2, <2>1 DEF Hangs
<1>5. ASSUME NEW b \in Backends, Answers(b) PROVE BaseInv'
  <2>1. ready' \subseteq Backends /\ downFor' \in [Backends -> 0 .. Horizon]
    BY <1>5 DEF Answers
  <2> QED
    BY <1>5, <2>1 DEF Answers
<1>3. ASSUME NEW b \in Backends, ProbeAnswered(b) \/ ProbeRefused(b) PROVE BaseInv'
  BY <1>3 DEF ProbeAnswered, ProbeRefused, ProbeFinds
<1>4. CASE StopSignal
  <2>1. stopRequested' \in BOOLEAN
    BY <1>4 DEF StopSignal
  <2>2. LoopInv'
    BY <1>4 DEF StopSignal, Exit
  <2> QED
    BY <1>4, <2>1, <2>2 DEF StopSignal, Exit
<1> QED
  BY <1>1, <1>2, <1>3, <1>4, <1>5 DEF ProcessStep

LEMMA BaseTick ==
    ASSUME BaseInv, Tick
    PROVE  BaseInv'
<1> USE Durations DEF BaseInv, TypeOK, LoopInv
<1>1. downFor' \in [Backends -> 0 .. Horizon] /\ stopFor' \in 0 .. Horizon
  BY DEF Tick, Passes, Smaller
<1>2. timer' \in Nat /\ (main \in {"probe", "wait"} => timer > 0 /\ timer' = timer - 1)
  BY DEF Tick, Passes, Urgent
<1>3. phase = "monitor" => uptime' = 0
  BY DEF Tick, Passes
<1>4. CASE phase = "startup" /\ main \in {"probe", "wait"}
  BY <1>1, <1>2, <1>4 DEF Tick, Passes, processVars
<1>5. CASE ~ (phase = "startup" /\ main \in {"probe", "wait"})
  BY <1>1, <1>2, <1>3, <1>5 DEF Tick, Passes, processVars
<1> QED
  BY <1>4, <1>5

LEMMA BaseInductive ==
    ASSUME BaseInv, [Next]_svars
    PROVE  BaseInv'
<1>1. CASE UNCHANGED svars
  BY <1>1 DEF svars, supervisorVars, processVars, historyVars, BaseInv, TypeOK, LoopInv
<1> QED
  BY <1>1, BaseSupervisor, BaseOthers, BaseTick DEF Next

\* Every reachable state is well typed: the count of failures never passes the threshold.
THEOREM TypeCorrect == Spec => []TypeOK
<1>1. BaseInv => TypeOK
  BY DEF BaseInv
<1> QED
  BY <1>1, BaseInit, BaseInductive, PTL DEF Spec

\* The first loop is left one late probe after its deadline.
THEOREM Startup_EndsInTime == Spec => []StartupEndsInTime
<1>1. BaseInv => StartupEndsInTime
  BY DEF BaseInv, LoopInv, StartupEndsInTime
<1> QED
  BY <1>1, BaseInit, BaseInductive, PTL DEF Spec

(***************************************************************************)
(* A requested stop.                                                       *)
(***************************************************************************)

StopInv ==
    /\ ~ stopRequested => stopFor = 0
    /\ stopRequested =>
          /\ main \in {"check", "wait"} => stopFor <= ProbeTimeout
          /\ main = "probe" => stopFor + timer <= ProbeTimeout
          /\ main = "term" => stopFor + timer <= ProbeTimeout + StopGrace
          /\ main = "kill" => stopFor + timer <= ProbeTimeout + StopGrace + KillWait

LEMMA StopInductive ==
    ASSUME BaseInv, StopInv, [Next]_svars
    PROVE  StopInv'
<1> USE Durations DEF StopInv, supervisorVars, processVars, historyVars
<1>0. /\ stopFor \in Nat /\ timer \in Nat
      /\ main = "probe" => timer <= ProbeTimeout
      /\ main \in {"start", "spawned"} => ~ stopRequested
      /\ main \in {"term", "kill"} => stopRequested
      /\ main \in {"start", "spawned", "check", "probe", "wait", "term", "kill", "ended"}
  BY DEF BaseInv, TypeOK, LoopInv
<1>1. CASE StartFails \/ Spawn \/ HandlersInstalled \/ StartupExpires \/ ProxyExited
  BY <1>0, <1>1 DEF StartFails, Spawn, HandlersInstalled, StartupExpires, ProxyExited, Exit
<1>2. CASE StopBegins
  BY <1>0, <1>2 DEF StopBegins, InLoop, Exit
<1>3. CASE ProbeBegins
  BY <1>0, <1>3 DEF ProbeBegins
<1>4. ASSUME NEW b \in Backends, ProbeTimesOut(b) \/ ProbeAnswered(b) \/ ProbeRefused(b)
      PROVE  StopInv'
  BY <1>0, <1>4 DEF ProbeTimesOut, ProbeAnswered, ProbeRefused, ProbeFinds
<1>5. CASE ProbeHealthy
  BY <1>0, <1>5 DEF ProbeHealthy
<1>6. CASE StartupProbeBad \/ Tolerated \/ FailsClosed
  BY <1>0, <1>6 DEF StartupProbeBad, Tolerated, FailsClosed, ProbeBad, Exit
<1>7. CASE WaitEnds \/ StopEnds \/ StopGivesUp
  BY <1>0, <1>7 DEF WaitEnds, StopEnds, StopGivesUp, Exit
<1>8. CASE GraceEnds
  BY <1>0, <1>8 DEF GraceEnds
<1>9. CASE StopSignal
  BY <1>0, <1>9 DEF StopSignal, Exit
<1>10. ASSUME NEW p \in Processes, Dies(p) PROVE StopInv'
  BY <1>0, <1>10 DEF Dies
<1>11. ASSUME NEW b \in Backends, Hangs(b) \/ Answers(b) PROVE StopInv'
  BY <1>0, <1>11 DEF Hangs, Answers
<1>12. CASE Tick
  <2>1. stopFor' <= stopFor + 1 /\ stopFor' \in Nat /\ (~ stopRequested => stopFor' = 0)
    BY <1>0, <1>12 DEF Tick, Passes, Smaller
  <2>2. /\ main # "check" /\ (main = "wait" => ~ stopRequested)
        /\ main \in {"probe", "term", "kill"} => timer' = timer - 1
        /\ UNCHANGED <<main, stopRequested>>
    BY <1>0, <1>12 DEF Tick, Passes, Urgent
  <2> QED
    BY <1>0, <2>1, <2>2
<1>13. CASE UNCHANGED svars
  BY <1>0, <1>13 DEF svars
<1> QED
  BY <1>1, <1>2, <1>3, <1>4, <1>5, <1>6, <1>7, <1>8, <1>9, <1>10, <1>11, <1>12, <1>13
     DEF Next, SupervisorStep, ProcessStep

LEMMA StopBounded == BaseInv /\ StopInv => StopsInTime
BY Durations DEF BaseInv, TypeOK, LoopInv, StopInv, StopsInTime, StopTime

\* A stop takes one probe, the grace and the wait after SIGKILL: 12 seconds as shipped.
THEOREM Stops_InTime == Spec => []StopsInTime
<1>1. Init => StopInv
  BY DEF Init, StopInv
<1> QED
  BY <1>1, StopBounded, BaseInit, BaseInductive, StopInductive, PTL DEF Spec

\* In the last wait the proxy has been sent SIGKILL, whoever was alive.
KillInv ==
    main = "kill" \/ returned = "stopped" => Proxy \notin alive \/ sig[Proxy] = "KILL"

LEMMA KillInductive ==
    ASSUME BaseInv, KillInv, [Next]_svars
    PROVE  KillInv'
<1> USE DEF KillInv, supervisorVars, processVars, historyVars
<1>0. /\ main # "ended" => returned = "no"
      /\ sig \in [Processes -> {"none", "TERM", "KILL"}] /\ Proxy \in Processes
      /\ Proxy \in Group
  BY SupervisorAssumption DEF BaseInv, TypeOK, LoopInv, Processes
<1>1. CASE StartFails \/ Spawn \/ HandlersInstalled \/ StartupExpires \/ ProxyExited
  BY <1>0, <1>1 DEF StartFails, Spawn, HandlersInstalled, StartupExpires, ProxyExited, InLoop,
                    Exit
<1>2. CASE StopBegins \/ StopEnds
  BY <1>0, <1>2 DEF StopBegins, StopEnds, InLoop, Exit
<1>3. CASE ProbeBegins \/ WaitEnds
  BY <1>0, <1>3 DEF ProbeBegins, WaitEnds, InLoop
<1>4. ASSUME NEW b \in Backends, ProbeTimesOut(b) \/ ProbeAnswered(b) \/ ProbeRefused(b)
      PROVE  KillInv'
  BY <1>0, <1>4 DEF ProbeTimesOut, ProbeAnswered, ProbeRefused, ProbeFinds
<1>5. CASE ProbeHealthy \/ StartupProbeBad \/ Tolerated \/ FailsClosed
  BY <1>0, <1>5 DEF ProbeHealthy, StartupProbeBad, Tolerated, FailsClosed, ProbeBad, Exit
<1>6. CASE GraceEnds
  BY <1>0, <1>6 DEF GraceEnds, Send
<1>7. CASE StopGivesUp
  BY <1>0, <1>7 DEF StopGivesUp, Exit
<1>8. CASE StopSignal
  BY <1>0, <1>8 DEF StopSignal, Exit
<1>9. ASSUME NEW p \in Processes, Dies(p) PROVE KillInv'
  BY <1>0, <1>9 DEF Dies
<1>10. ASSUME NEW b \in Backends, Hangs(b) \/ Answers(b) PROVE KillInv'
  BY <1>0, <1>10 DEF Hangs, Answers
<1>11. CASE Tick
  BY <1>0, <1>11 DEF Tick, Passes
<1>12. CASE UNCHANGED svars
  BY <1>0, <1>12 DEF svars
<1> QED
  BY <1>1, <1>2, <1>3, <1>4, <1>5, <1>6, <1>7, <1>8, <1>9, <1>10, <1>11, <1>12
     DEF Next, SupervisorStep, ProcessStep

\* A clean stop leaves no proxy behind that was not sent SIGKILL.
THEOREM Stop_ReachesProxy == Spec => []StopReachesProxy
<1>1. Init => KillInv
  BY DEF Init, KillInv
<1>2. KillInv => StopReachesProxy
  BY DEF KillInv, StopReachesProxy
<1> QED
  BY <1>1, <1>2, BaseInit, BaseInductive, KillInductive, PTL DEF Spec

(***************************************************************************)
(* Giving a workspace up.                                                  *)
(***************************************************************************)

\* Each failure counted is a probe with an outage: a probe without one times out for
\* nobody, since an able backend answers before time passes.
Counted ==
    /\ main # "ended" => failures <= outages
    /\ main = "probe" /\ ~ outage =>
          timer > 0 /\ \A b \in Backends : Able(b) /\ seen[b] # "unhealthy"

OutageInv == Counted /\ FailsOnlyAfterOutages

LEMMA CountsOutage ==
    ASSUME BaseInv, CountOutage, outage = TRUE, NEW f \in Nat, f <= outages,
           f < FailureThreshold
    PROVE  f + 1 <= outages'
<1>1. outages \in Nat /\ outages + 1 \in Nat
  BY Durations DEF BaseInv, TypeOK
<1>2. outages' = Smaller(outages + 1, FailureThreshold)
  BY DEF CountOutage
<1> QED
  BY <1>1, <1>2, Durations DEF Smaller

\* A bad probe has had an outage.
LEMMA BadProbeHasOutage ==
    ASSUME BaseInv, OutageInv, ProbeBad
    PROVE  outage = TRUE
<1>1. PICK b \in Backends : seen[b] = "unhealthy"
  BY DEF ProbeBad, Healthy, Pending, BaseInv, TypeOK
<1>2. outage
  BY <1>1 DEF OutageInv, Counted, ProbeBad
<1> QED
  BY <1>2 DEF BaseInv, TypeOK

LEMMA OutageInductive ==
    ASSUME BaseInv, OutageInv, [Next]_svars
    PROVE  OutageInv'
<1> USE Durations DEF supervisorVars, processVars, historyVars
<1>0. /\ main # "ended" => returned = "no" /\ failures < FailureThreshold
      /\ failures \in Nat /\ timer \in Nat /\ outages \in 0 .. FailureThreshold
      /\ phase = "startup" => failures = 0
      /\ phase \in {"startup", "monitor"}
      /\ main \in {"start", "spawned"} => phase = "startup"
  BY DEF BaseInv, TypeOK, LoopInv
<1> USE DEF OutageInv, Counted, FailsOnlyAfterOutages
<1>1. CASE StartFails \/ Spawn \/ HandlersInstalled \/ StartupExpires \/ ProxyExited
  BY <1>0, <1>1 DEF StartFails, Spawn, HandlersInstalled, StartupExpires, ProxyExited, InLoop,
                    Exit
<1>2. CASE StopBegins \/ StopEnds \/ GraceEnds \/ StopGivesUp
  BY <1>0, <1>2 DEF StopBegins, StopEnds, GraceEnds, StopGivesUp, InLoop, Exit
<1>3. CASE ProbeBegins
  <2>1. ~ outage' => \A b \in Backends : Able(b)'
    BY <1>3 DEF ProbeBegins, Able
  <2>2. \A b \in Backends : seen'[b] # "unhealthy"
    BY <1>3 DEF ProbeBegins
  <2>3. /\ main' = "probe" /\ main # "ended" /\ timer' = ProbeTimeout
        /\ UNCHANGED <<phase, failures, returned, outages>>
    BY <1>3 DEF ProbeBegins, InLoop
  <2> QED
    BY <1>0, <2>1, <2>2, <2>3
<1>4. ASSUME NEW b \in Backends, ProbeTimesOut(b) \/ ProbeAnswered(b) \/ ProbeRefused(b)
      PROVE  OutageInv'
  <2>1. UNCHANGED <<main, phase, failures, timer, returned, outage, outages, alive, ready>>
    BY <1>4 DEF ProbeTimesOut, ProbeAnswered, ProbeRefused, ProbeFinds
  <2>2. ASSUME ~ outage, main = "probe" PROVE seen' = [seen EXCEPT ![b] = "healthy"]
    <3>1. timer > 0 /\ Able(b)
      BY <2>2
    <3> QED
      BY <1>0, <1>4, <3>1 DEF ProbeTimesOut, ProbeAnswered, ProbeRefused, ProbeFinds
  <2>3. ASSUME ~ outage, main = "probe" PROVE \A d \in Backends : seen'[d] # "unhealthy"
    BY <2>2, <2>3 DEF BaseInv, TypeOK
  <2> QED
    BY <1>0, <2>1, <2>3 DEF Able
<1>5. CASE ProbeHealthy
  BY <1>0, <1>5, OutagesTyped DEF ProbeHealthy, BaseInv
<1>6. CASE StartupProbeBad
  BY <1>0, <1>6, OutagesTyped DEF StartupProbeBad, ProbeBad, BaseInv
<1>7. CASE Tolerated
  <2>1. failures + 1 <= outages'
    BY <1>0, <1>7, BadProbeHasOutage, CountsOutage DEF Tolerated, ProbeBad
  <2> QED
    BY <1>0, <1>7, <2>1 DEF Tolerated, ProbeBad
<1>8. CASE FailsClosed
  <2>1. failures + 1 <= outages' /\ outages' \in 0 .. FailureThreshold
    BY <1>0, <1>8, BadProbeHasOutage, CountsOutage, OutagesTyped DEF FailsClosed, ProbeBad, BaseInv
  <2> QED
    BY <1>0, <1>8, <2>1 DEF FailsClosed, ProbeBad, Exit
<1>9. CASE WaitEnds
  BY <1>0, <1>9 DEF WaitEnds
<1>10. CASE StopSignal
  BY <1>0, <1>10 DEF StopSignal, Exit, Able
<1>11. ASSUME NEW p \in Processes, Dies(p) PROVE OutageInv'
  BY <1>0, <1>11 DEF Dies
<1>12. ASSUME NEW b \in Backends, Hangs(b) PROVE OutageInv'
  BY <1>0, <1>12 DEF Hangs
<1>13. ASSUME NEW b \in Backends, Answers(b) PROVE OutageInv'
  BY <1>0, <1>13 DEF Answers, Able
<1>14. CASE Tick
  <2>1. main = "probe" => outage
    BY <1>0, <1>14 DEF Tick, Passes, Urgent, Pending, BaseInv, TypeOK
  <2> QED
    BY <1>0, <1>14, <2>1 DEF Tick, Passes
<1>15. CASE UNCHANGED svars
  BY <1>0, <1>15 DEF svars, Able
<1> QED
  BY <1>1, <1>2, <1>3, <1>4, <1>5, <1>6, <1>7, <1>8, <1>9, <1>10, <1>11, <1>12, <1>13, <1>14,
     <1>15 DEF Next, SupervisorStep, ProcessStep

\* A healthy workspace is given up only when the proxy exits, or after as many probes in a
\* row with a real outage as the threshold says.
THEOREM Fails_OnlyAfterOutages == Spec => []FailsOnlyAfterOutages
<1>1. Init => OutageInv
  BY DEF Init, OutageInv, Counted, FailsOnlyAfterOutages
<1>2. OutageInv => FailsOnlyAfterOutages
  BY DEF OutageInv
<1> QED
  BY <1>1, <1>2, BaseInit, BaseInductive, OutageInductive, PTL DEF Spec

(***************************************************************************)
(* Finding an outage.                                                      *)
(***************************************************************************)

\* One turn of the second loop, and what the failures so far have taken.
Turn == ProbeInterval + ProbeTimeout
Spent == failures * Turn

LEMMA SpentIs ==
    ASSUME BaseInv
    PROVE  /\ Turn \in Nat /\ Spent \in Nat
           /\ failures' = 0 => Spent' = 0
           /\ failures' = failures => Spent' = Spent
           /\ failures' = failures + 1 => Spent' = Spent + Turn
           /\ main # "ended" => ProbeTimeout + Spent + Turn <= DetectionTime
<1>1. Turn \in Nat /\ failures \in Nat /\ FailureThreshold \in Nat
      /\ (main # "ended" => failures < FailureThreshold)
  BY Durations DEF BaseInv, TypeOK, LoopInv, Turn
<1>2. Spent \in Nat
  BY <1>1, SMT DEF Spent
<1>3. failures' = failures + 1 => Spent' = Spent + Turn
  BY <1>1, SMT DEF Spent, Turn
<1>4. failures' = 0 => Spent' = 0
  BY <1>1, SMT DEF Spent, Turn
<1>5. ASSUME main # "ended" PROVE Spent + Turn <= FailureThreshold * Turn
  <2>1. \E k \in Nat : FailureThreshold = failures + 1 + k
    <3>1. FailureThreshold - (failures + 1) \in Nat
                  /\ FailureThreshold = failures + 1 + (FailureThreshold - (failures + 1))
      BY <1>1, <1>5
    <3> QED
      BY <3>1
  <2>2. PICK k \in Nat : FailureThreshold = failures + 1 + k
    BY <2>1
  <2>3. FailureThreshold * Turn = failures * Turn + Turn + k * Turn /\ k * Turn \in Nat
    BY <1>1, <2>2, SMT
  <2> QED
    BY <1>1, <1>2, <2>3 DEF Spent
<1>6. DetectionTime = ProbeTimeout + FailureThreshold * Turn
  BY DEF DetectionTime, Turn
<1>7. FailureThreshold * Turn \in Nat
  BY <1>1, SMT
<1>8. failures' = failures => Spent' = Spent
  BY DEF Spent, Turn
<1> QED
  BY <1>1, <1>2, <1>3, <1>4, <1>5, <1>6, <1>7, <1>8, Durations

\* In the second loop an outage is as long as the turns it has been counted in.
Lasting(b) ==
    /\ Able(b) => downFor[b] = 0
    /\ main = "probe" /\ seen[b] = "healthy" => downFor[b] + timer <= ProbeTimeout
    /\ phase = "monitor" /\ ~ stopRequested =>
          /\ main = "check" => downFor[b] <= Turn + Spent
          /\ main = "probe" => downFor[b] + timer <= Turn + ProbeTimeout + Spent
          /\ main = "wait" => downFor[b] + timer <= Turn + Spent

DetectInv ==
    /\ main = "start" => alive = {} /\ ready = {}
    /\ main = "spawned" => phase = "startup"
    /\ \A b \in Backends : Lasting(b)

LEMMA DetectInductive ==
    ASSUME BaseInv, DetectInv, [Next]_svars
    PROVE  DetectInv'
<1> USE Durations DEF supervisorVars, processVars, historyVars
<1>a. /\ \A b \in Backends : downFor[b] \in Nat
      /\ downFor \in [Backends -> 0 .. Horizon] /\ seen \in [Backends -> {"pending", "healthy", "unhealthy"}]
      /\ timer \in Nat /\ (main = "probe" => timer <= ProbeTimeout)
      /\ main \in {"start", "spawned"} => phase = "startup"
      /\ phase \in {"startup", "monitor"}
  BY DEF BaseInv, TypeOK, LoopInv
<1>b. /\ Turn \in Nat /\ Turn = ProbeInterval + ProbeTimeout /\ Spent \in Nat /\ Turn' = Turn
      /\ failures' = 0 => Spent' = 0
      /\ failures' = failures => Spent' = Spent
      /\ failures' = failures + 1 => Spent' = Spent + Turn
  BY SpentIs DEF Turn
<1>c. \A b \in Backends : Lasting(b)
  BY DEF DetectInv
<1>d. UNCHANGED <<alive, ready>> => \A b \in Backends : Able(b)' <=> Able(b)
  BY DEF Able
\* The outages stay, and the supervisor goes on to a place it is not looking for them.
<1>e. ASSUME UNCHANGED <<alive, ready, downFor>>, main # "start",
             main' \notin {"start", "spawned", "check", "probe", "wait"}
      PROVE  DetectInv'
  BY <1>c, <1>d, <1>e DEF DetectInv, Lasting
\* Nothing the invariant is about changes.
<1>f. ASSUME UNCHANGED <<main, phase, failures, stopRequested, timer, seen, alive, ready, downFor>>
      PROVE  DetectInv'
  BY <1>b, <1>c, <1>d, <1>f DEF DetectInv, Lasting
<1>1. CASE StartFails
  BY <1>c, <1>d, <1>1 DEF StartFails, Exit, DetectInv, Lasting
<1>2. CASE Spawn
  <2>1. \A b \in Backends : ~ Able(b)'
    BY <1>2 DEF Spawn, DetectInv, Able
  <2> QED
    BY <1>a, <1>2, <2>1 DEF Spawn, DetectInv, Lasting
<1>3. CASE HandlersInstalled
  BY <1>a, <1>c, <1>d, <1>3 DEF HandlersInstalled, DetectInv, Lasting
<1>4. CASE StartupExpires \/ ProxyExited \/ StopEnds \/ GraceEnds \/ StopGivesUp
  BY <1>e, <1>4 DEF StartupExpires, ProxyExited, StopEnds, GraceEnds, StopGivesUp, InLoop, Exit
<1>5. CASE StopBegins
  BY <1>e, <1>5 DEF StopBegins, InLoop, Exit
<1>6. CASE ProbeBegins
  <2>1. \A b \in Backends : seen'[b] # "healthy"
    BY <1>6 DEF ProbeBegins
  <2> QED
    BY <1>a, <1>b, <1>c, <1>d, <1>6, <2>1 DEF ProbeBegins, InLoop, DetectInv, Lasting
<1>7. ASSUME NEW b \in Backends, ProbeAnswered(b) PROVE DetectInv'
  <2>1. downFor[b] = 0
    BY <1>c, <1>7 DEF ProbeAnswered, Lasting
  <2>2. \A d \in Backends : d # b => seen'[d] = seen[d]
    BY <1>a, <1>7 DEF ProbeAnswered, ProbeFinds
  <2>3. main = "probe"
        /\ UNCHANGED <<main, phase, failures, stopRequested, timer, alive, ready, downFor>>
    BY <1>7 DEF ProbeAnswered, ProbeFinds
  <2> QED
    BY <1>a, <1>b, <1>c, <1>d, <2>1, <2>2, <2>3 DEF DetectInv, Lasting
<1>8. ASSUME NEW b \in Backends, ProbeRefused(b) \/ ProbeTimesOut(b) PROVE DetectInv'
  <2>1. \A d \in Backends : seen'[d] = "healthy" => seen[d] = "healthy"
    BY <1>a, <1>8 DEF ProbeRefused, ProbeTimesOut, ProbeFinds
  <2>2. main = "probe"
        /\ UNCHANGED <<main, phase, failures, stopRequested, timer, alive, ready, downFor>>
    BY <1>8 DEF ProbeRefused, ProbeTimesOut, ProbeFinds
  <2> QED
    BY <1>a, <1>b, <1>c, <1>d, <2>1, <2>2 DEF DetectInv, Lasting
<1>9. CASE ProbeHealthy
  <2>1. \A b \in Backends : downFor[b] <= ProbeTimeout
    BY <1>a, <1>c, <1>9 DEF ProbeHealthy, Healthy, Lasting
  <2>2. /\ main' = "check" \/ (main' = "wait" /\ timer' = ProbeInterval)
        /\ failures' = 0 /\ main # "start"
        /\ UNCHANGED <<stopRequested, alive, ready, downFor>>
    BY <1>9 DEF ProbeHealthy
  <2> QED
    BY <1>a, <1>b, <1>c, <1>d, <2>1, <2>2 DEF DetectInv, Lasting
<1>10. CASE StartupProbeBad
  BY <1>a, <1>b, <1>c, <1>d, <1>10 DEF StartupProbeBad, ProbeBad, DetectInv, Lasting
<1>11. CASE Tolerated
  <2>1. /\ main = "probe" /\ main' = "wait" /\ timer' = ProbeInterval
        /\ failures' = failures + 1
        /\ UNCHANGED <<phase, stopRequested, alive, ready, downFor>>
    BY <1>11 DEF Tolerated, ProbeBad
  <2> QED
    BY <1>a, <1>b, <1>c, <1>d, <2>1 DEF DetectInv, Lasting
<1>12. CASE FailsClosed
  BY <1>e, <1>12 DEF FailsClosed, ProbeBad, Exit
<1>13. CASE WaitEnds
  BY <1>a, <1>b, <1>c, <1>d, <1>13 DEF WaitEnds, DetectInv, Lasting
<1>14. CASE StopSignal
  BY <1>a, <1>b, <1>c, <1>d, <1>14 DEF StopSignal, Exit, DetectInv, Lasting
<1>15. ASSUME NEW p \in Processes, Dies(p) PROVE DetectInv'
  <2>1. \A b \in Backends : Able(b)' => Able(b)
    BY <1>15 DEF Dies, Able
  <2>2. UNCHANGED <<main, phase, failures, stopRequested, timer, seen, downFor>>
        /\ alive' \subseteq alive /\ ready' \subseteq ready
    BY <1>15 DEF Dies
  <2> QED
    BY <1>b, <1>c, <2>1, <2>2 DEF DetectInv, Lasting
<1>16. ASSUME NEW b \in Backends, Hangs(b) PROVE DetectInv'
  <2>1. \A d \in Backends : Able(d)' => Able(d)
    BY <1>16 DEF Hangs, Able
  <2>2. UNCHANGED <<main, phase, failures, stopRequested, timer, seen, downFor, alive>>
        /\ ready' \subseteq ready
    BY <1>16 DEF Hangs
  <2> QED
    BY <1>b, <1>c, <2>1, <2>2 DEF DetectInv, Lasting
<1>17. ASSUME NEW b \in Backends, Answers(b) PROVE DetectInv'
  <2>1. /\ UNCHANGED <<main, phase, failures, stopRequested, timer, seen, alive>>
        /\ main # "start" /\ downFor'[b] \in {0, downFor[b]}
        /\ \A d \in Backends : d # b => downFor'[d] = downFor[d] /\ (Able(d)' <=> Able(d))
        /\ Able(b)' => downFor'[b] = 0
    BY <1>a, <1>17 DEF Answers, Able, DetectInv
  <2>2. \A d \in Backends : Lasting(d)'
    <3> TAKE d \in Backends
    <3>1. CASE d = b
      BY <1>a, <1>b, <1>c, <2>1, <3>1 DEF Lasting
    <3>2. CASE d # b
      BY <1>a, <1>b, <1>c, <2>1, <3>2 DEF Lasting
    <3> QED
      BY <3>1, <3>2
  <2> QED
    BY <2>1, <2>2 DEF DetectInv
<1>18. CASE Tick
  <2>1. /\ main \in {"probe", "wait"} => timer > 0 /\ timer' = timer - 1
        /\ main \notin {"start", "spawned", "check", "ended"}
        /\ UNCHANGED <<main, phase, failures, stopRequested, seen, alive, ready>>
    BY <1>a, <1>18 DEF Tick, Passes, Urgent
  <2>2. \A b \in Backends : /\ Able(b) => downFor'[b] = 0
                            /\ downFor'[b] \in Nat /\ downFor'[b] <= downFor[b] + 1
    BY <1>a, <1>18 DEF Tick, Passes, Smaller
  <2> QED
    BY <1>a, <1>b, <1>c, <1>d, <2>1, <2>2 DEF DetectInv, Lasting
<1>19. CASE UNCHANGED svars
  BY <1>f, <1>19 DEF svars
<1> QED
  BY <1>1, <1>2, <1>3, <1>4, <1>5, <1>6, <1>7, <1>8, <1>9, <1>10, <1>11, <1>12, <1>13, <1>14,
     <1>15, <1>16, <1>17, <1>18, <1>19 DEF Next, SupervisorStep, ProcessStep

LEMMA DetectBounded == BaseInv /\ DetectInv => DetectedInTime
<1> SUFFICES ASSUME BaseInv, DetectInv, main # "ended", phase = "monitor", ~ stopRequested,
                    NEW b \in Backends
             PROVE  downFor[b] <= DetectionTime
  BY DEF DetectedInTime
<1>1. /\ main \in {"check", "probe", "wait"} /\ timer \in Nat /\ downFor[b] \in Nat
      /\ FailureThreshold * Turn \in Nat
  <2>1. FailureThreshold * Turn \in Nat
    BY Durations, SMT DEF Turn
  <2> QED
    BY <2>1 DEF BaseInv, TypeOK, LoopInv
<1>2. downFor[b] <= Turn + ProbeTimeout + Spent
  BY <1>1, SpentIs, Durations DEF DetectInv, Lasting
<1>3. DetectionTime = ProbeTimeout + FailureThreshold * Turn
  BY DEF DetectionTime, Turn
<1> QED
  BY <1>1, <1>2, <1>3, SpentIs, Durations

\* No backend of a workspace that was once healthy stays dead or silent for longer than
\* DetectionTime: 8 seconds as shipped.
THEOREM Detected_InTime == Spec => []DetectedInTime
<1>1. Init => DetectInv
  BY DEF Init, DetectInv, Lasting, Able
<1> QED
  BY <1>1, DetectBounded, BaseInit, BaseInductive, DetectInductive, PTL DEF Spec

=============================================================================
