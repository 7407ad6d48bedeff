---------------------------- MODULE GatewayProofs ----------------------------
(***************************************************************************)
(* Theorems about Gateway, for any number of calls and losses and any      *)
(* durations.                                                              *)
(***************************************************************************)
EXTENDS Gateway, TLAPS

(***************************************************************************)
(* Type correctness.                                                       *)
(***************************************************************************)

LEMMA DurationsAreNumbers ==
    /\ CallTimeout \in Nat /\ CallTimeout > 0
    /\ TransferTimeout \in Nat /\ TransferTimeout > 0
    /\ ProbeTimeout \in Nat /\ ProbeTimeout > 0
    /\ MaxWait \in Nat /\ MaxWait < CallTimeout /\ Losses \in Nat
    /\ \A t \in Tools : TimeLimit(t) \in Nat
    /\ TimeLimit("health") = ProbeTimeout /\ TimeLimit("execute") = CallTimeout
<1>1. \A t \in Tools : TimeLimit(t) \in {CallTimeout, TransferTimeout, ProbeTimeout}
  BY DEF TimeLimit
<1>2. Endpoint("health") = "proxy" /\ Endpoint("execute") = "shell"
  BY Zenon DEF Endpoint
<1>3. TimeLimit("health") = ProbeTimeout
  BY <1>2, Zenon DEF TimeLimit
<1>4. TimeLimit("execute") = CallTimeout
  BY <1>2, Zenon DEF TimeLimit
<1> QED
  BY <1>1, <1>3, <1>4, GatewayAssumption

LEMMA EndsTypes ==
    ASSUME TypeOK, NEW c \in Calls, NEW how \in {"ok", "refused", "tool_error", "healthy",
                                                 "unhealthy"} \union Failures, Ends(c, how)
    PROVE  /\ pc' \in [Calls -> {"ready", "connecting", "calling", "probing", "gathering", "done"}]
           /\ tool' \in [Calls -> Tools]
           /\ timer' \in [Calls -> Nat]
           /\ reply' \in [Calls -> {"none", "ok", "refused", "tool_error", "healthy", "unhealthy"}
                                     \union Failures]
           /\ elapsed' \in [Calls -> Nat] /\ late' \in [Calls -> Nat]
BY DEF TypeOK, Ends

\* Every way a call ends gives one of the replies.
LEMMA RepliesAreReplies ==
    /\ \A kinds : \A grouped \in BOOLEAN : Classify(grouped, kinds) \in Failures
    /\ Exceptions \subseteq Failures
    /\ Verdict \in {"healthy", "unhealthy"}
BY DEF Classify, Exceptions, Verdict, Failures

LEMMA GatewayStepTypes ==
    ASSUME TypeOK, NEW c \in Calls, GatewayStep(c), Observes
    PROVE  TypeOK'
<1>1. masked' \subseteq Calls /\ ableOnce' \subseteq Targets /\ unableOnce' \subseteq Targets
  BY DEF Observes, TypeOK
<1> USE DEF backendVars, processVars, timeVars, callVars
<1>2. CASE Raises(c)
  BY <1>1, <1>2, EndsTypes, RepliesAreReplies DEF Raises, TypeOK
<1>3. CASE TimesOut(c)
  BY <1>1, <1>3, EndsTypes DEF TimesOut, TypeOK, Failures
<1>4. CASE Answered(c)
  BY <1>1, <1>4, EndsTypes DEF Answered, TypeOK
<1>5. CASE RpcFails(c)
  BY <1>1, <1>5, EndsTypes, RepliesAreReplies DEF RpcFails, TypeOK, Failures
<1>6. CASE ToolFails(c)
  BY <1>1, <1>6, DurationsAreNumbers DEF ToolFails, TypeOK
<1>7. CASE ProbeAnswered(c)
  BY <1>1, <1>7, EndsTypes DEF ProbeAnswered, TypeOK
<1>8. CASE ProbeFails(c)
  BY <1>1, <1>8, EndsTypes, RepliesAreReplies DEF ProbeFails, TypeOK, Failures
<1>9. CASE \E t \in Targets : HealthFinds(c, t)
  BY <1>1, <1>9 DEF HealthFinds, TypeOK
<1>10. CASE HealthReports(c)
  BY <1>1, <1>10, EndsTypes, RepliesAreReplies DEF HealthReports, TypeOK
<1> QED
  BY <1>2, <1>3, <1>4, <1>5, <1>6, <1>7, <1>8, <1>9, <1>10 DEF GatewayStep

LEMMA CallTypes ==
    ASSUME TypeOK, NEW c \in Calls, Observes,
           \/ \E t \in Tools \ {"health"}, w \in 0 .. CallTimeout : Call(c, t, w)
           \/ Refused(c) \/ HealthBegins(c) \/ SessionOpens(c)
    PROVE  TypeOK'
<1>1. masked' \subseteq Calls /\ ableOnce' \subseteq Targets /\ unableOnce' \subseteq Targets
  BY DEF Observes, TypeOK
<1> USE DEF backendVars, processVars, timeVars, callVars
<1>2. ASSUME NEW t \in Tools, NEW w \in 0 .. CallTimeout, Call(c, t, w)
      PROVE  TypeOK'
  <2>1. w \in 0 .. MaxWait
    BY <1>2, DurationsAreNumbers DEF Call, Accepts
  <2> QED
    BY <1>1, <1>2, <2>1, DurationsAreNumbers DEF Call, TypeOK
<1>3. CASE Refused(c)
  BY <1>1, <1>3, EndsTypes DEF Refused, TypeOK
<1>4. CASE HealthBegins(c)
  BY <1>1, <1>4, DurationsAreNumbers DEF HealthBegins, TypeOK, Tools
<1>5. CASE SessionOpens(c)
  BY <1>1, <1>5 DEF SessionOpens, TypeOK
<1> QED
  BY <1>2, <1>3, <1>4, <1>5

LEMMA EnvironmentTypes ==
    ASSUME TypeOK, Environment, Observes
    PROVE  TypeOK'
<1>1. masked' \subseteq Calls /\ ableOnce' \subseteq Targets /\ unableOnce' \subseteq Targets
  BY DEF Observes, TypeOK
<1> USE DurationsAreNumbers DEF backendVars, processVars, timeVars, callVars
<1>2. ASSUME NEW c \in Calls, Begins(c) PROVE TypeOK'
  BY <1>1, <1>2 DEF Begins, TypeOK, Again
<1>3. ASSUME NEW c \in Calls, Rejects(c) PROVE TypeOK'
  BY <1>1, <1>3 DEF Rejects, TypeOK, Again
<1>4. ASSUME NEW c \in Calls, Finishes(c) PROVE TypeOK'
  BY <1>1, <1>4 DEF Finishes, TypeOK, Again
<1>5. ASSUME NEW t \in Targets, Dies(t) PROVE TypeOK'
  <2>1. /\ work' \in [Calls -> {"none", "queued", "running", "over", "lost"}]
        /\ wait' \in [Calls -> 0 .. MaxWait]
    BY <1>5 DEF Dies, TypeOK
  <2> QED
    BY <1>1, <1>5, <2>1 DEF Dies, TypeOK
<1>6. ASSUME NEW t \in Targets, Hangs(t) PROVE TypeOK'
  BY <1>1, <1>6 DEF Hangs, TypeOK
<1>7. ASSUME NEW t \in Targets, Recovers(t) PROVE TypeOK'
  BY <1>1, <1>7 DEF Recovers, TypeOK
<1>8. CASE Restarted
  <2>1. /\ work' \in [Calls -> {"none", "queued", "running", "over", "lost"}]
        /\ wait' \in [Calls -> 0 .. MaxWait]
    BY <1>8 DEF Restarted, TypeOK
  <2> QED
    BY <1>1, <1>8, <2>1 DEF Restarted, TypeOK
<1> QED
  BY <1>2, <1>3, <1>4, <1>5, <1>6, <1>7, <1>8 DEF Environment

LEMMA TickTypes ==
    ASSUME TypeOK, Tick, Observes
    PROVE  TypeOK'
<1>1. masked' \subseteq Calls /\ ableOnce' \subseteq Targets /\ unableOnce' \subseteq Targets
  BY DEF Observes, TypeOK
<1>2. /\ timer' \in [Calls -> Nat]
      /\ wait' \in [Calls -> 0 .. MaxWait]
  BY DurationsAreNumbers DEF Tick, TypeOK, Less
<1>3. elapsed' \in [Calls -> Nat] /\ late' \in [Calls -> Nat]
  BY DEF Tick, TypeOK
<1> QED
  BY <1>1, <1>2, <1>3 DEF Tick, TypeOK, processVars

LEMMA TypeInductive ==
    ASSUME TypeOK, [Next]_vars
    PROVE  TypeOK'
<1>1. CASE UNCHANGED vars
  BY <1>1 DEF vars, callVars, backendVars, processVars, timeVars, observedVars, TypeOK
<1> QED
  BY <1>1, GatewayStepTypes, CallTypes, EnvironmentTypes, TickTypes DEF Next, Step

LEMMA TypeInit == Init => TypeOK
BY DurationsAreNumbers DEF Init, TypeOK, Tools

\* Every reachable state is well typed; in particular no call waits for longer than
\* the limit on wait_ms.
THEOREM TypeCorrect == Spec => []TypeOK
BY TypeInit, TypeInductive, PTL DEF Spec

(***************************************************************************)
(* Time: what a call has used of its limit and what is left of it.         *)
(***************************************************************************)

CallTime(c) ==
    /\ pc[c] = "ready" => elapsed[c] = 0 /\ late[c] = 0
    /\ pc[c] \in {"connecting", "calling", "gathering"}
         => elapsed[c] + timer[c] = TimeLimit(tool[c])
    /\ pc[c] = "probing" => elapsed[c] + timer[c] <= TimeLimit(tool[c]) + ProbeTimeout

TimeInv == \A c \in Calls : CallTime(c)

\* No exception is classified as a timeout.
LEMMA ClassifyNoTimeout ==
    \A kinds : \A grouped \in BOOLEAN : Classify(grouped, kinds) \in Failures \ {"timeout"}
BY DEF Classify, Failures

\* Every step of the gateway ends a call, begins its probe, or notes a finding.
LEMMA GatewayStepShape ==
    ASSUME NEW c \in Calls, GatewayStep(c)
    PROVE  /\ UNCHANGED <<backendVars, broken, processVars>>
           /\ \/ \E how \in Failures :
                   /\ Ends(c, how)
                   /\ pc[c] \in {"connecting", "calling", "probing"}
                   /\ pc[c] # "probing" /\ how = "timeout" => timer[c] = 0
                   /\ pc[c] = "probing" => timer[c] = 0 \/ Lost(c)
              \/ Ends(c, "ok") /\ Returned(c) /\ c \notin isError
              \/ Ends(c, "tool_error") /\ pc[c] = "probing"
              \/ Ends(c, Verdict) /\ HealthReports(c) /\ pc[c] = "gathering"
              \/ ToolFails(c)
              \/ UNCHANGED <<callVars, timeVars>> /\ \E t \in Targets : HealthFinds(c, t)
<1> USE DEF backendVars, processVars, timeVars, callVars
<1>1. CASE Raises(c)
  <2>1. PICK how \in Failures \ {"timeout"} : Ends(c, how)
    <3>1. Exceptions \subseteq Failures \ {"timeout"}
      BY DEF Exceptions, Failures
    <3> QED
      BY <1>1, <3>1, ClassifyNoTimeout DEF Raises
  <2> QED
    BY <1>1, <2>1 DEF Raises
<1>2. CASE TimesOut(c)
  BY <1>2 DEF TimesOut, Failures
<1>3. CASE RpcFails(c)
  BY <1>3, ClassifyNoTimeout DEF RpcFails, Returned, Failures
<1>4. CASE ProbeFails(c)
  BY <1>4 DEF ProbeFails, Exceptions, Failures
<1>5. CASE Answered(c)
  BY <1>5 DEF Answered
<1>6. CASE ToolFails(c)
  BY <1>6 DEF ToolFails
<1>7. CASE ProbeAnswered(c)
  BY <1>7 DEF ProbeAnswered
<1>8. CASE \E t \in Targets : HealthFinds(c, t)
  BY <1>8 DEF HealthFinds
<1>9. CASE HealthReports(c)
  BY <1>9 DEF HealthReports
<1> QED
  BY <1>1, <1>2, <1>3, <1>4, <1>5, <1>6, <1>7, <1>8, <1>9 DEF GatewayStep

LEMMA TimeInductive ==
    ASSUME TypeOK, TimeInv, Step
    PROVE  TimeInv'
<1> USE DurationsAreNumbers DEF timeVars, callVars, CallTime
<1> SUFFICES ASSUME NEW d \in Calls PROVE CallTime(d)'
  BY DEF TimeInv
<1>0. /\ CallTime(d)
      /\ timer[d] \in Nat /\ elapsed[d] \in Nat /\ tool[d] \in Tools /\ TimeLimit(tool[d]) \in Nat
  BY DEF TimeInv, TypeOK
<1>1. ASSUME NEW c \in Calls, GatewayStep(c)
      PROVE  \/ UNCHANGED <<pc[d], tool[d], timer[d], elapsed[d], late[d]>>
             \/ pc'[d] = "done"
             \/ /\ pc[d] = "calling" /\ pc'[d] = "probing" /\ timer'[d] = ProbeTimeout
                /\ UNCHANGED <<tool[d], elapsed[d], late[d]>>
  BY <1>1, GatewayStepShape DEF Ends, ToolFails, Returned, TypeOK
<1>2. ASSUME NEW c \in Calls, GatewayStep(c) PROVE  CallTime(d)'
  BY <1>0, <1>1, <1>2
<1>3. ASSUME NEW c \in Calls, NEW t \in Tools, NEW w \in 0 .. CallTimeout, Call(c, t, w)
      PROVE  CallTime(d)'
  BY <1>0, <1>3 DEF Call, TypeOK
<1>4. ASSUME NEW c \in Calls, Refused(c) \/ HealthBegins(c) \/ SessionOpens(c)
      PROVE  CallTime(d)'
  BY <1>0, <1>4 DEF Refused, HealthBegins, SessionOpens, Ends, TypeOK
<1>5. CASE Environment
  BY <1>0, <1>5 DEF Environment, Begins, Rejects, Finishes, Dies, Hangs, Recovers, Restarted
<1>6. CASE Tick
  <2>1. /\ InSession(d) => timer[d] > 0 /\ elapsed'[d] = elapsed[d] + 1
        /\ ~ InSession(d) => elapsed'[d] = elapsed[d]
        /\ timer[d] > 0 => timer'[d] = timer[d] - 1
        /\ pc[d] = "ready" => late'[d] = late[d]
    BY <1>0, <1>6 DEF Tick, Urgent, Less, TypeOK, Delayed
  <2> QED
    BY <1>0, <1>6, <2>1 DEF Tick, InSession
<1> QED
  BY <1>2, <1>3, <1>4, <1>5, <1>6 DEF Step

\* The time limit is the proof's whole argument: it holds whatever the targets do.
THEOREM Answered_InTime == Spec => []AnsweredInTime
<1>1. Init => TypeOK /\ TimeInv
  BY TypeInit DEF Init, TimeInv, CallTime
<1>2. TypeOK /\ TimeInv /\ [Next]_vars => (TypeOK /\ TimeInv)'
  <2>1. TimeInv /\ UNCHANGED vars => TimeInv'
    BY DEF vars, callVars, timeVars, TimeInv, CallTime
  <2> QED
    BY <2>1, TypeInductive, TimeInductive DEF Next
<1>3. TypeOK /\ TimeInv => AnsweredInTime
  BY DurationsAreNumbers DEF AnsweredInTime, TimeInv, CallTime, InSession, TypeOK
<1> QED
  BY <1>1, <1>2, <1>3, PTL DEF Spec

(***************************************************************************)
(* What has become of a call's operation, and what its caller was told.    *)
(***************************************************************************)

\* An operation that has answered with an error is over; most tools did nothing then.
ErrorOutcome(c) ==
    /\ effect[c] \in {"done", "rejected"}
    /\ tool[c] \notin ActsBeforeError => effect[c] = "rejected"

CallOutcome(c) ==
    /\ pc[c] \in {"ready", "connecting", "gathering"} => work[c] = "none"
    /\ pc[c] # "done" <=> reply[c] = "none"
    /\ work[c] \in {"none", "queued", "running"} => c \notin isError
    /\ work[c] \in {"none", "queued"} => effect[c] = "none"
    /\ work[c] = "running" => effect[c] = IF tool[c] = "execute" THEN "done" ELSE "none"
    /\ work[c] = "over" => IF c \in isError THEN ErrorOutcome(c) ELSE effect[c] = "done"
    /\ effect[c] # "twice"
    /\ reply[c] = "ok" => effect[c] = "done" /\ work[c] \in {"over", "lost"}
    /\ pc[c] = "probing" \/ reply[c] = "tool_error" => ErrorOutcome(c)
    /\ reply[c] \in {"refused", "healthy", "unhealthy"} => work[c] = "none"

OutcomeInv == \A c \in Calls : CallOutcome(c)

Replies == {"ok", "refused", "tool_error", "healthy", "unhealthy"}

LEMMA OutcomeInductive ==
    ASSUME TypeOK, OutcomeInv, Step
    PROVE  OutcomeInv'
<1> SUFFICES ASSUME NEW d \in Calls PROVE CallOutcome(d)'
  BY DEF OutcomeInv
<1> USE DEF timeVars, callVars, backendVars, processVars, CallOutcome, ErrorOutcome
<1>0. /\ CallOutcome(d)
      /\ Verdict \in {"healthy", "unhealthy"}
      /\ "none" \notin Failures /\ Failures \intersect Replies = {}
  BY RepliesAreReplies DEF OutcomeInv, Failures, Replies
<1>1. ASSUME NEW c \in Calls, GatewayStep(c) PROVE CallOutcome(d)'
  <2>1. UNCHANGED <<work, isError, effect, tool>>
    BY <1>1, GatewayStepShape DEF Ends, ToolFails
  <2>2. CASE c = d
    BY <1>0, <1>1, <2>1, <2>2, GatewayStepShape, RepliesAreReplies
       DEF Ends, ToolFails, Returned, TypeOK, Replies, Failures
  <2>3. CASE c # d
    BY <1>0, <1>1, <2>1, <2>3, GatewayStepShape DEF Ends, ToolFails, Returned, TypeOK
  <2> QED
    BY <2>2, <2>3
<1>2. ASSUME NEW c \in Calls, NEW t \in Tools, NEW w \in 0 .. CallTimeout, Call(c, t, w)
      PROVE  CallOutcome(d)'
  BY <1>0, <1>2 DEF Call, TypeOK
<1>3. ASSUME NEW c \in Calls, Refused(c) \/ HealthBegins(c) \/ SessionOpens(c)
      PROVE  CallOutcome(d)'
  BY <1>0, <1>3 DEF Refused, HealthBegins, SessionOpens, Ends, TypeOK, Failures
<1>4. ASSUME NEW c \in Calls, Begins(c) \/ Rejects(c) \/ Finishes(c)
      PROVE  CallOutcome(d)'
  BY <1>0, <1>4 DEF Begins, Rejects, Finishes, Again, TypeOK
<1>5. ASSUME NEW t \in Targets, Dies(t) \/ Hangs(t) \/ Recovers(t)
      PROVE  CallOutcome(d)'
  BY <1>0, <1>5 DEF Dies, Hangs, Recovers, Unfinished, TypeOK
<1>6. CASE Restarted
  BY <1>0, <1>6 DEF Restarted, Unfinished, TypeOK
<1>7. CASE Tick
  BY <1>0, <1>7 DEF Tick
<1> QED
  BY <1>1, <1>2, <1>3, <1>4, <1>5, <1>6, <1>7 DEF Step, Environment


\* The abstract state.
Effects == [c \in Calls |-> Outcome(c)]
Tolds == [c \in Calls |-> Told(reply[c], tool[c])]

LEMMA ToldIs ==
    \A t :
      /\ \A r \in {"none", "healthy", "unhealthy"} : Told(r, t) = "nothing"
      /\ Told("ok", t) = "ok" /\ Told("refused", t) = "refused"
      /\ Told("tool_error", t) = IF t \in ActsBeforeError THEN "settled" ELSE "refused"
      /\ \A r \in Failures : Told(r, t) = "failed"
<1> SUFFICES ASSUME NEW t
             PROVE  /\ \A r \in {"none", "healthy", "unhealthy"} : Told(r, t) = "nothing"
                    /\ Told("ok", t) = "ok" /\ Told("refused", t) = "refused"
                    /\ Told("tool_error", t)
                         = IF t \in ActsBeforeError THEN "settled" ELSE "refused"
                    /\ \A r \in Failures : Told(r, t) = "failed"
  OBVIOUS
<1>1. \A r \in {"none", "healthy", "unhealthy"} : Told(r, t) = "nothing"
  BY Zenon DEF Told, Failures
<1>2. Told("ok", t) = "ok" /\ Told("refused", t) = "refused"
  BY Zenon DEF Told, Failures
<1>3. Told("tool_error", t) = IF t \in ActsBeforeError THEN "settled" ELSE "refused"
  BY Zenon DEF Told, Failures
<1>4. \A r \in Failures : r \notin {"none", "healthy", "unhealthy", "ok", "refused", "tool_error"}
  BY DEF Failures
<1>5. \A r \in Failures : Told(r, t) = "failed"
  BY <1>4, Zenon DEF Told
<1> QED
  BY <1>1, <1>2, <1>3, <1>5

LEMMA EndsTells ==
    ASSUME TypeOK, OutcomeInv, NEW c \in Calls, NEW how, Ends(c, how), UNCHANGED effect,
           how # "refused", pc[c] # "done"
    PROVE  /\ Effects' = Effects
           /\ Tolds[c] = "nothing" /\ Effects[c] = effect[c]
           /\ Tolds' = [Tolds EXCEPT ![c] = Told(how, tool[c])]
<1>1. reply[c] = "none" /\ reply' = [reply EXCEPT ![c] = how] /\ UNCHANGED tool
  BY DEF OutcomeInv, CallOutcome, Ends
<1>2. \A d \in Calls : Outcome(d)' = Outcome(d)
  BY <1>1 DEF Outcome, TypeOK
<1>3. \A d \in Calls : reply'[d] = IF d = c THEN how ELSE reply[d]
  BY <1>1 DEF TypeOK
<1>4. \A d \in Calls : Told(reply'[d], tool'[d])
                          = IF d = c THEN Told(how, tool[c]) ELSE Told(reply[d], tool[d])
  BY <1>1, <1>3
<1>5. Tolds' = [Tolds EXCEPT ![c] = Told(how, tool[c])]
  BY <1>4 DEF Tolds
<1>6. Effects' = Effects
  BY <1>2 DEF Effects
<1>7. Effects[c] = effect[c] /\ Tolds[c] = "nothing"
  BY <1>1, ToldIs DEF Effects, Tolds, Outcome
<1> QED
  BY <1>5, <1>6, <1>7

LEMMA EffectChanges ==
    ASSUME TypeOK, NEW c \in Calls, NEW e, effect' = [effect EXCEPT ![c] = e],
           UNCHANGED <<reply, tool>>, reply[c] # "refused"
    PROVE  /\ Effects' = [Effects EXCEPT ![c] = e] /\ Effects[c] = effect[c]
           /\ Tolds' = Tolds
<1>1. \A d \in Calls : Outcome(d)' = IF d = c THEN e ELSE Outcome(d)
  BY DEF Outcome, TypeOK
<1> QED
  BY <1>1 DEF Effects, Tolds, Outcome

\* Every step is a step of RemoteCall or changes nothing there.
LEMMA StepImplements ==
    ASSUME TypeOK, OutcomeInv, Step
    PROVE  [Promise!Next]_<<Effects, Tolds>>
<1> USE DEF timeVars, callVars, backendVars, processVars
<1>0. UNCHANGED <<effect, reply, tool>> => UNCHANGED <<Effects, Tolds>>
  BY DEF Effects, Tolds, Outcome
<1>1. ASSUME NEW c \in Calls, GatewayStep(c) PROVE [Promise!Next]_<<Effects, Tolds>>
  <2>1. UNCHANGED <<effect, tool>>
    BY <1>1, GatewayStepShape DEF Ends, ToolFails
  <2>2. ASSUME NEW how \in Failures, Ends(c, how), pc[c] # "done"
        PROVE  Promise!TellFailed(c)
    <3>1. how # "refused"
      BY DEF Failures
    <3> QED
      BY <2>1, <2>2, <3>1, EndsTells, ToldIs
         DEF Promise!TellFailed, Promise!Tell, Effects, Tolds
  <2>3. CASE Ends(c, "ok") /\ Returned(c) /\ c \notin isError
    <3>1. effect[c] = "done" /\ pc[c] # "done"
      BY <2>3 DEF Returned, OutcomeInv, CallOutcome
    <3>2. Promise!TellOk(c)
      BY <2>1, <2>3, <3>1, EndsTells, ToldIs
         DEF Promise!TellOk, Promise!Tell, Effects, Tolds
    <3> QED
      BY <3>2 DEF Promise!Next
  <2>4. CASE Ends(c, "tool_error") /\ pc[c] = "probing"
    <3>1. ErrorOutcome(c) /\ pc[c] # "done"
      BY <2>4 DEF OutcomeInv, CallOutcome
    <3>2. CASE tool[c] \in ActsBeforeError
      BY <2>1, <2>4, <3>1, <3>2, EndsTells, ToldIs
         DEF ErrorOutcome, Promise!TellSettled, Promise!Tell, Promise!Next, Effects, Tolds
    <3>3. CASE tool[c] \notin ActsBeforeError
      BY <2>1, <2>4, <3>1, <3>3, EndsTells, ToldIs
         DEF ErrorOutcome, Promise!TellRefused, Promise!Tell, Promise!Next, Effects, Tolds
    <3> QED
      BY <3>2, <3>3
  <2>5. CASE Ends(c, Verdict) /\ pc[c] = "gathering"
    <3>1. Verdict # "refused" /\ Told(Verdict, tool[c]) = "nothing" /\ pc[c] # "done"
      BY <2>5, RepliesAreReplies, ToldIs
    <3>2. /\ Effects' = Effects /\ Tolds[c] = "nothing"
          /\ Tolds' = [Tolds EXCEPT ![c] = Told(Verdict, tool[c])]
      BY <2>1, <2>5, <3>1, EndsTells
    <3>3. UNCHANGED <<Effects, Tolds>>
      BY <3>1, <3>2, Zenon DEF Tolds
    <3> QED
      BY <3>3
  <2>6. CASE UNCHANGED reply
    BY <1>0, <2>1, <2>6
  <2> QED
    BY <1>1, <2>2, <2>3, <2>4, <2>5, <2>6, GatewayStepShape DEF ToolFails, Promise!Next
<1>2. ASSUME NEW c \in Calls, Refused(c) PROVE Promise!Refuses(c)
  <2>1. /\ reply[c] = "none" /\ effect[c] = "none" /\ UNCHANGED <<effect, tool>>
        /\ reply' = [reply EXCEPT ![c] = "refused"]
    BY <1>2 DEF Refused, Ends, OutcomeInv, CallOutcome
  <2>2. \A d \in Calls : /\ Outcome(d)' = IF d = c THEN "rejected" ELSE Outcome(d)
                         /\ reply'[d] = IF d = c THEN "refused" ELSE reply[d]
    BY <2>1 DEF Outcome, TypeOK
  <2>3. /\ Effects[c] = "none" /\ Tolds[c] = "nothing"
        /\ Effects' = [Effects EXCEPT ![c] = "rejected"]
        /\ Tolds' = [Tolds EXCEPT ![c] = "refused"]
    <3>1. \A d \in Calls : Told(reply'[d], tool'[d])
                              = IF d = c THEN "refused" ELSE Told(reply[d], tool[d])
      BY <2>1, <2>2, ToldIs
    <3>2. Tolds' = [Tolds EXCEPT ![c] = "refused"]
      BY <3>1 DEF Tolds
    <3>3. Effects' = [Effects EXCEPT ![c] = "rejected"]
      BY <2>2 DEF Effects
    <3> QED
      BY <2>1, <3>2, <3>3, ToldIs DEF Effects, Tolds, Outcome
  <2> QED
    BY <2>3 DEF Promise!Refuses, Effects, Tolds
<1>3. ASSUME NEW c \in Calls, Begins(c) \/ Rejects(c) \/ Finishes(c)
      PROVE  [Promise!Next]_<<Effects, Tolds>>
  <2>1. UNCHANGED <<reply, tool>> /\ reply[c] \in {"none"} \union Failures
    <3>1. work[c] \in {"queued", "running"} /\ UNCHANGED <<reply, tool>>
      BY <1>3 DEF Begins, Rejects, Finishes
    <3>2. /\ work[c] = "queued" => effect[c] = "none"
          /\ work[c] = "running" => effect[c] = IF tool[c] = "execute" THEN "done" ELSE "none"
          /\ reply[c] = "ok" => work[c] \in {"over", "lost"}
      BY DEF OutcomeInv, CallOutcome
    <3> QED
      BY <3>1, <3>2 DEF TypeOK, OutcomeInv, CallOutcome, ErrorOutcome, ActsBeforeError
  <2>2. Tolds[c] \in {"nothing", "failed"} /\ reply[c] # "refused"
    BY <2>1, ToldIs DEF Tolds, Failures
  <2>3. ASSUME effect[c] = "none", effect' = [effect EXCEPT ![c] = "done"]
        PROVE  Promise!Happens(c)
    BY <2>1, <2>2, <2>3, EffectChanges DEF Promise!Happens, Effects, Tolds
  <2>4. ASSUME effect[c] = "none", effect' = [effect EXCEPT ![c] = "rejected"]
        PROVE  Promise!Rejected(c)
    BY <2>1, <2>2, <2>4, EffectChanges DEF Promise!Rejected, Effects, Tolds
  <2>5. \/ UNCHANGED effect
        \/ effect[c] = "none" /\ effect' = [effect EXCEPT ![c] = "done"]
        \/ effect[c] = "none" /\ effect' = [effect EXCEPT ![c] = "rejected"]
    BY <1>3 DEF Begins, Rejects, Finishes, Again, TypeOK, OutcomeInv, CallOutcome
  <2> QED
    BY <1>0, <2>1, <2>3, <2>4, <2>5 DEF Promise!Next
\* A call's tool is set while its caller has been told nothing.
<1>4. ASSUME NEW c \in Calls,
             \/ \E t \in Tools \ {"health"}, w \in 0 .. CallTimeout : Call(c, t, w)
             \/ HealthBegins(c) \/ SessionOpens(c)
      PROVE  UNCHANGED <<Effects, Tolds>>
  <2>1. UNCHANGED <<effect, reply>> /\ \A d \in Calls : tool'[d] = tool[d] \/ reply[d] = "none"
    BY <1>4 DEF Call, HealthBegins, SessionOpens, OutcomeInv, CallOutcome, TypeOK
  <2>2. \A d \in Calls : Told(reply[d], tool'[d]) = Told(reply[d], tool[d])
    BY <2>1, ToldIs
  <2> QED
    BY <2>1, <2>2 DEF Effects, Tolds, Outcome
<1>5. ASSUME \/ \E t \in Targets : Dies(t) \/ Hangs(t) \/ Recovers(t)
             \/ Restarted \/ Tick
      PROVE  UNCHANGED <<effect, reply, tool>>
  BY <1>5 DEF Dies, Hangs, Recovers, Restarted, Tick
<1>6. (\E c \in Calls : Refused(c)) => Promise!Next
  BY <1>2 DEF Promise!Next
<1> QED
  BY <1>0, <1>1, <1>3, <1>4, <1>5, <1>6 DEF Step, Environment

\* The gateway keeps the promise of RemoteCall.
THEOREM Gateway_Implements == Spec => ImplementsRemoteCall
<1>1. Init => TypeOK /\ OutcomeInv /\ Promise!Init
  <2>1. Init => OutcomeInv
    BY DEF Init, OutcomeInv, CallOutcome
  <2>2. Init => Promise!Init
    BY ToldIs DEF Init, Promise!Init, Outcome
  <2> QED
    BY <2>1, <2>2, TypeInit
<1>2. TypeOK /\ OutcomeInv /\ [Next]_vars => (TypeOK /\ OutcomeInv)'
  <2>1. OutcomeInv /\ UNCHANGED vars => OutcomeInv'
    BY DEF vars, callVars, backendVars, OutcomeInv, CallOutcome, ErrorOutcome
  <2> QED
    BY <2>1, TypeInductive, OutcomeInductive DEF Next
<1>3. TypeOK /\ OutcomeInv /\ [Next]_vars => [Promise!Next]_<<Effects, Tolds>>
  <2>1. UNCHANGED vars => UNCHANGED <<Effects, Tolds>>
    BY DEF vars, callVars, backendVars, Effects, Tolds, Outcome
  <2> QED
    BY <2>1, StepImplements DEF Next
<1> QED
  BY <1>1, <1>2, <1>3, PTL DEF Spec, ImplementsRemoteCall, Promise!Spec, Effects, Tolds

(***************************************************************************)
(* A wait that fits the time limit.                                        *)
(***************************************************************************)

\* While an execute call waits, its time is the backend's delay, or time of its wait_ms.
CallWait(c) ==
    tool[c] = "execute" /\ pc[c] \in {"connecting", "calling"}
        => elapsed[c] + wait[c] <= late[c] + MaxWait

WaitInv == \A c \in Calls : CallWait(c)

LEMMA WaitInductive ==
    ASSUME TypeOK, TimeInv, WaitInv, Step
    PROVE  WaitInv'
<1> SUFFICES ASSUME NEW d \in Calls PROVE CallWait(d)'
  BY DEF WaitInv
<1> USE DurationsAreNumbers DEF timeVars, callVars, backendVars, CallWait
<1>0. /\ CallWait(d) /\ CallTime(d)
      /\ elapsed[d] \in Nat /\ wait[d] \in 0 .. MaxWait /\ late[d] \in Nat
  BY DEF WaitInv, TimeInv, TypeOK
<1>1. ASSUME NEW c \in Calls, GatewayStep(c) PROVE CallWait(d)'
  BY <1>0, <1>1, GatewayStepShape DEF Ends, ToolFails, TypeOK
<1>2. ASSUME NEW c \in Calls, NEW t \in Tools, NEW w \in 0 .. CallTimeout, Call(c, t, w)
      PROVE  CallWait(d)'
  BY <1>0, <1>2 DEF Call, Accepts, CallTime, TypeOK
<1>3. ASSUME NEW c \in Calls, Refused(c) \/ HealthBegins(c) \/ SessionOpens(c)
      PROVE  CallWait(d)'
  BY <1>0, <1>3 DEF Refused, HealthBegins, SessionOpens, Ends, TypeOK
<1>4. ASSUME NEW c \in Calls, Begins(c) \/ Rejects(c) \/ Finishes(c)
      PROVE  CallWait(d)'
  BY <1>0, <1>4 DEF Begins, Rejects, Finishes, TypeOK
<1>5. ASSUME NEW t \in Targets, Dies(t) \/ Hangs(t) \/ Recovers(t)
      PROVE  CallWait(d)'
  BY <1>0, <1>5 DEF Dies, Hangs, Recovers
<1>6. CASE Restarted
  BY <1>0, <1>6 DEF Restarted
<1>7. CASE Tick
  BY <1>0, <1>7 DEF Tick, Delayed, InSession, Less, TypeOK
<1> QED
  BY <1>1, <1>2, <1>3, <1>4, <1>5, <1>6, <1>7 DEF Step, Environment

\* The invariant of the time properties.
TimesInv == TypeOK /\ TimeInv /\ OutcomeInv /\ WaitInv

LEMMA TimesInductive == Spec => []TimesInv
<1>1. Init => TimesInv
  BY TypeInit DEF Init, TimesInv, TimeInv, CallTime, OutcomeInv, CallOutcome, WaitInv, CallWait
<1>2. TimesInv /\ [Next]_vars => TimesInv'
  <2>1. TimesInv /\ UNCHANGED vars => (TimeInv /\ OutcomeInv /\ WaitInv)'
    BY DEF vars, callVars, backendVars, timeVars, TimesInv, TimeInv, CallTime, OutcomeInv,
           CallOutcome, ErrorOutcome, WaitInv, CallWait
  <2> QED
    BY <2>1, TypeInductive, TimeInductive, OutcomeInductive, WaitInductive DEF Next, TimesInv
<1> QED
  BY <1>1, <1>2, PTL DEF Spec

\* What happens to the reply of one call, in any step.
LEMMA RepliesOnlyByGateway ==
    ASSUME TypeOK, OutcomeInv, Step, NEW d \in Calls, reply'[d] # reply[d]
    PROVE  /\ reply[d] = "none"
           /\ \/ GatewayStep(d) /\ Ends(d, reply'[d])
              \/ pc[d] = "ready" /\ reply'[d] = "refused"
<1> USE DEF timeVars, callVars, backendVars, processVars
<1>1. ASSUME NEW c \in Calls, GatewayStep(c)
      PROVE  c = d /\ reply[d] = "none" /\ Ends(d, reply'[d])
  <2>1. \E how : Ends(c, how)
    BY <1>1, GatewayStepShape DEF ToolFails
  <2>2. c = d /\ Ends(d, reply'[d])
    BY <2>1 DEF Ends, TypeOK
  <2>3. pc[d] # "done"
    BY <1>1, <2>2, GatewayStepShape DEF ToolFails, Returned
  <2> QED
    BY <2>2, <2>3 DEF OutcomeInv, CallOutcome
<1>2. ASSUME NEW c \in Calls, Refused(c)
      PROVE  reply[d] = "none" /\ pc[d] = "ready" /\ reply'[d] = "refused"
  BY <1>2 DEF Refused, Ends, TypeOK, OutcomeInv, CallOutcome
<1>3. CASE \E c \in Calls :
             \/ \E t \in Tools \ {"health"}, w \in 0 .. CallTimeout : Call(c, t, w)
             \/ HealthBegins(c) \/ SessionOpens(c)
  BY <1>3 DEF Call, HealthBegins, SessionOpens
<1>4. CASE Environment
  BY <1>4 DEF Environment, Begins, Rejects, Finishes, Dies, Hangs, Recovers, Restarted
<1>5. CASE Tick
  BY <1>5 DEF Tick
<1> QED
  BY <1>1, <1>2, <1>3, <1>4, <1>5 DEF Step

\* An execute call that times out was delayed by the backend for the difference of the
\* two limits, so the id of a job that merely runs on is never lost.
THEOREM Wait_FitsBudget == Spec => WaitFitsBudget
<1>1. ASSUME TimesInv, [Next]_vars, NEW c \in Calls,
             pc[c] # "probing", tool[c] = "execute", reply[c] # "timeout", reply'[c] = "timeout"
      PROVE  late[c] >= CallTimeout - MaxWait
  <2>1. Step
    BY <1>1 DEF Next, vars, callVars
  <2>2. GatewayStep(c) /\ Ends(c, "timeout")
    BY <1>1, <2>1, RepliesOnlyByGateway DEF TimesInv
  <2>3. timer[c] = 0 /\ pc[c] \in {"connecting", "calling"}
    <3>1. \A how : Ends(c, how) => how = "timeout"
      BY <1>1 DEF Ends, TimesInv, TypeOK
    <3>2. Verdict # "timeout" /\ "timeout" \in Failures
      BY RepliesAreReplies DEF Failures
    <3>3. reply' # reply
      BY <1>1
    <3> QED
      BY <1>1, <2>2, <3>1, <3>2, <3>3, GatewayStepShape DEF ToolFails, callVars
  <2>4. elapsed[c] = CallTimeout
    BY <1>1, <2>3, DurationsAreNumbers DEF TimesInv, TimeInv, CallTime, TypeOK
  <2> QED
    BY <1>1, <2>3, <2>4, DurationsAreNumbers DEF TimesInv, WaitInv, CallWait, TypeOK
<1>2. TimesInv /\ [Next]_vars =>
        [\A c \in Calls :
            pc[c] # "probing" /\ tool[c] = "execute" /\ reply[c] # "timeout"
            /\ reply'[c] = "timeout" => late[c] >= CallTimeout - MaxWait]_vars
  BY <1>1
<1> QED
  BY <1>2, TimesInductive, PTL DEF Spec, WaitFitsBudget

(***************************************************************************)
(* The probe after an error.                                               *)
(***************************************************************************)

\* A probed backend that has always been able is probed within the same instant.
CallProbe(c) ==
    pc[c] = "probing" =>
        /\ c \notin masked => Able(At(c))
        /\ c \notin masked \union broken => timer[c] > 0

ProbeInv == \A c \in Calls : CallProbe(c)

LEMMA ProbeInductive ==
    ASSUME TypeOK, ProbeInv, Next
    PROVE  ProbeInv'
<1> SUFFICES ASSUME NEW d \in Calls, pc'[d] = "probing", d \notin masked'
             PROVE  Able(At(d))' /\ (d \notin broken' => timer'[d] > 0)
  BY DEF ProbeInv, CallProbe
<1> USE DurationsAreNumbers DEF timeVars, callVars, backendVars, processVars
<1>0. /\ Step /\ Able(At(d))' /\ d \notin masked
      /\ pc[d] = "probing" => Able(At(d)) /\ (d \notin broken => timer[d] > 0)
      /\ timer[d] \in Nat
  <2>1. Observes /\ Step
    BY DEF Next
  <2>2. Able(At(d))' /\ d \notin masked
    BY <2>1 DEF Observes
  <2> QED
    BY <2>1, <2>2 DEF ProbeInv, CallProbe, TypeOK
<1> SUFFICES ASSUME d \notin broken' PROVE timer'[d] > 0
  BY <1>0
<1>1. ASSUME NEW c \in Calls, GatewayStep(c) PROVE timer'[d] > 0
  BY <1>0, <1>1, GatewayStepShape DEF Ends, ToolFails, TypeOK
<1>2. ASSUME NEW c \in Calls, NEW t \in Tools, NEW w \in 0 .. CallTimeout, Call(c, t, w)
      PROVE  timer'[d] > 0
  BY <1>0, <1>2 DEF Call, TypeOK
<1>3. ASSUME NEW c \in Calls, Refused(c) \/ HealthBegins(c) \/ SessionOpens(c)
      PROVE  timer'[d] > 0
  BY <1>0, <1>3 DEF Refused, HealthBegins, SessionOpens, Ends, TypeOK
<1>4. CASE Environment
  BY <1>0, <1>4 DEF Environment, Begins, Rejects, Finishes, Dies, Hangs, Recovers, Restarted
<1>5. CASE Tick
  BY <1>0, <1>5 DEF Tick, Urgent
<1> QED
  BY <1>0, <1>1, <1>2, <1>3, <1>4, <1>5 DEF Step

\* A failure reported by the probe that follows a tool's error is the mark of an outage,
\* of a busy backend, or of a cut session.
THEOREM ErrorsMasked_ByOutageOnly == Spec => ErrorsMaskedByOutageOnly
<1>1. Init => ProbeInv
  BY DEF Init, ProbeInv, CallProbe
<1>2. TypeOK /\ ProbeInv /\ [Next]_vars => ProbeInv'
  <2>1. ProbeInv /\ UNCHANGED vars => ProbeInv'
    BY DEF vars, callVars, backendVars, processVars, observedVars, ProbeInv, CallProbe, Able,
           Up, Busy, At
  <2> QED
    BY <2>1, ProbeInductive
<1>3. ASSUME TimesInv, ProbeInv, [Next]_vars, NEW c \in Calls,
             pc[c] = "probing", reply'[c] \in Failures
      PROVE  c \in masked \union broken
  <2>1. reply[c] = "none" /\ "none" \notin Failures
    BY <1>3 DEF TimesInv, OutcomeInv, CallOutcome, Failures
  <2>2. Step
    BY <1>3, <2>1 DEF Next, vars, callVars
  <2>3. GatewayStep(c) /\ Ends(c, reply'[c])
    BY <1>3, <2>1, <2>2, RepliesOnlyByGateway DEF TimesInv
  <2>4. timer[c] = 0 \/ Lost(c)
    <3>1. \A how : Ends(c, how) => how = reply'[c]
      BY <1>3 DEF Ends, TimesInv, TypeOK
    <3>2. "ok" \notin Failures /\ "tool_error" \notin Failures /\ Verdict \notin Failures
      BY RepliesAreReplies DEF Failures
    <3> QED
      BY <1>3, <2>1, <2>3, <3>1, <3>2, GatewayStepShape DEF ToolFails, Returned, callVars
  <2>5. ASSUME Lost(c), c \notin broken PROVE ~ Able(At(c))
    BY <2>5 DEF Lost, Able, Up
  <2> QED
    BY <1>3, <2>4, <2>5 DEF ProbeInv, CallProbe
<1>4. TimesInv /\ ProbeInv /\ [Next]_vars =>
        [\A c \in Calls :
            pc[c] = "probing" /\ reply'[c] \in Failures => c \in masked \union broken]_vars
  BY <1>3
<1>5. TimesInv => TypeOK
  BY DEF TimesInv
<1> QED
  BY <1>1, <1>2, <1>4, <1>5, TimesInductive, PTL DEF Spec, ErrorsMaskedByOutageOnly

(***************************************************************************)
(* The health check.                                                       *)
(***************************************************************************)

\* What the running check has found was true at some time of it.
HealthInv ==
    /\ (\A c \in Calls : pc[c] # "gathering") => \A t \in Targets : found[t] = "pending"
    /\ (\E c \in Calls : pc[c] = "gathering") =>
          \A t \in Targets :
             /\ found[t] = "healthy" => t \in ableOnce
             /\ found[t] = "unhealthy" => t \in unableOnce

LEMMA HealthInductive ==
    ASSUME TypeOK, HealthInv, Next
    PROVE  HealthInv'
<1> USE DEF timeVars, callVars, backendVars, processVars
<1>0. Step /\ Observes
  BY DEF Next
\* What was seen is kept for as long as a check runs.
<1>1. (\E c \in Calls : pc'[c] = "gathering") =>
         ableOnce \subseteq ableOnce' /\ unableOnce \subseteq unableOnce'
  BY <1>0 DEF Observes
<1>2. ASSUME UNCHANGED found,
             \A c \in Calls : pc[c] = "gathering" <=> pc'[c] = "gathering"
      PROVE  HealthInv'
  BY <1>1, <1>2 DEF HealthInv
<1>3. ASSUME \A t \in Targets : found'[t] = "pending" PROVE HealthInv'
  BY <1>3 DEF HealthInv
<1>4. ASSUME NEW c \in Calls, GatewayStep(c) PROVE HealthInv'
  <2>1. CASE \E t \in Targets : HealthFinds(c, t)
    <3>1. PICK t \in Targets : HealthFinds(c, t)
      BY <2>1
    <3>2. pc[c] = "gathering" /\ UNCHANGED pc /\ (Able(t)' <=> Able(t))
      BY <3>1 DEF HealthFinds, Able, Up, Busy, At
    <3>3. /\ found'[t] = "healthy" => t \in ableOnce'
          /\ found'[t] = "unhealthy" => t \in unableOnce'
      BY <1>0, <3>1, <3>2 DEF HealthFinds, Observes, TypeOK
    <3>4. \A u \in Targets \ {t} : found'[u] = found[u]
      BY <3>1 DEF HealthFinds, TypeOK
    <3> QED
      BY <1>1, <3>2, <3>3, <3>4 DEF HealthInv
  <2>2. CASE HealthReports(c)
    BY <1>3, <2>2 DEF HealthReports
  <2>3. CASE Raises(c) \/ TimesOut(c) \/ Answered(c) \/ RpcFails(c) \/ ToolFails(c)
             \/ ProbeAnswered(c) \/ ProbeFails(c)
    <3>1. UNCHANGED found
      BY <2>3 DEF Raises, TimesOut, Answered, RpcFails, ToolFails, ProbeAnswered, ProbeFails
    <3>2. pc[c] # "gathering" /\ (pc' = [pc EXCEPT ![c] = "done"] \/ pc' = [pc EXCEPT ![c] = "probing"])
      BY <2>3 DEF Raises, TimesOut, Answered, RpcFails, ToolFails, ProbeAnswered,
                  ProbeFails, Ends, Returned
    <3> QED
      BY <1>2, <3>1, <3>2 DEF TypeOK
  <2> QED
    BY <1>4, <2>1, <2>2, <2>3 DEF GatewayStep
<1>5. ASSUME NEW c \in Calls, NEW t \in Tools, NEW w \in 0 .. CallTimeout, Call(c, t, w)
      PROVE  HealthInv'
  BY <1>2, <1>5 DEF Call, TypeOK
<1>6. ASSUME NEW c \in Calls, Refused(c) \/ SessionOpens(c) PROVE HealthInv'
  BY <1>2, <1>6 DEF Refused, SessionOpens, Ends, TypeOK
<1>7. ASSUME NEW c \in Calls, HealthBegins(c) PROVE HealthInv'
  BY <1>3, <1>7 DEF HealthBegins, HealthInv
<1>8. CASE Environment
  BY <1>2, <1>8 DEF Environment, Begins, Rejects, Finishes, Dies, Hangs, Recovers, Restarted
<1>9. CASE Tick
  BY <1>2, <1>9 DEF Tick
<1> QED
  BY <1>0, <1>4, <1>5, <1>6, <1>7, <1>8, <1>9 DEF Step

\* The verdict of a health check is about the time of the check.
THEOREM Health_IsAccurate == Spec => HealthIsAccurate
<1>1. Init => HealthInv
  BY DEF Init, HealthInv
<1>2. TypeOK /\ HealthInv /\ [Next]_vars => HealthInv'
  <2>1. HealthInv /\ UNCHANGED vars => HealthInv'
    BY DEF vars, callVars, observedVars, HealthInv
  <2> QED
    BY <2>1, HealthInductive
<1>3. ASSUME TimesInv, HealthInv, [Next]_vars, NEW c \in Calls, pc[c] = "gathering"
      PROVE  /\ reply'[c] = "healthy" => ableOnce = Targets
             /\ reply'[c] = "unhealthy" => unableOnce # {}
  <2> SUFFICES ASSUME reply'[c] \in {"healthy", "unhealthy"}
               PROVE  /\ reply'[c] = "healthy" => ableOnce = Targets
                      /\ reply'[c] = "unhealthy" => unableOnce # {}
    OBVIOUS
  <2>1. reply[c] = "none"
    BY <1>3 DEF TimesInv, OutcomeInv, CallOutcome
  <2>2. Step
    BY <1>3, <2>1 DEF Next, vars, callVars
  <2>3. GatewayStep(c) /\ Ends(c, reply'[c])
    BY <1>3, <2>1, <2>2, RepliesOnlyByGateway DEF TimesInv
  <2>4. HealthReports(c) /\ reply'[c] = Verdict
    <3>1. \A how : Ends(c, how) => how = reply'[c]
      BY <1>3 DEF Ends, TimesInv, TypeOK
    <3> QED
      BY <1>3, <2>1, <2>3, <3>1, GatewayStepShape DEF ToolFails, Returned, callVars
  <2>5. \A t \in Targets : found[t] \in {"healthy", "unhealthy"}
    BY <1>3, <2>4 DEF HealthReports, TimesInv, TypeOK
  <2>6. CASE Verdict = "healthy"
    <3>1. \A t \in Targets : found[t] = "healthy"
      BY <2>6 DEF Verdict
    <3>2. ableOnce = Targets
      BY <1>3, <3>1 DEF HealthInv, TimesInv, TypeOK
    <3> QED
      BY <2>4, <2>6, <3>2
  <2>7. CASE Verdict = "unhealthy"
    <3>1. \E t \in Targets : found[t] # "healthy"
      BY <2>7 DEF Verdict
    <3>2. unableOnce # {}
      BY <1>3, <2>5, <3>1 DEF HealthInv
    <3> QED
      BY <2>4, <2>7, <3>2
  <2> QED
    BY <2>6, <2>7, RepliesAreReplies
<1>4. TimesInv /\ HealthInv /\ [Next]_vars =>
        [\A c \in Calls : pc[c] = "gathering" =>
            /\ reply'[c] = "healthy" => ableOnce = Targets
            /\ reply'[c] = "unhealthy" => unableOnce # {}]_vars
  BY <1>3
<1>5. TimesInv => TypeOK
  BY DEF TimesInv
<1> QED
  BY <1>1, <1>2, <1>4, <1>5, TimesInductive, PTL DEF Spec, HealthIsAccurate
=============================================================================
