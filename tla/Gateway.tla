------------------------------- MODULE Gateway -------------------------------
(***************************************************************************)
(* The gateway's delegation of calls to the backends (haru_mcp/tools.py):  *)
(* every call opens a session of its own through the proxy, under one time *)
(* limit, and an answer that carries an error is followed by a probe of    *)
(* the backend, under another.                                             *)
(*                                                                         *)
(* The gateway keeps nothing between calls and never cancels what it has   *)
(* sent: after a time limit the backend goes on.  The backends, the proxy  *)
(* and their deaths, hangs and restarts are external.  The file-transfer   *)
(* backend runs one call at a time and answers nobody meanwhile.           *)
(*                                                                         *)
(* Time is discrete; what the event loop can run at once precedes a Tick.  *)
(***************************************************************************)
EXTENDS Naturals, FiniteSets

CONSTANTS
    Calls,              \* calls of the gateway's tools
    CallTimeout,        \* _BACKEND_CALL_TIMEOUT_SECONDS
    TransferTimeout,    \* _FILE_TRANSFER_CALL_TIMEOUT_SECONDS
    ProbeTimeout,       \* _BACKEND_HEALTH_TIMEOUT_SECONDS
    MaxWait,            \* _SHELL_MAX_WAIT_MS
    Losses              \* bound on deaths and hangs

ASSUME GatewayAssumption ==
    /\ {CallTimeout, TransferTimeout, ProbeTimeout} \subseteq Nat \ {0}
    /\ MaxWait \in Nat /\ MaxWait < CallTimeout
    /\ Losses \in Nat

Tools == {"file", "execute", "job", "transfer", "resource", "health"}
Backends == {"filesystem", "shell", "file_ingress"}
Targets == Backends \union {"proxy"}

\* The wrappers: which backend a tool is for, and how long it may take.
Endpoint(t) ==
    CASE t = "file" -> "filesystem"
      [] t \in {"execute", "job"} -> "shell"
      [] t \in {"transfer", "resource"} -> "file_ingress"
      [] OTHER -> "proxy"

TimeLimit(t) ==
    CASE t = "health" -> ProbeTimeout
      [] Endpoint(t) = "file_ingress" -> TransferTimeout
      [] OTHER -> CallTimeout

\* Tools whose error may follow their effect: stop() throws after its signals, an import
\* fails on its directory's fsync after publication; of the external filesystem server
\* nothing is known.  A job that cannot be started never was, a read changes nothing.
ActsBeforeError == {"file", "job", "transfer"}

Failures == {"timeout", "unreachable", "session_closed", "protocol_error"}

VARIABLES
    pc,         \* where each call stands in the gateway
    tool,
    timer,      \* what is left of its fail_after
    reply,      \* what the caller got
    work,       \* the request in the backend
    wait,       \* what is left of wait_ms
    broken,     \* calls whose session has been cut
    alive,      \* processes of the composition
    stuck,      \* of which these answer nothing
    losses,
    found,      \* what the probes of workspace_backend_health have found
    isError,    \* requests whose answer carries an error
    effect,     \* history: what the operation did
    elapsed,    \* history: for how long the call has run
    late,       \* history: for how long the backend did not work on it or answer
    masked,     \* history: calls with an outage since their error was received
    ableOnce,   \* history: targets able to answer at some time of the check
    unableOnce  \* history: targets not able to at some time of the check

callVars == <<pc, tool, timer, reply>>
backendVars == <<work, wait, isError, effect>>
processVars == <<alive, stuck, losses>>
timeVars == <<elapsed, late>>
observedVars == <<masked, ableOnce, unableOnce>>
vars == <<callVars, backendVars, broken, processVars, found, timeVars, observedVars>>

TypeOK ==
    /\ pc \in [Calls -> {"ready", "connecting", "calling", "probing", "gathering", "done"}]
    /\ tool \in [Calls -> Tools]
    /\ timer \in [Calls -> Nat]
    /\ reply \in [Calls -> {"none", "ok", "refused", "tool_error", "healthy", "unhealthy"}
                           \union Failures]
    /\ work \in [Calls -> {"none", "queued", "running", "over", "lost"}]
    /\ wait \in [Calls -> 0 .. MaxWait]
    /\ effect \in [Calls -> {"none", "done", "twice", "rejected"}]
    /\ isError \subseteq Calls /\ broken \subseteq Calls /\ masked \subseteq Calls
    /\ alive \subseteq Targets /\ stuck \subseteq Targets
    /\ losses \in 0 .. Losses
    /\ found \in [Targets -> {"pending", "healthy", "unhealthy"}]
    /\ elapsed \in [Calls -> Nat]
    /\ late \in [Calls -> Nat]
    /\ ableOnce \subseteq Targets /\ unableOnce \subseteq Targets

Init ==
    /\ pc = [c \in Calls |-> "ready"]
    /\ tool = [c \in Calls |-> "file"]
    /\ timer = [c \in Calls |-> 0]
    /\ reply = [c \in Calls |-> "none"]
    /\ work = [c \in Calls |-> "none"]
    /\ wait = [c \in Calls |-> 0]
    /\ effect = [c \in Calls |-> "none"]
    /\ isError = {} /\ broken = {} /\ masked = {}
    /\ alive = Targets /\ stuck = {}
    /\ losses = 0
    /\ found = [t \in Targets |-> "pending"]
    /\ elapsed = [c \in Calls |-> 0]
    /\ late = [c \in Calls |-> 0]
    /\ ableOnce = {} /\ unableOnce = {}

-----------------------------------------------------------------------------

Up(t) == {"proxy", t} \subseteq alive \ stuck

At(c) == Endpoint(tool[c])

\* import_chatgpt_file and the export functions are plain functions of the child.
Busy(t) == t = "file_ingress" /\ \E c \in Calls : work[c] = "running" /\ At(c) = t

Able(t) == IF t = "proxy" THEN Up(t) ELSE Up(t) /\ ~ Busy(t)

-----------------------------------------------------------------------------
(* The gateway. *)

Ends(c, how) ==
    /\ pc' = [pc EXCEPT ![c] = "done"]
    /\ reply' = [reply EXCEPT ![c] = how]
    /\ timer' = [timer EXCEPT ![c] = 0]
    /\ elapsed' = [elapsed EXCEPT ![c] = 0]
    /\ late' = [late EXCEPT ![c] = 0]
    /\ UNCHANGED tool

MutantAccepts(t, w) == w \in 0 .. CallTimeout

\* shell_execute looks at wait_ms itself; the other tools have none.
Accepts(t, w) == w \in 0 .. (IF t = "execute" THEN MaxWait ELSE 0)

Call(c, t, w) ==
    /\ pc[c] = "ready"
    /\ Accepts(t, w)
    /\ pc' = [pc EXCEPT ![c] = "connecting"]
    /\ tool' = [tool EXCEPT ![c] = t]
    /\ timer' = [timer EXCEPT ![c] = TimeLimit(t)]
    /\ wait' = [wait EXCEPT ![c] = w]
    /\ UNCHANGED <<reply, work, isError, effect, broken, processVars, found, timeVars>>

\* _shell_input_failure: no backend hears of the call.
Refused(c) ==
    /\ pc[c] = "ready"
    /\ Ends(c, "refused")
    /\ UNCHANGED <<backendVars, broken, processVars, found>>

\* The session is initialized and the request is sent.
SessionOpens(c) ==
    /\ pc[c] = "connecting" /\ c \notin broken
    /\ Up(At(c))
    /\ pc' = [pc EXCEPT ![c] = "calling"]
    /\ work' = [work EXCEPT ![c] = "queued"]
    /\ UNCHANGED <<tool, timer, reply, wait, isError, effect, broken, processVars,
                   found, timeVars>>

\* _classify_backend_exception: a group of exceptions, or one by itself.  Its
\* timeouts are those of fail_after, which come by TimesOut.
Classify(grouped, kinds) ==
    CASE "unreachable" \in kinds -> "unreachable"
      [] "session_closed" \in kinds \/ grouped -> "session_closed"
      [] OTHER -> "protocol_error"

Exceptions == {"unreachable", "session_closed", "protocol_error"}

Lost(c) == c \in broken \/ ~ {"proxy", At(c)} \subseteq alive

MutantRaises(c) ==
    /\ pc[c] \in {"connecting", "calling"} /\ Lost(c)
    /\ pc' = [pc EXCEPT ![c] = "connecting"]
    /\ broken' = broken \ {c}
    /\ UNCHANGED <<tool, timer, reply, backendVars, processVars, found, timeVars>>

\* The session cannot be opened or is cut.
Raises(c) ==
    /\ pc[c] \in {"connecting", "calling"} /\ Lost(c)
    /\ \/ \E kind \in Exceptions : Ends(c, Classify(FALSE, {kind}))
       \/ \E kinds \in SUBSET Exceptions \ {{}} : Ends(c, Classify(TRUE, kinds))
    /\ UNCHANGED <<backendVars, broken, processVars, found>>

TimesOut(c) ==
    /\ pc[c] \in {"connecting", "calling"} /\ timer[c] = 0
    /\ Ends(c, "timeout")
    /\ UNCHANGED <<backendVars, broken, processVars, found>>

Returned(c) ==
    /\ pc[c] = "calling" /\ c \notin broken
    /\ work[c] = "over" /\ Up(At(c))

\* A result without an error is passed on.
Answered(c) ==
    /\ Returned(c) /\ c \notin isError
    /\ Ends(c, "ok")
    /\ UNCHANGED <<backendVars, broken, processVars, found>>

\* A JSON-RPC error, as every error of a resource is, comes as an exception.
RpcFails(c) ==
    /\ Returned(c) /\ c \in isError
    /\ \E grouped \in BOOLEAN : Ends(c, Classify(grouped, {"protocol_error"}))
    /\ UNCHANGED <<backendVars, broken, processVars, found>>

MutantSlowProbe(c) ==
    /\ Returned(c) /\ c \in isError /\ tool[c] # "resource"
    /\ pc' = [pc EXCEPT ![c] = "probing"]
    /\ timer' = [timer EXCEPT ![c] = TimeLimit(tool[c])]
    /\ UNCHANGED <<tool, reply, timeVars, backendVars, broken, processVars, found>>

MutantProbeInBudget(c) ==
    /\ Returned(c) /\ c \in isError /\ tool[c] # "resource"
    /\ pc' = [pc EXCEPT ![c] = "probing"]
    /\ UNCHANGED <<tool, timer, reply, timeVars, backendVars, broken, processVars, found>>

\* result.isError: the backend is probed before the caller is told.
ToolFails(c) ==
    /\ Returned(c) /\ c \in isError /\ tool[c] # "resource"
    /\ pc' = [pc EXCEPT ![c] = "probing"]
    /\ timer' = [timer EXCEPT ![c] = ProbeTimeout]
    /\ UNCHANGED <<tool, reply, timeVars, backendVars, broken, processVars, found>>

ProbeAnswered(c) ==
    /\ pc[c] = "probing" /\ c \notin broken
    /\ Able(At(c))
    /\ Ends(c, "tool_error")
    /\ UNCHANGED <<backendVars, broken, processVars, found>>

\* The category of the probe is reported in place of the tool's own error.
ProbeFails(c) ==
    /\ pc[c] = "probing"
    /\ \/ timer[c] = 0 /\ Ends(c, "timeout")
       \/ Lost(c) /\ \E kind \in Exceptions : Ends(c, kind)
    /\ UNCHANGED <<backendVars, broken, processVars, found>>

\* workspace_backend_health probes the proxy and all backends at once.
HealthBegins(c) ==
    /\ pc[c] = "ready" /\ \A d \in Calls : pc[d] # "gathering"
    /\ pc' = [pc EXCEPT ![c] = "gathering"]
    /\ tool' = [tool EXCEPT ![c] = "health"]
    /\ timer' = [timer EXCEPT ![c] = ProbeTimeout]
    /\ UNCHANGED <<reply, found, backendVars, broken, processVars, timeVars>>

HealthFinds(c, t) ==
    /\ pc[c] = "gathering" /\ found[t] = "pending"
    /\ \/ /\ Able(t)
          /\ found' = [found EXCEPT ![t] = "healthy"]
       \/ /\ ~ Able(t) /\ (timer[c] = 0 \/ ~ {"proxy", t} \subseteq alive)
          /\ found' = [found EXCEPT ![t] = "unhealthy"]
    /\ UNCHANGED <<callVars, backendVars, broken, processVars, timeVars>>

MutantVerdict == IF found["proxy"] = "healthy" THEN "healthy" ELSE "unhealthy"

Verdict == IF \A t \in Targets : found[t] = "healthy" THEN "healthy" ELSE "unhealthy"

HealthReports(c) ==
    /\ pc[c] = "gathering" /\ \A t \in Targets : found[t] # "pending"
    /\ Ends(c, Verdict)
    /\ found' = [t \in Targets |-> "pending"]
    /\ UNCHANGED <<backendVars, broken, processVars>>

GatewayStep(c) ==
    \/ Raises(c) \/ TimesOut(c) \/ Answered(c) \/ RpcFails(c) \/ ToolFails(c)
    \/ ProbeAnswered(c) \/ ProbeFails(c)
    \/ (\E t \in Targets : HealthFinds(c, t)) \/ HealthReports(c)

-----------------------------------------------------------------------------
(* The backends. *)

Again(e) == IF e = "none" THEN "done" ELSE "twice"

\* A job starts before its wait; everything else takes effect at the end.
Begins(c) ==
    /\ work[c] = "queued" /\ Able(At(c))
    /\ work' = [work EXCEPT ![c] = "running"]
    /\ effect' = IF tool[c] = "execute" THEN [effect EXCEPT ![c] = Again(@)] ELSE effect
    /\ UNCHANGED <<wait, isError, callVars, broken, processVars, found, timeVars>>

\* Its answer is an error, which some tools may give when they have acted.
Rejects(c) ==
    /\ work[c] = (IF tool[c] = "execute" THEN "queued" ELSE "running") /\ Up(At(c))
    /\ work' = [work EXCEPT ![c] = "over"]
    /\ isError' = isError \union {c}
    /\ \/ effect' = [effect EXCEPT ![c] = IF @ = "none" THEN "rejected" ELSE @]
       \/ /\ tool[c] \in ActsBeforeError
          /\ effect' = [effect EXCEPT ![c] = Again(@)]
    /\ UNCHANGED <<wait, callVars, broken, processVars, found, timeVars>>

\* With execute, the job has ended or its wait has.
Finishes(c) ==
    /\ work[c] = "running" /\ Up(At(c))
    /\ work' = [work EXCEPT ![c] = "over"]
    /\ effect' = IF tool[c] = "execute" THEN effect ELSE [effect EXCEPT ![c] = Again(@)]
    /\ wait' = [wait EXCEPT ![c] = 0]
    /\ UNCHANGED <<isError, callVars, broken, processVars, found, timeVars>>

InSession(c) == pc[c] \in {"connecting", "calling", "probing", "gathering"}

Unfinished == {"queued", "running", "over"}

Dies(t) ==
    /\ t \in alive /\ losses < Losses
    /\ losses' = losses + 1
    /\ alive' = alive \ {t}
    /\ broken' = broken \union {c \in Calls : InSession(c) /\ t \in {"proxy", At(c)}}
    /\ work' = [c \in Calls |-> IF t = At(c) /\ work[c] \in Unfinished THEN "lost" ELSE work[c]]
    /\ wait' = [c \in Calls |-> IF work'[c] = "lost" THEN 0 ELSE wait[c]]
    /\ UNCHANGED <<isError, effect, stuck, callVars, found, timeVars>>

Hangs(t) ==
    /\ t \notin stuck /\ losses < Losses
    /\ losses' = losses + 1
    /\ stuck' = stuck \union {t}
    /\ UNCHANGED <<alive, callVars, backendVars, broken, found, timeVars>>

Recovers(t) ==
    /\ t \in stuck
    /\ stuck' = stuck \ {t}
    /\ UNCHANGED <<alive, losses, callVars, backendVars, broken, found, timeVars>>

\* The supervisor has failed closed and systemd has started a new composition.
Restarted ==
    /\ alive # Targets \/ stuck # {}
    /\ alive' = Targets /\ stuck' = {}
    /\ broken' = broken \union {c \in Calls : InSession(c)}
    /\ work' = [c \in Calls |-> IF work[c] \in Unfinished THEN "lost" ELSE work[c]]
    /\ wait' = [c \in Calls |-> IF work'[c] = "lost" THEN 0 ELSE wait[c]]
    /\ UNCHANGED <<isError, effect, losses, callVars, found, timeVars>>

Environment ==
    \/ \E c \in Calls : Begins(c) \/ Rejects(c) \/ Finishes(c)
    \/ \E t \in Targets : Dies(t) \/ Hangs(t) \/ Recovers(t)
    \/ Restarted

\* What precedes the passing of time: the gateway's event loop, an able backend's
\* answer to a probe, the answer of a job whose wait is over.
Urgent ==
    \/ \E c \in Calls :
        \/ InSession(c) /\ timer[c] = 0
        \/ Returned(c)
        \/ pc[c] = "probing" /\ c \notin broken /\ Able(At(c))
        \/ tool[c] = "execute" /\ wait[c] = 0 /\ work[c] = "running" /\ Up(At(c))
    \/ \E c \in Calls :
        /\ pc[c] = "gathering"
        /\ \/ \A t \in Targets : found[t] # "pending"
           \/ \E t \in Targets : found[t] = "pending" /\ Able(t)

Less(n) == IF n > 0 THEN n - 1 ELSE 0

\* A call waits for the backend, and not only for the end of its wait_ms.
Delayed(c) ==
    /\ tool[c] = "execute" /\ pc[c] \in {"connecting", "calling"}
    /\ ~ (work[c] = "running" /\ wait[c] > 0)

Tick ==
    /\ ~ Urgent
    /\ \E c \in Calls : InSession(c)
    /\ timer' = [c \in Calls |-> Less(timer[c])]
    /\ wait' = [c \in Calls |-> IF work[c] = "running" THEN Less(wait[c]) ELSE wait[c]]
    /\ elapsed' = [c \in Calls |-> IF InSession(c) THEN elapsed[c] + 1 ELSE elapsed[c]]
    /\ late' = [c \in Calls |-> IF Delayed(c) THEN late[c] + 1 ELSE late[c]]
    /\ UNCHANGED <<pc, tool, reply, work, isError, effect, broken, processVars, found>>

\* The history of outages, beside every step.
Observes ==
    /\ masked' = masked \union {c \in Calls : pc'[c] = "probing" /\ ~ Able(At(c))'}
    /\ ableOnce' = IF \E c \in Calls : pc'[c] = "gathering"
                    THEN ableOnce \union {t \in Targets : Able(t)'} ELSE {}
    /\ unableOnce' = IF \E c \in Calls : pc'[c] = "gathering"
                      THEN unableOnce \union {t \in Targets : ~ Able(t)'} ELSE {}

Step ==
    \/ \E c \in Calls :
        \/ \E t \in Tools \ {"health"}, w \in 0 .. CallTimeout : Call(c, t, w)
        \/ Refused(c) \/ HealthBegins(c) \/ SessionOpens(c) \/ GatewayStep(c)
    \/ Environment \/ Tick

Next == Step /\ Observes

Spec == Init /\ [][Next]_vars

-----------------------------------------------------------------------------
(* Properties. *)

\* The reply as the caller may understand it; a health check is no operation.
Told(r, t) ==
    CASE r \in {"none", "healthy", "unhealthy"} -> "nothing"
      [] r = "ok" -> "ok"
      [] r = "refused" -> "refused"
      [] r = "tool_error" -> IF t \in ActsBeforeError THEN "settled" ELSE "refused"
      [] r \in Failures -> "failed"

\* A call the gateway refuses itself is rejected for good.
Outcome(c) == IF reply[c] = "refused" THEN "rejected" ELSE effect[c]

Promise == INSTANCE RemoteCall WITH
    effect <- [c \in Calls |-> Outcome(c)],
    told <- [c \in Calls |-> Told(reply[c], tool[c])]

\* Replies can be relied on.  ok: the operation took place, once.  refused, and
\* tool_error of an execute: it did not and will not, no job runs that nobody knows of.
\* tool_error of another tool: whatever it did, it has done, and will do no more.  Any
\* other reply means nothing, since what the gateway has given up may still happen.
\* The gateway repeats no call.
ImplementsRemoteCall == Promise!Spec

\* A caller is answered within the time limit of its tool and one probe, whatever
\* hangs or dies.
AnsweredInTime ==
    \A c \in Calls : InSession(c) => elapsed[c] <= TimeLimit(tool[c]) + ProbeTimeout

\* The limit on wait_ms keeps job ids from being lost: an execute times out only if
\* the backend was late by the difference, not because its job runs on.
WaitFitsBudget ==
    [][\A c \in Calls :
        pc[c] # "probing" /\ tool[c] = "execute" /\ reply[c] # "timeout" /\ reply'[c] = "timeout"
            => late[c] >= CallTimeout - MaxWait]_vars

\* The tool's own error is reported as a failure of the backend only if the backend
\* could not answer, or was busy, at some time of the probe.
ErrorsMaskedByOutageOnly ==
    [][\A c \in Calls :
        pc[c] = "probing" /\ reply'[c] \in Failures => c \in masked \union broken]_vars

\* A health check that says healthy has seen every target able to answer during the
\* check, a dead backend behind a live proxy included; one that says unhealthy has
\* seen some target that was not.
HealthIsAccurate ==
    [][\A c \in Calls : pc[c] = "gathering" =>
        /\ reply'[c] = "healthy" => ableOnce = Targets
        /\ reply'[c] = "unhealthy" => unableOnce # {}]_vars

=============================================================================
