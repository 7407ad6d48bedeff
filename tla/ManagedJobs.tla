---------------------------- MODULE ManagedJobs ----------------------------
(***************************************************************************)
(* The managed-job registry of the shell backend                           *)
(* (deploy/workspace/shell-exec-mcp-patch/managed-jobs.mjs) with the tools *)
(* that call it (bash.mjs) and the operating system it observes.           *)
(*                                                                         *)
(* The registry is one JavaScript event loop: the code between two awaits  *)
(* is atomic and everything else interleaves.  A task is one suspended     *)
(* activation: a tool call, a timer callback, an 'exit' callback or one    *)
(* sweep of the reaper.  The await that matters is the one in              *)
(* inspectOwnedGroup, which reads /proc: a task remembers the group        *)
(* members alive when its scan began and learns a verdict when it resumes. *)
(*                                                                         *)
(* Modelled platform: linux, the default group inspector and no activity   *)
(* reader, a positive SIGTERM grace period.                                *)
(*                                                                         *)
(* A definition whose name starts with Mutant is not part of the model: it *)
(* is the definition after it with a plausible bug, and PROJECT.json says  *)
(* which property finds the bug.                                           *)
(***************************************************************************)
EXTENDS Integers, FiniteSets

CONSTANTS
    Jobs,           \* identities the runs of execute may receive
    Tasks,          \* bound on the activations suspended at one time
    Kids,           \* processes a launcher or its descendants may fork
    MaxJobs,        \* maxJobs
    IdleLease,      \* idleLeaseMs
    BusyWindow,     \* busySampleWindowMs
    CompletedTtl,   \* completedTtlMs
    MaxClock,       \* bound on the clock
    MaxActivity,    \* bound on the CPU and I/O counters of a group
    Env             \* what else the operating system does, see EnvKinds

Launcher == "launcher"   \* bash -c: the leader of its session and group
Foreign  == "foreign"    \* a later, unrelated group with the same number
NoJob    == "none"

\* forkInScan:    a member forks while /proc is being read (readdir of /proc
\*                is no atomic snapshot, so the scan may list neither process)
\* readdirFails:  the listing of /proc fails, the verdict is 'unknown'
\* reuseInScan:   a group number is reused while a scan of it is suspended
\* reuseUnseen:   a group number is reused before any scan found the group gone
\* sweepsOverlap: a sweep outlasts sweepMs, the next one starts beside it
EnvKinds ==
    {"forkInScan", "readdirFails", "reuseInScan", "reuseUnseen", "sweepsOverlap"}

ASSUME ConstantsAssumption ==
    /\ NoJob \notin Jobs
    /\ {Launcher, Foreign} \cap Kids = {}
    /\ MaxJobs \in Nat \ {0}
    /\ IdleLease \in Nat \ {0}
    /\ BusyWindow \in Nat
    /\ CompletedTtl \in Nat \ {0}
    /\ MaxClock \in Nat
    /\ MaxActivity \in Nat
    /\ Env \subseteq EnvKinds

VARIABLES
    clock,      \* Date.now()
    registry,   \* the keys of this.jobs
    job,        \* the job objects: closures keep one after its deletion
    os,         \* each job's process group, as the kernel has it
    task        \* the suspended activations

vars == <<clock, registry, job, os, task>>

-----------------------------------------------------------------------------
(* Types *)

Final      == {"completed", "stopped", "reaped", "failed"}
JobStates  == {"absent", "running"} \cup Final
Reasons    == {"none", "stopped", "hard_timeout", "reaped"}
Processes  == Kids \cup {Launcher, Foreign}
Operations == {"idle", "execute", "status", "refresh", "stop", "hard", "sweep"}
StopPcs    == {"before", "term", "termEsrch", "termWait", "termPause", "afterTerm",
               "kill", "killEsrch", "killWait", "killPause"}
PausePcs   == {"termPause", "killPause"}     \* asleep between two polls
Pcs        == {"idle", "waiting", "loop", "refresh", "probe"} \cup StopPcs
Verdicts   == {"alive", "gone", "unknown"}

NoEvidence == [at |-> -1, members |-> {}, work |-> 0]

NoRecord ==
    [state |-> "absent", persistent |-> FALSE, stopReason |-> "none",
     launcherExited |-> FALSE, ownershipReleased |-> FALSE,
     hardTimer |-> FALSE, groupWatchTimer |-> FALSE,
     touchedAt |-> 0, completedAt |-> -1, evidence |-> NoEvidence]

NoGroup ==
    [live |-> {}, born |-> {}, doomed |-> FALSE, work |-> 0, hit |-> FALSE]

IdleTask ==
    [op |-> "idle", pc |-> "idle", job |-> NoJob, skip |-> FALSE,
     listed |-> {}, work |-> 0, todo |-> {}, now |-> 0]

JobRecord ==
    [state : JobStates, persistent : BOOLEAN, stopReason : Reasons,
     launcherExited : BOOLEAN, ownershipReleased : BOOLEAN,
     hardTimer : BOOLEAN, groupWatchTimer : BOOLEAN,
     touchedAt : Nat,            \* the later of lastOutputAtMs, lastObservedAtMs
     completedAt : Int,
     evidence : [at : Int, members : SUBSET Processes, work : Nat]]

GroupRecord ==
    [live : SUBSET Processes, born : SUBSET Kids, doomed : BOOLEAN,
     work : Nat, hit : BOOLEAN]

TaskRecord ==
    [op : Operations, pc : Pcs, job : Jobs \cup {NoJob}, skip : BOOLEAN,
     listed : SUBSET Processes, work : Nat, todo : SUBSET Jobs, now : Nat]

TypeOK ==
    /\ clock \in Nat
    /\ registry \subseteq Jobs
    /\ job \in [Jobs -> JobRecord]
    /\ os \in [Jobs -> GroupRecord]
    /\ task \in [Tasks -> TaskRecord]
    /\ \A t \in Tasks : task[t].pc \notin {"idle", "loop"} => task[t].job \in Jobs

-----------------------------------------------------------------------------
(* The registry's helpers, as functions of the job record they change *)

ResetIdleEvidence(r) == [r EXCEPT !.evidence = NoEvidence]

ClearJobTimers(r) == [r EXCEPT !.hardTimer = FALSE, !.groupWatchTimer = FALSE]

MutantKeepEvidence(r) ==
    IF r.state = "running" THEN [r EXCEPT !.touchedAt = clock] ELSE r

\* lastObservedAtMs = now and resetIdleEvidence, while the job runs
Observe(r) ==
    IF r.state = "running"
    THEN [ResetIdleEvidence(r) EXCEPT !.touchedAt = clock]
    ELSE r

\* job.done resolves with every change of state, so it needs no field.
Finalize(r, outcome) ==
    [ClearJobTimers(r) EXCEPT !.ownershipReleased = TRUE,
                              !.state = outcome,
                              !.completedAt = clock]

FinalizeNaturalCompletion(r) ==
    IF r.state = "running" /\ r.stopReason = "none"
    THEN Finalize(r, "completed")
    ELSE r

MutantRefinalize(r, reason) ==
    Finalize(r, IF reason = "reaped" THEN "reaped" ELSE "stopped")

FinalizeStopped(r, reason) ==
    IF r.state = "running"
    THEN Finalize(r, IF reason = "reaped" THEN "reaped" ELSE "stopped")
    ELSE r

MutantNoWatchDuringStop(r) ==
    IF r.state = "running" /\ r.launcherExited /\ r.stopReason = "none"
    THEN [r EXCEPT !.groupWatchTimer = TRUE]
    ELSE r

ScheduleGroupWatch(r) ==
    IF r.state = "running" /\ r.launcherExited
    THEN [r EXCEPT !.groupWatchTimer = TRUE]
    ELSE r

\* ids whose record purgeExpiredCompleted(now) deletes
Expired(now) ==
    {j \in registry : /\ job[j].state # "running"
                      /\ job[j].completedAt # -1
                      /\ now - job[j].completedAt >= CompletedTtl}

-----------------------------------------------------------------------------
(* inspectOwnedGroup: a scan of /proc that begins in one step and whose     *)
(* verdict the task learns in a later one                                   *)

MutantScanAfterRelease(tk, j, r, at) ==
    [tk EXCEPT !.pc = at, !.job = j, !.skip = FALSE, !.listed = os[j].live,
               !.work = IF at = "probe" THEN os[j].work ELSE 0]

\* The task with a scan of j begun at program point `at`; r is j's record.
Scan(tk, j, r, at) ==
    [tk EXCEPT !.pc = at, !.job = j,
               !.skip = r.ownershipReleased,
               !.listed = IF r.ownershipReleased THEN {} ELSE os[j].live,
               !.work = IF at = "probe" THEN os[j].work ELSE 0]

ScanPcs == ({"refresh", "probe"} \cup StopPcs) \ PausePcs

Scanning(j) ==
    \E t \in Tasks : task[t].pc \in ScanPcs /\ task[t].job = j /\ ~task[t].skip

MutantTrustGone(tk) ==
    LET missed == tk.listed \cap os[tk.job].live = {}
    IN IF tk.skip
       THEN {"gone"}
       ELSE {v \in Verdicts :
                \/ v = "alive" /\ tk.listed \cup os[tk.job].live # {}
                \/ v = "gone" /\ missed
                \/ v = "unknown" /\ "readdirFails" \in Env}

\* A member that lives through the whole scan is found; one that dies or
\* is born during it may be found or missed.
Inspected(tk) ==
    LET missed == tk.listed \cap os[tk.job].live = {}
        exited == job[tk.job].launcherExited
    IN IF tk.skip
       THEN {"gone"}
       ELSE {v \in Verdicts :
                \/ v = "alive" /\ tk.listed \cup os[tk.job].live # {}
                \/ v = "gone" /\ missed /\ exited
                \/ v = "unknown" /\ missed /\ ~exited
                \/ v = "unknown" /\ "readdirFails" \in Env}

\* 'gone' releases ownership of the group for good.
Learned(r, v) == IF v = "gone" THEN [r EXCEPT !.ownershipReleased = TRUE] ELSE r

Sample(tk) == [members |-> tk.listed, work |-> tk.work]

MutantReleaseOnly(r, v) ==
    IF v = "gone" THEN Learned(r, v) ELSE ScheduleGroupWatch(r)

\* The record after refreshAfterLauncherExit has learned v.
Refreshed(r, v) ==
    IF v = "gone"
    THEN FinalizeNaturalCompletion(Learned(r, v))
    ELSE ScheduleGroupWatch(r)

-----------------------------------------------------------------------------
(* Continuations of a task *)

InSweep(tk) == tk.op = "sweep"

\* Back in the loop of reapOnce, or back to the event loop.
Returned(tk) ==
    IF InSweep(tk)
    THEN [IdleTask EXCEPT !.op = "sweep", !.pc = "loop",
                          !.todo = tk.todo, !.now = tk.now]
    ELSE IdleTask

\* An exception leaves reapOnce too: nothing in its loop catches it.
Thrown == IdleTask

\* The lease check of reapOnce, after any refresh: probe the group or go on.
Consider(tk, j, r) ==
    IF /\ r.state = "running"
       /\ tk.now - r.touchedAt >= IdleLease
    THEN Scan(tk, j, r, "probe")
    ELSE Returned(tk)

Reason(tk) ==
    CASE tk.op = "stop" -> "stopped"
      [] tk.op = "hard" -> "hard_timeout"
      [] OTHER -> "reaped"

\* One synchronous stretch of task t on job j: the record and the task after.
Step(t, j, r, tk) ==
    /\ job' = [job EXCEPT ![j] = r]
    /\ task' = [task EXCEPT ![t] = tk]

Resumed(t, pcs) == task[t].pc \in pcs

-----------------------------------------------------------------------------
(* execute: start, wait, releaseCompleted *)

Start(j, persistent, hard) ==
    [NoRecord EXCEPT !.state = "running", !.persistent = persistent,
                     !.hardTimer = hard, !.touchedAt = clock]

\* A failed spawn reports through 'error' before any other event runs.
SpawnError(r) ==
    [ClearJobTimers(r) EXCEPT !.state = "failed", !.ownershipReleased = TRUE,
                              !.completedAt = clock]

MutantCountRunning(kept) ==
    Cardinality({j \in kept : job[j].state = "running"}) < MaxJobs

HasRoom(kept) == Cardinality(kept) < MaxJobs

\* ensureCapacity purges and then refuses a full registry; a call it refuses
\* purged nothing, since a purge makes room.  With no budget to wait
\* (background, wait_ms = 0) the call returns the running job at once and
\* leaves no activation behind.
Execute(t, j, persistent, hard, waits, spawned) ==
    LET kept == registry \ Expired(clock)
        r == Start(j, persistent, hard)
    IN /\ job[j].state = "absent"
       /\ task[t] = IdleTask
       /\ HasRoom(kept)
       /\ registry' = kept \cup {j}
       /\ Step(t, j, IF spawned THEN r ELSE SpawnError(r),
               IF waits
               THEN [IdleTask EXCEPT !.op = "execute", !.pc = "waiting", !.job = j]
               ELSE IdleTask)
       /\ os' = IF spawned THEN [os EXCEPT ![j].live = {Launcher}] ELSE os
       /\ UNCHANGED clock

\* What execute replies with: a finished job's record is released.
Replied(j, r) == IF r.state # "running" THEN registry \ {j} ELSE registry

\* The race of job.done and the wait timer is over.
WaitEnds(t) ==
    LET j == task[t].job  r == job[j]
    IN /\ Resumed(t, {"waiting"})
       /\ IF r.state = "running" /\ r.launcherExited
          THEN /\ task' = [task EXCEPT ![t] = Scan(task[t], j, r, "refresh")]
               /\ UNCHANGED registry
          ELSE /\ task' = [task EXCEPT ![t] = IdleTask]
               /\ registry' = Replied(j, r)
       /\ UNCHANGED <<clock, job, os>>

ExecuteReturns(t) ==
    LET j == task[t].job
    IN /\ Resumed(t, {"refresh"}) /\ task[t].op = "execute"
       /\ \E v \in Inspected(task[t]) :
             LET r == Refreshed(job[j], v)
             IN /\ Step(t, j, r, IdleTask)
                /\ registry' = Replied(j, r)
       /\ UNCHANGED <<clock, os>>

-----------------------------------------------------------------------------
(* get_job_status *)

\* A finished job's status changes nothing and is left out.
StatusObserves(j) ==
    /\ j \in registry
    /\ job[j].state = "running" /\ ~job[j].launcherExited
    /\ job' = [job EXCEPT ![j] = Observe(@)]
    /\ UNCHANGED <<clock, registry, os, task>>

StatusRefreshes(t, j) ==
    /\ j \in registry
    /\ job[j].state = "running" /\ job[j].launcherExited
    /\ task[t] = IdleTask
    /\ Step(t, j, job[j],
            Scan([IdleTask EXCEPT !.op = "status"], j, job[j], "refresh"))
    /\ UNCHANGED <<clock, registry, os>>

StatusReturns(t) ==
    LET j == task[t].job
    IN /\ Resumed(t, {"refresh"}) /\ task[t].op = "status"
       /\ \E v \in Inspected(task[t]) :
             Step(t, j, Observe(Refreshed(job[j], v)), IdleTask)
       /\ UNCHANGED <<clock, registry, os>>

-----------------------------------------------------------------------------
(* Callbacks of the child process and of the timers *)

\* stdout or stderr 'data'; after the end it touches nothing that is read.
Output(j) ==
    /\ job[j].state = "running"
    /\ job' = [job EXCEPT ![j] = Observe(@)]
    /\ UNCHANGED <<clock, registry, os, task>>

\* refreshAfterLauncherExit called from a callback, on the record r.
RefreshFromEvent(t, j, r) ==
    Step(t, j, r,
         IF r.state = "running" /\ r.launcherExited
         THEN Scan([IdleTask EXCEPT !.op = "refresh"], j, r, "refresh")
         ELSE IdleTask)

\* 'exit': libuv reaps the zombie launcher and tells the registry.
LauncherExit(t, j) ==
    /\ job[j].state \notin {"absent", "failed"}
    /\ Launcher \notin os[j].live
    /\ ~job[j].launcherExited
    /\ task[t] = IdleTask
    /\ RefreshFromEvent(t, j, [job[j] EXCEPT !.launcherExited = TRUE])
    /\ UNCHANGED <<clock, registry, os>>

GroupWatchFires(t, j) ==
    /\ job[j].groupWatchTimer
    /\ task[t] = IdleTask
    /\ RefreshFromEvent(t, j, [job[j] EXCEPT !.groupWatchTimer = FALSE])
    /\ UNCHANGED <<clock, registry, os>>

RefreshReturns(t) ==
    LET j == task[t].job
    IN /\ Resumed(t, {"refresh"}) /\ task[t].op = "refresh"
       /\ \E v \in Inspected(task[t]) : Step(t, j, Refreshed(job[j], v), IdleTask)
       /\ UNCHANGED <<clock, registry, os>>

-----------------------------------------------------------------------------
(* stop: from stop_job, from the hard timer or from the reaper *)

\* The synchronous start of stop(); on a finished job it only takes a snapshot.
StopBegins(t, j, tk, r) ==
    Step(t, j, [r EXCEPT !.stopReason = Reason(tk)], Scan(tk, j, r, "before"))

Stop(t, j) ==
    /\ j \in registry
    /\ job[j].state = "running"
    /\ task[t] = IdleTask
    /\ StopBegins(t, j, [IdleTask EXCEPT !.op = "stop"], job[j])
    /\ UNCHANGED <<clock, registry, os>>

\* The timer fires once and nothing arms it again.
HardTimerFires(t, j) ==
    LET r == [job[j] EXCEPT !.hardTimer = FALSE]
    IN /\ job[j].hardTimer
       /\ task[t] = IdleTask
       /\ IF j \in registry /\ r.state = "running"
          THEN StopBegins(t, j, [IdleTask EXCEPT !.op = "hard"], r)
          ELSE Step(t, j, r, IdleTask)
       /\ UNCHANGED <<clock, registry, os>>

StopBefore(t) ==
    LET tk == task[t]  j == tk.job
    IN /\ Resumed(t, {"before"})
       /\ \E v \in Inspected(tk) :
             LET r == Learned(job[j], v)
             IN \/ /\ v = "gone"
                   /\ Step(t, j, FinalizeStopped(r, Reason(tk)), Returned(tk))
                \/ /\ v = "unknown"
                   /\ Step(t, j, [r EXCEPT !.stopReason = "none"], Thrown)
                \/ /\ v = "alive"
                   /\ Step(t, j, r, Scan(tk, j, r, "term"))
       /\ UNCHANGED <<clock, registry, os>>

MutantNeverKill(g, at) == [g EXCEPT !.hit = @ \/ Foreign \in g.live]

\* What process.kill(-pgid, signal) does to whoever has that number now.
Signalled(g, at) ==
    [g EXCEPT !.hit = @ \/ Foreign \in g.live,
              !.doomed = @ \/ at = "kill"]

\* No process, not even the zombie launcher, has the group number.
NoSuchGroup(j) == os[j].live = {} /\ job[j].launcherExited

AfterSignal(at) == IF at = "term" THEN "termWait" ELSE "killWait"
OnEsrch(at)     == IF at = "term" THEN "termEsrch" ELSE "killEsrch"

\* signalOwnedGroup; what it throws leaves stop() past its resets of stopReason.
StopSignals(t) ==
    LET tk == task[t]  j == tk.job
    IN /\ Resumed(t, {"term", "kill"})
       /\ \E v \in Inspected(tk) :
             LET r == Learned(job[j], v)
             IN \/ /\ v = "gone"
                   /\ Step(t, j, r, Scan(tk, j, r, AfterSignal(tk.pc)))
                   /\ UNCHANGED os
                \/ /\ v = "unknown"
                   /\ Step(t, j, r, Thrown)
                   /\ UNCHANGED os
                \/ /\ v = "alive" /\ NoSuchGroup(j)
                   /\ Step(t, j, r, Scan(tk, j, r, OnEsrch(tk.pc)))
                   /\ UNCHANGED os
                \/ /\ v = "alive" /\ ~NoSuchGroup(j)
                   /\ Step(t, j, r, Scan(tk, j, r, AfterSignal(tk.pc)))
                   /\ os' = [os EXCEPT ![j] = Signalled(@, tk.pc)]
       /\ UNCHANGED <<clock, registry>>

\* kill said ESRCH: believe it only if a second look finds the group gone.
StopEsrch(t) ==
    LET tk == task[t]  j == tk.job
        at == IF tk.pc = "termEsrch" THEN "termWait" ELSE "killWait"
    IN /\ Resumed(t, {"termEsrch", "killEsrch"})
       /\ \E v \in Inspected(tk) :
             LET r == Learned(job[j], v)
             IN Step(t, j, r, IF v = "gone" THEN Scan(tk, j, r, at) ELSE Thrown)
       /\ UNCHANGED <<clock, registry, os>>

\* waitForOwnedGroupGone: a poll before the deadline, then up to 25 ms of sleep
\* in which nobody reads /proc and the group does what it likes.
Paused(tk) ==
    [tk EXCEPT !.pc = IF tk.pc = "termWait" THEN "termPause" ELSE "killPause",
               !.listed = {}, !.work = 0]

StopPolls(t) ==
    LET tk == task[t]  j == tk.job
    IN /\ Resumed(t, {"termWait", "killWait"})
       /\ \E v \in Inspected(tk) :
             LET r == Learned(job[j], v)
             IN IF v = "gone"
                THEN Step(t, j, FinalizeStopped(r, Reason(tk)), Returned(tk))
                ELSE Step(t, j, r, Paused(tk))
       /\ UNCHANGED <<clock, registry, os>>

StopPollsAgain(t) ==
    LET tk == task[t]  j == tk.job
    IN /\ Resumed(t, PausePcs)
       /\ Step(t, j, job[j],
               Scan(tk, j, job[j], IF tk.pc = "termPause" THEN "termWait" ELSE "killWait"))
       /\ UNCHANGED <<clock, registry, os>>

\* The deadline is read after a poll that did not find the group gone.
DeadlinePasses(t, pc) == Resumed(t, {pc}) /\ Inspected(task[t]) # {"gone"}

MutantNoEscalation(t) ==
    LET j == task[t].job
    IN /\ DeadlinePasses(t, "termWait")
       /\ Step(t, j, [job[j] EXCEPT !.stopReason = "none"], Thrown)
       /\ UNCHANGED <<clock, registry, os>>

TermDeadline(t) ==
    LET j == task[t].job
    IN /\ DeadlinePasses(t, "termWait")
       /\ Step(t, j, job[j], Scan(task[t], j, job[j], "afterTerm"))
       /\ UNCHANGED <<clock, registry, os>>

MutantAssumeKilled(t) ==
    LET j == task[t].job
    IN /\ DeadlinePasses(t, "killWait")
       /\ Step(t, j, FinalizeStopped(job[j], Reason(task[t])), Returned(task[t]))
       /\ UNCHANGED <<clock, registry, os>>

KillDeadline(t) ==
    LET j == task[t].job
    IN /\ DeadlinePasses(t, "killWait")
       /\ Step(t, j, [job[j] EXCEPT !.stopReason = "none"], Thrown)
       /\ UNCHANGED <<clock, registry, os>>

StopAfterTerm(t) ==
    LET tk == task[t]  j == tk.job
    IN /\ Resumed(t, {"afterTerm"})
       /\ \E v \in Inspected(tk) :
             LET r == Learned(job[j], v)
             IN \/ /\ v = "alive"
                   /\ Step(t, j, r, Scan(tk, j, r, "kill"))
                \/ /\ v = "gone"
                   /\ Step(t, j, r, Scan(tk, j, r, "killWait"))
                \/ /\ v = "unknown"
                   /\ Step(t, j, [r EXCEPT !.stopReason = "none"], Thrown)
       /\ UNCHANGED <<clock, registry, os>>

-----------------------------------------------------------------------------
(* reapOnce *)

SweepBegins(t) ==
    /\ task[t] = IdleTask
    /\ "sweepsOverlap" \in Env \/ \A u \in Tasks : ~InSweep(task[u])
    /\ registry' = registry \ Expired(clock)
    /\ task' = [task EXCEPT ![t] = [IdleTask EXCEPT
                    !.op = "sweep", !.pc = "loop",
                    !.todo = registry', !.now = clock]]
    /\ UNCHANGED <<clock, job, os>>

\* The next job of the snapshot; the model takes them in any order.
SweepVisits(t, j) ==
    LET tk == [task[t] EXCEPT !.todo = @ \ {j}]  r == job[j]
    IN /\ Resumed(t, {"loop"})
       /\ j \in task[t].todo
       /\ task' = [task EXCEPT ![t] =
             IF r.state # "running" \/ r.persistent
             THEN tk
             ELSE IF r.launcherExited
                  THEN Scan(tk, j, r, "refresh")
                  ELSE Consider(tk, j, r)]
       /\ UNCHANGED <<clock, registry, job, os>>

SweepRefreshed(t) ==
    LET tk == task[t]  j == tk.job
    IN /\ Resumed(t, {"refresh"}) /\ InSweep(tk)
       /\ \E v \in Inspected(tk) :
             LET r == Refreshed(job[j], v) IN Step(t, j, r, Consider(tk, j, r))
       /\ UNCHANGED <<clock, registry, os>>

\* The probe proves nothing about idleness, or finds the group gone.
ProbeSettles(t) ==
    LET tk == task[t]  j == tk.job
    IN /\ Resumed(t, {"probe"})
       /\ \E v \in Inspected(tk) \ {"alive"} :
             LET r == Learned(job[j], v)
             IN Step(t, j,
                     IF v = "gone" /\ r.launcherExited
                     THEN FinalizeNaturalCompletion(r)
                     ELSE r,
                     Returned(tk))
       /\ UNCHANGED <<clock, registry, os>>

Stored(tk) == [at |-> tk.now, members |-> tk.listed, work |-> tk.work]

\* The same processes as in the stored sample, and none of them did anything.
SameSample(tk, r) ==
    /\ r.evidence # NoEvidence
    /\ [members |-> r.evidence.members, work |-> r.evidence.work] = Sample(tk)

\* activityChanged compares how many processes there are and the sums of their
\* counters: as many other processes may or may not look like no change.
MayLookQuiet(tk, r) ==
    \/ SameSample(tk, r)
    \/ /\ r.evidence # NoEvidence
       /\ r.evidence.members # tk.listed
       /\ Cardinality(r.evidence.members) = Cardinality(tk.listed)

ProbeRecords(t) ==
    LET tk == task[t]  j == tk.job
    IN /\ Resumed(t, {"probe"})
       /\ "alive" \in Inspected(tk)
       /\ ~SameSample(tk, job[j])
       /\ Step(t, j, [job[j] EXCEPT !.evidence = Stored(tk)], Returned(tk))
       /\ UNCHANGED <<clock, registry, os>>

ProbeTooSoon(t) ==
    LET tk == task[t]  j == tk.job
    IN /\ Resumed(t, {"probe"})
       /\ "alive" \in Inspected(tk)
       /\ MayLookQuiet(tk, job[j])
       /\ tk.now - job[j].evidence.at < BusyWindow
       /\ Step(t, j, job[j], Returned(tk))
       /\ UNCHANGED <<clock, registry, os>>

\* stop(jobId, 'reaped'): get() throws if the record has been deleted.
ProbeReaps(t) ==
    LET tk == task[t]  j == tk.job
    IN /\ Resumed(t, {"probe"})
       /\ "alive" \in Inspected(tk)
       /\ MayLookQuiet(tk, job[j])
       /\ tk.now - job[j].evidence.at >= BusyWindow
       /\ IF j \notin registry
          THEN Step(t, j, job[j], Thrown)
          ELSE IF job[j].state # "running"
               THEN Step(t, j, job[j], Returned(tk))
               ELSE StopBegins(t, j, tk, job[j])
       /\ UNCHANGED <<clock, registry, os>>

SweepEnds(t) ==
    /\ Resumed(t, {"loop"})
    /\ task[t].todo = {}
    /\ task' = [task EXCEPT ![t] = IdleTask]
    /\ UNCHANGED <<clock, registry, job, os>>

-----------------------------------------------------------------------------
(* The operating system *)

\* A process ends by itself or by a signal.
ProcessDies(j, p) ==
    /\ p \in os[j].live \ {Foreign}
    /\ os' = [os EXCEPT ![j].live = @ \ {p}]
    /\ UNCHANGED <<clock, registry, job, task>>

ProcessForks(j, k) ==
    /\ os[j].live \ {Foreign} # {}
    /\ ~os[j].doomed
    /\ k \notin os[j].born
    /\ "forkInScan" \in Env \/ ~Scanning(j)
    /\ os' = [os EXCEPT ![j].live = @ \cup {k}, ![j].born = @ \cup {k}]
    /\ UNCHANGED <<clock, registry, job, task>>

GroupProgresses(j) ==
    /\ os[j].live \ {Foreign} # {}
    /\ os[j].work < MaxActivity
    /\ os' = [os EXCEPT ![j].work = @ + 1]
    /\ UNCHANGED <<clock, registry, job, task>>

\* The kernel gives a free group number to somebody else.  A scan knows a group
\* by its number alone, so it takes the new one for the job's.
NumberReused(j) ==
    /\ NoSuchGroup(j)
    /\ "reuseUnseen" \in Env \/ job[j].ownershipReleased
    /\ "reuseInScan" \in Env \/ ~Scanning(j)
    /\ os' = [os EXCEPT ![j].live = {Foreign}]
    /\ UNCHANGED <<clock, registry, job, task>>

Tick ==
    /\ clock < MaxClock
    /\ clock' = clock + 1
    /\ UNCHANGED <<registry, job, os, task>>

-----------------------------------------------------------------------------

Init ==
    /\ clock = 0
    /\ registry = {}
    /\ job = [j \in Jobs |-> NoRecord]
    /\ os = [j \in Jobs |-> NoGroup]
    /\ task = [t \in Tasks |-> IdleTask]

ToolCalls ==
    \/ \E t \in Tasks, j \in Jobs :
          \/ \E persistent, hard, waits, spawned \in BOOLEAN :
                Execute(t, j, persistent, hard, waits, spawned)
          \/ StatusRefreshes(t, j)
          \/ Stop(t, j)
    \/ \E j \in Jobs : StatusObserves(j)

Events ==
    \/ \E t \in Tasks, j \in Jobs :
          \/ LauncherExit(t, j)
          \/ GroupWatchFires(t, j)
          \/ HardTimerFires(t, j)
    \/ \E t \in Tasks : SweepBegins(t)
    \/ \E j \in Jobs : Output(j)

\* What a suspended task does next.
Resumes(t) ==
    \/ WaitEnds(t)
    \/ ExecuteReturns(t) \/ StatusReturns(t) \/ RefreshReturns(t)
    \/ StopBefore(t) \/ StopSignals(t) \/ StopEsrch(t)
    \/ StopPolls(t) \/ StopPollsAgain(t)
    \/ TermDeadline(t) \/ KillDeadline(t) \/ StopAfterTerm(t)
    \/ \E j \in Jobs : SweepVisits(t, j)
    \/ SweepRefreshed(t) \/ ProbeSettles(t) \/ ProbeRecords(t)
    \/ ProbeTooSoon(t) \/ ProbeReaps(t) \/ SweepEnds(t)

OperatingSystem ==
    \/ \E j \in Jobs :
          \/ \E p \in Processes : ProcessDies(j, p)
          \/ \E k \in Kids : ProcessForks(j, k)
          \/ GroupProgresses(j)
          \/ NumberReused(j)
    \/ Tick

Next ==
    \/ ToolCalls
    \/ Events
    \/ \E t \in Tasks : Resumes(t)
    \/ OperatingSystem

Spec == Init /\ [][Next]_vars

-----------------------------------------------------------------------------
(* Properties *)

Own(j) == os[j].live \ {Foreign}

\* A job that gave up its process group has no process left in it: neither a
\* release while a member lives nor a birth after the release (inspectOwnedGroup).
ReleasedMeansGone ==
    \A j \in Jobs : job[j].ownershipReleased => Own(j) = {}

\* A finished job that was spawned has its launcher's exit status and has
\* released its group: no result is reported on a guess (finalizeStopped and
\* finalizeNaturalCompletion copy launcherExitCode).
FinalHasExitStatus ==
    \A j \in Jobs : job[j].state \in Final =>
        /\ job[j].ownershipReleased
        /\ job[j].state # "failed" => job[j].launcherExited

\* No signal ever reaches a group that took over the job's number
\* (signalOwnedGroup looks before it kills and asks again on ESRCH).
NoForeignSignal == \A j \in Jobs : ~os[j].hit

\* A job whose launcher has exited but whose group lives on is never lost
\* sight of: its watch timer is armed or a refresh of it is on its way
\* (refreshAfterLauncherExit reschedules itself until the group is gone).
WatchCovered ==
    \A j \in Jobs :
        job[j].state = "running" /\ job[j].launcherExited =>
            \/ job[j].ownershipReleased
            \/ job[j].groupWatchTimer
            \/ \E t \in Tasks : task[t].pc = "refresh" /\ task[t].job = j

\* A stop gave up on the job and left its stopReason behind.
Abandoned(j) ==
    /\ job[j].state = "running"
    /\ job[j].stopReason # "none"
    /\ ~\E t \in Tasks : task[t].pc \in StopPcs /\ task[t].job = j

\* Somebody will still look at the job: it waits for its launcher's 'exit', its
\* watch timer is armed, a refresh is on its way, or its group is known to be
\* gone and a stop is about to find that out.
Attended(j) ==
    \/ ~(job[j].state = "running" /\ job[j].launcherExited)
    \/ job[j].groupWatchTimer
    \/ \E t \in Tasks : task[t].pc = "refresh" /\ task[t].job = j
    \/ /\ job[j].ownershipReleased
       /\ \E t \in Tasks : task[t].pc \in StopPcs /\ task[t].job = j

\* The registry forgets a job that it reports as running in two ways only, both
\* of a stop that failed: the stop gives up although another activation has seen
\* the group gone, or a refresh sees the group gone after a stop has thrown and
\* left its stopReason behind (refreshAfterLauncherExit reschedules itself
\* until the group is gone and then leaves the job to a stop under way).
ForgottenOnlyByFailedStop ==
    [][\A j \in Jobs :
          Attended(j) /\ ~Attended(j)' =>
              /\ job'[j].ownershipReleased
              /\ \/ Abandoned(j)
                 \/ \E t \in Tasks :
                        /\ task[t].pc \in StopPcs /\ task[t].job = j
                        /\ task'[t] = Thrown]_vars

\* A timer outlives no job: clearJobTimers runs with every change to a final
\* state and no later callback arms a timer again.
FinalHasNoTimers ==
    \A j \in Jobs : job[j].state # "running" =>
        ~job[j].hardTimer /\ ~job[j].groupWatchTimer

\* A running job can always be looked up and stopped, and the registry never
\* holds more than maxJobs records (ensureCapacity, releaseCompleted, purge).
RegistryKeepsRunning ==
    /\ \A j \in Jobs : job[j].state = "running" => j \in registry
    /\ Cardinality(registry) <= MaxJobs

\* The reaper starts to stop only a job that is not persistent and that has
\* had neither output nor observation for the idle lease at that very moment,
\* however long ago the sweep looked at the lease (reapOnce reads the lease
\* before it awaits the probe; resetIdleEvidence covers the gap).
ReapOnlyIdle ==
    [][\A t \in Tasks :
          (task[t].pc = "probe" /\ task'[t].pc = "before") =>
              LET r == job[task[t].job]
              IN ~r.persistent /\ clock - r.touchedAt >= IdleLease]_vars

\* However a stop ends, with the job finished, with an error or with an exception
\* nobody catches, every process of the job's own group has ended or has been sent
\* SIGKILL, also one that was forked during the grace period of SIGTERM (stop
\* escalates before it gives up).
StopReachesGroup ==
    [][\A t \in Tasks, j \in Jobs :
          task[t].pc \in StopPcs /\ task[t].job = j /\ task'[t].pc \notin StopPcs =>
              os'[j].doomed \/ Own(j)' = {}]_vars

\* What a tool's caller sees of a job.
phaseOf == [j \in Jobs |->
    IF job[j].state = "absent" \/ j \in registry THEN job[j].state ELSE "expired"]

L == INSTANCE JobLifecycle WITH
        phase <- phaseOf,
        alive <- [j \in Jobs |-> Own(j) # {}]

\* Every behaviour of the registry is one its callers may expect: results are
\* final and come after the last process of the group.
ImplementsLifecycle == L!Lifecycle

\* The invariants above, strengthened until every step preserves them.
RecordsConsistent ==
    \A j \in Jobs : LET r == job[j] IN
        /\ r.state = "absent" => /\ ~r.launcherExited /\ ~r.ownershipReleased
                                /\ os[j].live = {}
        /\ r.state = "running" => j \in registry
        /\ r.state \in Final => r.ownershipReleased
        /\ r.state # "running" => ~r.hardTimer /\ ~r.groupWatchTimer
        /\ r.ownershipReleased => r.launcherExited \/ r.state = "failed"

TasksConsistent ==
    \A t \in Tasks : LET tk == task[t] IN
        /\ tk.pc \notin {"idle", "loop"} => job[tk.job].state # "absent"
        /\ tk.pc \in ScanPcs /\ tk.skip => job[tk.job].ownershipReleased

\* No member was born since an undecided scan began, so 'gone' is true.
ScansComplete ==
    /\ ReleasedMeansGone
    /\ \A t \in Tasks :
          task[t].pc \in ScanPcs /\ ~task[t].skip => Own(task[t].job) \subseteq task[t].listed

\* Nobody is scanning a number that somebody else has taken over.
ReuseUnseen ==
    /\ NoForeignSignal
    /\ \A j \in Jobs : Foreign \in os[j].live => job[j].ownershipReleased /\ ~Scanning(j)

InductiveInv ==
    TypeOK /\ RecordsConsistent /\ TasksConsistent /\ ScansComplete /\ ReuseUnseen

-----------------------------------------------------------------------------
(* Liveness.  The event loop resumes every activation whose I/O is done and  *)
(* fires every due timer; a wait's deadline passes; the kernel ends what got *)
(* SIGKILL and reports the end of the launcher.  Strong fairness where an    *)
(* event competes for one of the model's bounded tasks.  Callers, output,    *)
(* forks and natural deaths are not fair.                                    *)

Fairness ==
    /\ \A t \in Tasks :
          /\ WF_vars(Resumes(t))
          /\ SF_vars(TermDeadline(t) \/ KillDeadline(t))
    /\ \A j \in Jobs :
          /\ SF_vars(\E t \in Tasks : LauncherExit(t, j))
          /\ SF_vars(\E t \in Tasks : GroupWatchFires(t, j))
          /\ SF_vars(\E t \in Tasks : HardTimerFires(t, j))
          /\ WF_vars(os[j].doomed /\ \E p \in Processes : ProcessDies(j, p))
    /\ SF_vars(\E t \in Tasks : SweepBegins(t))
    /\ WF_vars(Tick)

FairSpec == Spec /\ Fairness

\* A job whose last process has ended gets its final state, unless a stop has
\* abandoned it (exit event, group watch and reaper together).
SettlesUnlessAbandoned ==
    \A j \in Jobs :
        (job[j].state = "running" /\ ~job[j].persistent /\ Own(j) = {})
            ~> (job[j].state # "running" \/ Abandoned(j))

\* A hard timeout that has fired ends every process of the job's own group,
\* whatever other stops and refreshes run beside it (stop escalates to SIGKILL).
HardTimeoutKills ==
    \A j \in Jobs :
        (\E t \in Tasks : task[t].op = "hard" /\ task[t].job = j) ~> Own(j) = {}

\* get_job_status says that records of completed and stopped jobs expire by
\* themselves; for that a job whose processes are gone must become final.
GoneJobSettles ==
    \A j \in Jobs :
        (job[j].state = "running" /\ ~job[j].persistent /\ Own(j) = {})
            ~> job[j].state # "running"

=============================================================================
