---------------------- MODULE ManagedJobsSafetyProofs ----------------------
(***************************************************************************)
(* The safety invariants of ManagedJobs, for every value of the constants. *)
(*                                                                         *)
(* Most steps run one activation t on one job j.  Effect says what all of  *)
(* them have in common; each action is shown to have that effect once, and *)
(* each invariant is then shown to survive any such step.                  *)
(***************************************************************************)
EXTENDS ManagedJobsProofs, FiniteSetTheorems

-----------------------------------------------------------------------------
(* What a step of one activation may do *)

Working(t, j) == task[t].pc \notin {"idle", "loop"} /\ task[t].job = j

\* t's scan of j ends with verdict v.
Found(t, j, v) ==
    Working(t, j) /\ task[t].pc \in ScanPcs /\ v \in Inspected(task[t])

\* The record may only advance: what it was, r, to what it becomes, n.
RecordEffect(t, j, n) ==
    LET r == job[j] IN
    /\ n \in JobRecord
    /\ r.launcherExited => n.launcherExited
    /\ n.launcherExited => r.launcherExited \/ r.state \notin {"absent", "failed"}
    /\ r.ownershipReleased => n.ownershipReleased
    /\ n.ownershipReleased => r.ownershipReleased \/ Found(t, j, "gone")
    /\ \/ /\ n.state = r.state
          /\ n.hardTimer => r.hardTimer
          /\ n.groupWatchTimer => r.groupWatchTimer \/ r.state = "running"
       \/ /\ r.state = "running"
          /\ n.state \in Final \ {"failed"}
          /\ n.ownershipReleased
          /\ ~n.hardTimer /\ ~n.groupWatchTimer

\* The task works on j or has returned; a scan it begins starts from now.
TaskEffect(t, j, n, tk) ==
    /\ tk.pc \notin {"idle", "loop"} =>
          tk.job = j /\ (job[j].state = "running" \/ Working(t, j))
    /\ tk.pc \in ScanPcs =>
          /\ tk.skip = n.ownershipReleased
          /\ ~tk.skip => tk.listed = os[j].live

Stopping(t, j)   == task[t].pc \in StopPcs /\ task[t].job = j
Refreshing(t, j) == task[t].pc = "refresh" /\ task[t].job = j

\* After the step a job that needs watching is watched; or the step took no
\* watch away, and no stop either that did not fail; or it is a refresh that
\* found the group gone and left the job to whoever set its stopReason.
WatchEffect(t, j, n, tk) ==
    n.state = "running" /\ n.launcherExited =>
        \/ n.groupWatchTimer
        \/ tk.pc = "refresh" /\ tk.job = j
        \/ /\ job[j].launcherExited
           /\ job[j].groupWatchTimer => n.groupWatchTimer
           /\ ~Refreshing(t, j)
           /\ Stopping(t, j) => tk = Thrown \/ (tk.pc \in StopPcs /\ tk.job = j)
        \/ /\ n.ownershipReleased
           /\ Refreshing(t, j)
           /\ job[j].stopReason # "none"

WorldEffect(t, j, n) ==
    /\ clock' = clock
    /\ \/ registry' = registry
       \/ registry' = registry \ {j} /\ n.state # "running"
    /\ \/ os' = os
       \/ /\ os' = [os EXCEPT ![j] = Signalled(@, task[t].pc)]
          /\ Found(t, j, "alive")

Effect(t, j) ==
    \E n, tk :
        /\ Step(t, j, n, tk)
        /\ RecordEffect(t, j, n)
        /\ TaskEffect(t, j, n, tk)
        /\ WatchEffect(t, j, n, tk)
        /\ (task[t].pc \notin {"idle", "loop"} => task[t].job = j)
        /\ WorldEffect(t, j, n)

-----------------------------------------------------------------------------
(* The helpers, in terms of what Effect mentions *)

LEMMA ScanFields ==
    ASSUME TypeOK, NEW tk \in TaskRecord, NEW j \in Jobs, NEW r \in JobRecord, NEW at
    PROVE  /\ Scan(tk, j, r, at).pc = at
           /\ Scan(tk, j, r, at).job = j
           /\ Scan(tk, j, r, at).skip = r.ownershipReleased
           /\ ~r.ownershipReleased => Scan(tk, j, r, at).listed = os[j].live
  BY DEF Scan, TaskRecord, JobRecord

LEMMA ReturnedFields ==
    ASSUME NEW tk
    PROVE  Returned(tk).pc \in {"idle", "loop"}
  BY DEF Returned, IdleTask

LEMMA FinalizeFields ==
    ASSUME NEW r \in JobRecord, NEW outcome
    PROVE  LET n == Finalize(r, outcome) IN
           /\ n.state = outcome /\ n.ownershipReleased
           /\ n.launcherExited = r.launcherExited
           /\ ~n.hardTimer /\ ~n.groupWatchTimer
  BY DEF Finalize, ClearJobTimers, JobRecord

\* The fields of a record that Effect speaks of.
Same(n, r) ==
    /\ n.state = r.state
    /\ n.launcherExited = r.launcherExited
    /\ n.ownershipReleased = r.ownershipReleased
    /\ n.hardTimer = r.hardTimer
    /\ n.groupWatchTimer = r.groupWatchTimer

LEMMA ObserveFields ==
    ASSUME NEW r \in JobRecord
    PROVE  Same(Observe(r), r)
  BY DEF Observe, ResetIdleEvidence, JobRecord, Same

LEMMA StopReasonFields ==
    ASSUME NEW r \in JobRecord, NEW reason
    PROVE  Same([r EXCEPT !.stopReason = reason], r)
  BY DEF JobRecord, Same

LEMMA LearnedFields ==
    ASSUME NEW r \in JobRecord, NEW v
    PROVE  LET n == Learned(r, v) IN
           /\ n.state = r.state
           /\ n.launcherExited = r.launcherExited
           /\ n.hardTimer = r.hardTimer
           /\ n.groupWatchTimer = r.groupWatchTimer
           /\ n.stopReason = r.stopReason
           /\ r.ownershipReleased => n.ownershipReleased
           /\ n.ownershipReleased => r.ownershipReleased \/ v = "gone"
           /\ v = "gone" => n.ownershipReleased
  BY DEF Learned, JobRecord

\* A record that stays as it is, or becomes final with the group released.
Advanced(n, r, v) ==
    /\ n \in JobRecord
    /\ n.launcherExited = r.launcherExited
    /\ r.ownershipReleased => n.ownershipReleased
    /\ n.ownershipReleased => r.ownershipReleased \/ v = "gone"
    /\ \/ /\ n.state = r.state
          /\ n.hardTimer => r.hardTimer
          /\ n.groupWatchTimer => r.groupWatchTimer \/ r.state = "running"
       \/ /\ r.state = "running"
          /\ n.state \in Final \ {"failed"}
          /\ n.ownershipReleased
          /\ ~n.hardTimer /\ ~n.groupWatchTimer

LEMMA LearnedAdvanced ==
    ASSUME NEW r \in JobRecord, NEW v
    PROVE  /\ Advanced(Learned(r, v), r, v)
           /\ r.groupWatchTimer => Learned(r, v).groupWatchTimer
  BY LearnedType, LearnedFields DEF Advanced

LEMMA NaturalAdvanced ==
    ASSUME NEW r \in JobRecord, clock \in Nat
    PROVE  LET n == FinalizeNaturalCompletion(Learned(r, "gone")) IN
           /\ Advanced(n, r, "gone") /\ n.ownershipReleased
           /\ n.state = "running" => /\ r.stopReason # "none"
                                    /\ n.groupWatchTimer = r.groupWatchTimer
<1> DEFINE l == Learned(r, "gone")
<1>1. /\ l \in JobRecord /\ Advanced(l, r, "gone") /\ l.ownershipReleased
      /\ l.state = r.state /\ l.launcherExited = r.launcherExited
      /\ l.stopReason = r.stopReason /\ l.groupWatchTimer = r.groupWatchTimer
  BY LearnedType, LearnedFields, LearnedAdvanced
<1> HIDE DEF l
<1>2. CASE l.state = "running" /\ l.stopReason = "none"
  <2>1. FinalizeNaturalCompletion(l) = Finalize(l, "completed")
    BY <1>2 DEF FinalizeNaturalCompletion
  <2>2. Finalize(l, "completed") \in JobRecord
    BY <1>1, FinalizeType DEF Final
  <2> DEFINE n == Finalize(l, "completed")
  <2>3. /\ n.state = "completed" /\ n.ownershipReleased
        /\ n.launcherExited = l.launcherExited /\ ~n.hardTimer /\ ~n.groupWatchTimer
    BY <1>1, FinalizeFields
  <2> HIDE DEF n
  <2>4. Advanced(n, r, "gone") /\ n.ownershipReleased /\ n.state # "running"
    BY <1>1, <1>2, <2>2, <2>3 DEF Advanced, Final, n
  <2> QED
    BY <2>1, <2>4 DEF l, n
<1>3. CASE ~(l.state = "running" /\ l.stopReason = "none")
  <2>1. FinalizeNaturalCompletion(l) = l
    BY <1>3 DEF FinalizeNaturalCompletion
  <2>2. l.state = "running" => r.stopReason # "none"
    BY <1>1, <1>3
  <2> QED
    BY <1>1, <2>1, <2>2 DEF l
<1> QED
  BY <1>2, <1>3

LEMMA StoppedAdvanced ==
    ASSUME NEW r \in JobRecord, NEW reason, clock \in Nat
    PROVE  LET n == FinalizeStopped(Learned(r, "gone"), reason) IN
           Advanced(n, r, "gone") /\ n.state # "running"
<1> DEFINE l == Learned(r, "gone")
           outcome == IF reason = "reaped" THEN "reaped" ELSE "stopped"
<1>1. /\ l \in JobRecord /\ Advanced(l, r, "gone") /\ l.ownershipReleased
      /\ l.state = r.state /\ l.launcherExited = r.launcherExited
  BY LearnedType, LearnedFields, LearnedAdvanced
<1>2. outcome \in Final \ {"failed"}
  BY DEF Final
<1> HIDE DEF l, outcome
<1>3. CASE l.state = "running"
  <2>1. FinalizeStopped(l, reason) = Finalize(l, outcome)
    BY <1>3 DEF FinalizeStopped, outcome
  <2>2. Finalize(l, outcome) \in JobRecord
    BY <1>1, <1>2, FinalizeType
  <2> QED
    BY <1>1, <1>2, <1>3, <2>1, <2>2, FinalizeFields DEF Advanced, Final, l
<1>4. CASE l.state # "running"
  <2>1. FinalizeStopped(l, reason) = l
    BY <1>4 DEF FinalizeStopped
  <2> QED
    BY <1>1, <1>4, <2>1 DEF l
<1> QED
  BY <1>3, <1>4

\* A refresh leaves a running job watched, or released to a stop.
LEMMA RefreshedAdvanced ==
    ASSUME NEW r \in JobRecord, NEW v, clock \in Nat
    PROVE  /\ Advanced(Refreshed(r, v), r, v)
           /\ LET n == Refreshed(r, v) IN
              n.state = "running" /\ n.launcherExited =>
                  n.groupWatchTimer \/ (n.ownershipReleased /\ r.stopReason # "none")
<1>1. CASE v = "gone"
  BY <1>1, NaturalAdvanced DEF Refreshed
<1>2. CASE v # "gone"
  <2> DEFINE n == ScheduleGroupWatch(r)
  <2>1. /\ n \in JobRecord /\ n.state = r.state /\ n.launcherExited = r.launcherExited
        /\ n.ownershipReleased = r.ownershipReleased /\ n.hardTimer = r.hardTimer
        /\ n.groupWatchTimer => r.groupWatchTimer \/ r.state = "running"
        /\ n.state = "running" /\ n.launcherExited => n.groupWatchTimer
    BY DEF ScheduleGroupWatch, JobRecord
  <2>2. Refreshed(r, v) = n
    BY <1>2 DEF Refreshed
  <2> HIDE DEF n
  <2> QED
    BY <2>1, <2>2 DEF Advanced
<1> QED
  BY <1>1, <1>2

LEMMA AdvancedSame ==
    ASSUME NEW r \in JobRecord, NEW n \in JobRecord, NEW m \in JobRecord, NEW v,
           Advanced(n, r, v), Same(m, n)
    PROVE  Advanced(m, r, v)
  BY DEF Advanced, Same

\* From a record that advanced on a verdict to the effect of the step.
LEMMA AdvancedEffect ==
    ASSUME NEW t \in Tasks, NEW j \in Jobs, NEW v, NEW n,
           job[j] \in JobRecord, Advanced(n, job[j], v),
           v = "gone" => Found(t, j, "gone")
    PROVE  RecordEffect(t, j, n)
  BY DEF Advanced, RecordEffect

LEMMA SameEffect ==
    ASSUME NEW t \in Tasks, NEW j \in Jobs, NEW n \in JobRecord,
           job[j] \in JobRecord, Same(n, job[j])
    PROVE  /\ RecordEffect(t, j, n)
           /\ task[t].pc \notin StopPcs \cup {"refresh"}
                => \A tk : WatchEffect(t, j, n, tk)
           /\ task[t].pc # "refresh" =>
                 \A tk : tk = Thrown \/ (tk.pc \in StopPcs /\ tk.job = j)
                            => WatchEffect(t, j, n, tk)
<1>1. RecordEffect(t, j, n)
  BY DEF Same, RecordEffect
<1>2. /\ n.launcherExited = job[j].launcherExited
      /\ n.groupWatchTimer = job[j].groupWatchTimer
  BY DEF Same
<1>3. task[t].pc \notin StopPcs \cup {"refresh"} => \A tk : WatchEffect(t, j, n, tk)
  BY <1>2 DEF WatchEffect, Stopping, Refreshing
<1>4. task[t].pc # "refresh" =>
          \A tk : tk = Thrown \/ (tk.pc \in StopPcs /\ tk.job = j)
                     => WatchEffect(t, j, n, tk)
  BY <1>2 DEF WatchEffect, Refreshing
<1> QED
  BY <1>1, <1>3, <1>4

LEMMA StillWorld ==
    ASSUME NEW t, NEW j, UNCHANGED <<clock, registry, os>>
    PROVE  \A n : WorldEffect(t, j, n)
<1> TAKE n
<1> QED
  BY DEF WorldEffect

LEMMA RestingEffect ==
    ASSUME NEW t \in Tasks, NEW j \in Jobs, NEW n, NEW tk, tk.pc \in {"idle", "loop"}
    PROVE  TaskEffect(t, j, n, tk)
  BY DEF TaskEffect, ScanPcs, PausePcs, StopPcs

LEMMA IdlePc == IdleTask.pc \in {"idle", "loop"} /\ Thrown.pc \in {"idle", "loop"}
  BY DEF IdleTask, Thrown

LEMMA ScanEffect ==
    ASSUME TypeOK, NEW t \in Tasks, NEW j \in Jobs, NEW n, NEW tk \in TaskRecord,
           NEW r \in JobRecord, NEW at, n.ownershipReleased = r.ownershipReleased,
           job[j].state = "running" \/ Working(t, j)
    PROVE  TaskEffect(t, j, n, Scan(tk, j, r, at))
<1>1. r.ownershipReleased \in BOOLEAN
  BY DEF JobRecord
<1> QED
  BY <1>1, ScanFields DEF TaskEffect

-----------------------------------------------------------------------------
(* Every action of an activation has the effect *)

LEMMA CallEffect ==
    ASSUME TypeOK, NEW t \in Tasks, NEW j \in Jobs,
           StatusRefreshes(t, j) \/ Stop(t, j)
    PROVE  Effect(t, j)
<1>1. job[j] \in JobRecord /\ job[j].state = "running"
  BY DEF TypeOK, StatusRefreshes, Stop
<1>2. task[t] = IdleTask /\ task[t].pc = "idle"
  BY DEF StatusRefreshes, Stop, IdleTask
<1>3. \A n : WorldEffect(t, j, n)
  BY StillWorld DEF StatusRefreshes, Stop
<1>4. CASE StatusRefreshes(t, j)
  <2> DEFINE tk == Scan([IdleTask EXCEPT !.op = "status"], j, job[j], "refresh")
  <2>1. Step(t, j, job[j], tk)
    BY <1>4 DEF StatusRefreshes
  <2>2. TaskEffect(t, j, job[j], tk)
    BY <1>1, ScanEffect, OperationType DEF Operations
  <2>3. RecordEffect(t, j, job[j]) /\ WatchEffect(t, j, job[j], tk)
    BY <1>1, <1>2, SameEffect DEF Same, StopPcs
  <2> HIDE DEF tk
  <2> QED
    BY <1>2, <1>3, <2>1, <2>2, <2>3 DEF Effect
<1>5. CASE Stop(t, j)
  <2> DEFINE op == [IdleTask EXCEPT !.op = "stop"]
             n == [job[j] EXCEPT !.stopReason = Reason(op)]
             tk == Scan(op, j, job[j], "before")
  <2>1. Step(t, j, n, tk)
    BY <1>5 DEF Stop, StopBegins
  <2>2. Same(n, job[j])
    BY <1>1, StopReasonFields
  <2>3. n \in JobRecord
    BY <1>1, StopReasonType DEF Reason, Reasons
  <2>4. op \in TaskRecord
    BY OperationType DEF Operations
  <2> HIDE DEF op, n
  <2>5. TaskEffect(t, j, n, tk)
    BY <1>1, <2>2, <2>4, ScanEffect DEF Same
  <2>6. RecordEffect(t, j, n) /\ WatchEffect(t, j, n, tk)
    BY <1>1, <1>2, <2>2, <2>3, SameEffect DEF Same, StopPcs
  <2> HIDE DEF tk
  <2> QED
    BY <1>2, <1>3, <2>1, <2>5, <2>6 DEF Effect
<1> QED
  BY <1>4, <1>5

\* Callbacks: the record n differs from job[j] in the flag the event is about.
LEMMA EventEffect ==
    ASSUME TypeOK, NEW t \in Tasks, NEW j \in Jobs, NEW n \in JobRecord,
           task[t] = IdleTask, RecordEffect(t, j, n), n.state = job[j].state,
           RefreshFromEvent(t, j, n), UNCHANGED <<clock, registry, os>>
    PROVE  Effect(t, j)
<1>1. task[t].pc = "idle" /\ \A m : WorldEffect(t, j, m)
  <2>1. task[t].pc = "idle"
    BY DEF IdleTask
  <2> QED
    BY <2>1, StillWorld
<1>2. CASE n.state = "running" /\ n.launcherExited
  <2> DEFINE tk == Scan([IdleTask EXCEPT !.op = "refresh"], j, n, "refresh")
  <2>1. [IdleTask EXCEPT !.op = "refresh"] \in TaskRecord
    BY OperationType DEF Operations
  <2>2. TaskEffect(t, j, n, tk)
    BY <1>2, <2>1, ScanEffect
  <2>3. tk.pc = "refresh" /\ tk.job = j
    BY <2>1, ScanFields
  <2>4. Step(t, j, n, tk)
    BY <1>2 DEF RefreshFromEvent
  <2> HIDE DEF tk
  <2>5. WatchEffect(t, j, n, tk)
    BY <2>3 DEF WatchEffect
  <2> QED
    BY <1>1, <2>2, <2>4, <2>5 DEF Effect
<1>3. CASE ~(n.state = "running" /\ n.launcherExited)
  <2>1. Step(t, j, n, IdleTask)
    BY <1>3 DEF RefreshFromEvent
  <2>2. WatchEffect(t, j, n, IdleTask)
    BY <1>3 DEF WatchEffect
  <2> QED
    BY <1>1, <2>1, <2>2, RestingEffect, IdlePc DEF Effect
<1> QED
  BY <1>2, <1>3

LEMMA LauncherExitEffect ==
    ASSUME TypeOK, NEW t \in Tasks, NEW j \in Jobs, LauncherExit(t, j)
    PROVE  Effect(t, j)
<1> DEFINE n == [job[j] EXCEPT !.launcherExited = TRUE]
<1>1. job[j] \in JobRecord /\ n \in JobRecord /\ n.state = job[j].state
  BY DEF TypeOK, JobRecord
<1>2. RecordEffect(t, j, n)
  BY <1>1 DEF RecordEffect, LauncherExit, JobRecord
<1>3. RefreshFromEvent(t, j, n) /\ task[t] = IdleTask /\ UNCHANGED <<clock, registry, os>>
  BY DEF LauncherExit
<1> HIDE DEF n
<1> QED
  BY <1>1, <1>2, <1>3, EventEffect

LEMMA GroupWatchFiresEffect ==
    ASSUME TypeOK, NEW t \in Tasks, NEW j \in Jobs, GroupWatchFires(t, j)
    PROVE  Effect(t, j)
<1> DEFINE n == [job[j] EXCEPT !.groupWatchTimer = FALSE]
<1>1. job[j] \in JobRecord /\ n \in JobRecord /\ n.state = job[j].state
  BY DEF TypeOK, JobRecord
<1>2. RecordEffect(t, j, n)
  BY <1>1 DEF RecordEffect, JobRecord
<1>3. RefreshFromEvent(t, j, n) /\ task[t] = IdleTask /\ UNCHANGED <<clock, registry, os>>
  BY DEF GroupWatchFires
<1> HIDE DEF n
<1> QED
  BY <1>1, <1>2, <1>3, EventEffect

LEMMA HardTimerFiresEffect ==
    ASSUME TypeOK, NEW t \in Tasks, NEW j \in Jobs, HardTimerFires(t, j)
    PROVE  Effect(t, j)
<1> DEFINE r == [job[j] EXCEPT !.hardTimer = FALSE]
           op == [IdleTask EXCEPT !.op = "hard"]
           n == [r EXCEPT !.stopReason = Reason(op)]
           tk == Scan(op, j, r, "before")
<1>1. /\ job[j] \in JobRecord /\ r \in JobRecord /\ r.state = job[j].state
      /\ r.ownershipReleased = job[j].ownershipReleased
      /\ r.launcherExited = job[j].launcherExited
      /\ r.groupWatchTimer = job[j].groupWatchTimer /\ ~r.hardTimer
  BY DEF TypeOK, JobRecord
<1>2. task[t].pc = "idle" /\ \A m : WorldEffect(t, j, m)
  <2>1. task[t].pc = "idle"
    BY DEF HardTimerFires, IdleTask
  <2>2. UNCHANGED <<clock, registry, os>>
    BY DEF HardTimerFires
  <2> QED
    BY <2>1, <2>2, StillWorld
<1>3. op \in TaskRecord /\ Reason(op) \in Reasons
  BY OperationType DEF Operations, Reason, Reasons
<1>4. \/ job[j].state = "running" /\ Step(t, j, n, tk)
      \/ Step(t, j, r, IdleTask)
  BY <1>1 DEF HardTimerFires, StopBegins
<1> HIDE DEF r, op
<1>5. n \in JobRecord /\ Same(n, r)
  BY <1>1, <1>3, StopReasonType, StopReasonFields
<1> HIDE DEF n
<1>6. ASSUME NEW m \in JobRecord, Same(m, r)
      PROVE  RecordEffect(t, j, m) /\ \A u : WatchEffect(t, j, m, u)
  BY <1>1, <1>2, <1>6 DEF Same, RecordEffect, WatchEffect, Stopping, Refreshing, StopPcs
<1>7. job[j].state = "running" => TaskEffect(t, j, n, tk)
  BY <1>1, <1>3, <1>5, ScanEffect DEF Same
<1>8. TaskEffect(t, j, r, IdleTask)
  BY RestingEffect, IdlePc
<1>9. Same(r, r)
  BY DEF Same
<1> HIDE DEF tk
<1> QED
  BY <1>1, <1>2, <1>4, <1>5, <1>6, <1>7, <1>8, <1>9 DEF Effect

\* What is known of a task that resumes a scan or a wait.
LEMMA ResumedWorking ==
    ASSUME TypeOK, NEW t \in Tasks, task[t].pc \notin {"idle", "loop"}
    PROVE  /\ task[t] \in TaskRecord /\ task[t].job \in Jobs
           /\ job[task[t].job] \in JobRecord
           /\ clock \in Nat
           /\ Working(t, task[t].job)
           /\ task[t].pc \in ScanPcs =>
                 \A v \in Inspected(task[t]) : Found(t, task[t].job, v)
  BY ResumedTypes DEF Working, Found

\* Putting the parts of an effect together when os is left alone.
LEMMA StillEffect ==
    ASSUME NEW t \in Tasks, NEW j \in Jobs, NEW n, NEW tk,
           Step(t, j, n, tk), RecordEffect(t, j, n), TaskEffect(t, j, n, tk),
           WatchEffect(t, j, n, tk), task[t].pc \notin {"idle", "loop"} => task[t].job = j,
           UNCHANGED <<clock, registry, os>>
    PROVE  Effect(t, j)
  BY StillWorld DEF Effect

LEMMA WaitEndsEffect ==
    ASSUME TypeOK, NEW t \in Tasks, WaitEnds(t)
    PROVE  Effect(t, task[t].job)
<1> DEFINE j == task[t].job
           r == job[j]
           tk == Scan(task[t], j, r, "refresh")
<1>1. /\ task[t] \in TaskRecord /\ j \in Jobs /\ r \in JobRecord
      /\ Working(t, j) /\ task[t].pc = "waiting"
  BY ResumedWorking DEF WaitEnds, Resumed
<1>2. RecordEffect(t, j, r) /\ \A u : WatchEffect(t, j, r, u)
  BY <1>1, SameEffect DEF Same, StopPcs
<1>3. TaskEffect(t, j, r, tk) /\ TaskEffect(t, j, r, IdleTask)
  BY <1>1, ScanEffect, RestingEffect, IdlePc
<1>4. job' = [job EXCEPT ![j] = r]
  BY DEF WaitEnds, TypeOK
<1>5. \/ task' = [task EXCEPT ![t] = tk]
      \/ task' = [task EXCEPT ![t] = IdleTask]
  BY DEF WaitEnds
<1>6. WorldEffect(t, j, r)
  BY DEF WaitEnds, Replied, WorldEffect
<1> HIDE DEF tk
<1> QED
  BY <1>1, <1>2, <1>3, <1>4, <1>5, <1>6 DEF Effect, Step

LEMMA ReturnsEffect ==
    ASSUME TypeOK, NEW t \in Tasks,
           ExecuteReturns(t) \/ StatusReturns(t) \/ RefreshReturns(t)
    PROVE  Effect(t, task[t].job)
<1> DEFINE j == task[t].job
<1>1. /\ j \in Jobs /\ job[j] \in JobRecord /\ clock \in Nat
      /\ task[t].pc = "refresh"
      /\ \A v \in Inspected(task[t]) : Found(t, j, v)
  BY ResumedWorking DEF ExecuteReturns, StatusReturns, RefreshReturns, Resumed, ScanPcs, StopPcs, PausePcs
<1>2. ASSUME NEW v \in Inspected(task[t]), NEW n \in JobRecord,
             Same(n, Refreshed(job[j], v))
      PROVE  /\ RecordEffect(t, j, n)
             /\ WatchEffect(t, j, n, IdleTask)
             /\ TaskEffect(t, j, n, IdleTask)
  <2>1. /\ Advanced(Refreshed(job[j], v), job[j], v)
        /\ Refreshed(job[j], v) \in JobRecord
        /\ LET m == Refreshed(job[j], v) IN
           m.state = "running" /\ m.launcherExited =>
               m.groupWatchTimer \/ (m.ownershipReleased /\ job[j].stopReason # "none")
    BY <1>1, RefreshedAdvanced, RefreshedType
  <2>2. Advanced(n, job[j], v)
    BY <1>1, <1>2, <2>1, AdvancedSame
  <2>3. RecordEffect(t, j, n)
    BY <1>1, <2>2, AdvancedEffect
  <2>4. n.state = "running" /\ n.launcherExited =>
            n.groupWatchTimer \/ (n.ownershipReleased /\ job[j].stopReason # "none")
    BY <1>2, <2>1 DEF Same
  <2>5. WatchEffect(t, j, n, IdleTask)
    BY <1>1, <2>4 DEF WatchEffect, Refreshing
  <2> QED
    BY <1>1, <2>3, <2>5, RestingEffect, IdlePc
<1>3. ASSUME NEW v \in Inspected(task[t])
      PROVE  /\ Refreshed(job[j], v) \in JobRecord
             /\ Same(Refreshed(job[j], v), Refreshed(job[j], v))
             /\ Observe(Refreshed(job[j], v)) \in JobRecord
             /\ Same(Observe(Refreshed(job[j], v)), Refreshed(job[j], v))
  BY <1>1, RefreshedType, ObserveType, ObserveFields DEF Same
<1>4. CASE ExecuteReturns(t)
  <2>1. PICK v \in Inspected(task[t]) :
            /\ Step(t, j, Refreshed(job[j], v), IdleTask)
            /\ registry' = Replied(j, Refreshed(job[j], v))
    BY <1>4 DEF ExecuteReturns
  <2>2. WorldEffect(t, j, Refreshed(job[j], v))
    BY <1>4, <2>1 DEF ExecuteReturns, Replied, WorldEffect
  <2> QED
    BY <1>1, <1>2, <1>3, <2>1, <2>2 DEF Effect
<1>5. CASE StatusReturns(t)
  <2>1. PICK v \in Inspected(task[t]) :
            Step(t, j, Observe(Refreshed(job[j], v)), IdleTask)
    BY <1>5 DEF StatusReturns
  <2> QED
    BY <1>1, <1>2, <1>3, <1>5, <2>1, StillEffect DEF StatusReturns
<1>6. CASE RefreshReturns(t)
  <2>1. PICK v \in Inspected(task[t]) : Step(t, j, Refreshed(job[j], v), IdleTask)
    BY <1>6 DEF RefreshReturns
  <2> QED
    BY <1>1, <1>2, <1>3, <1>6, <2>1, StillEffect DEF RefreshReturns
<1> QED
  BY <1>4, <1>5, <1>6

\* Outside a refresh, a record that advanced but kept its watch timer stays
\* watched, and one that became final needs no watch.
LEMMA AdvancedWatch ==
    ASSUME NEW t \in Tasks, NEW j \in Jobs, NEW v, NEW n, NEW tk,
           job[j] \in JobRecord, Advanced(n, job[j], v), task[t].pc # "refresh",
           \/ n.state # "running"
           \/ /\ job[j].groupWatchTimer => n.groupWatchTimer
              /\ \/ task[t].pc \notin StopPcs
                 \/ tk = Thrown \/ (tk.pc \in StopPcs /\ tk.job = j)
    PROVE  WatchEffect(t, j, n, tk)
  BY DEF WatchEffect, Advanced, Stopping, Refreshing

\* A pause between two polls keeps the task on its job and scans nothing.
LEMMA PausedFields ==
    ASSUME NEW tk \in TaskRecord
    PROVE  /\ Paused(tk).pc \in PausePcs /\ Paused(tk).job = tk.job
           /\ Paused(tk).op = tk.op /\ Paused(tk).now = tk.now
  BY DEF Paused, PausePcs, TaskRecord

LEMMA PausedEffect ==
    ASSUME NEW t \in Tasks, NEW j, Working(t, j), task[t] \in TaskRecord, NEW n
    PROVE  TaskEffect(t, j, n, Paused(task[t]))
  BY PausedFields DEF TaskEffect, Working, ScanPcs, PausePcs, StopPcs

LEMMA PollAgainEffect ==
    ASSUME TypeOK, NEW t \in Tasks, StopPollsAgain(t)
    PROVE  Effect(t, task[t].job)
<1> DEFINE tk == task[t]
           j  == tk.job
           next == Scan(tk, j, job[j], IF tk.pc = "termPause" THEN "termWait" ELSE "killWait")
<1>1. /\ tk \in TaskRecord /\ j \in Jobs /\ job[j] \in JobRecord
      /\ Working(t, j) /\ tk.pc # "refresh"
  BY ResumedWorking DEF StopPollsAgain, Resumed, PausePcs
<1>2. Step(t, j, job[j], next) /\ UNCHANGED <<clock, registry, os>>
  BY DEF StopPollsAgain
<1>3. TaskEffect(t, j, job[j], next)
  BY <1>1, ScanEffect
<1>4. next.pc \in StopPcs /\ next.job = j
  BY <1>1, ScanFields DEF StopPcs
<1>5. tk = task[t]
  OBVIOUS
<1> HIDE DEF tk, next
<1>6. RecordEffect(t, j, job[j]) /\ WatchEffect(t, j, job[j], next)
  BY <1>1, <1>4, <1>5, SameEffect DEF Same
<1> QED
  BY <1>1, <1>2, <1>3, <1>5, <1>6, StillEffect

LEMMA StopStepEffect ==
    ASSUME TypeOK, NEW t \in Tasks, StopStep(t)
    PROVE  Effect(t, task[t].job)
<1> DEFINE tk == task[t]
           j  == tk.job
           Lr(v) == Learned(job[j], v)
           On(u) == u = Thrown \/ (u.pc \in StopPcs /\ u.job = j)
<1>0. SUFFICES ASSUME ~StopPollsAgain(t) PROVE Effect(t, j)
  BY PollAgainEffect
<1>1. /\ tk \in TaskRecord /\ j \in Jobs /\ job[j] \in JobRecord /\ clock \in Nat
      /\ Working(t, j) /\ tk.pc # "refresh"
      /\ \A v \in Inspected(tk) : Found(t, j, v)
  <2>1. tk.pc \in StopPcs \ PausePcs
    BY <1>0 DEF StopStep, StopBefore, StopSignals, StopEsrch, StopPolls, Resumed,
                StopPcs, PausePcs, TermDeadline, KillDeadline, DeadlinePasses, StopAfterTerm
  <2>2. tk.pc \in ScanPcs /\ tk.pc \notin {"idle", "loop", "refresh"}
    BY <2>1 DEF ScanPcs, StopPcs, PausePcs
  <2> QED
    BY <2>2, ResumedWorking
<1>2. job[j] = job[task[t].job] /\ tk = task[t] /\ j = task[t].job
  OBVIOUS
<1> HIDE DEF tk, j
\* The records a stop step may leave behind ...
<1>3. ASSUME NEW v \in Inspected(tk), NEW n \in JobRecord, Same(n, Lr(v))
      PROVE  RecordEffect(t, j, n) /\ \A u : On(u) => WatchEffect(t, j, n, u)
  <2>1. Lr(v) \in JobRecord /\ Advanced(Lr(v), job[j], v)
        /\ (job[j].groupWatchTimer => Lr(v).groupWatchTimer)
    BY <1>1, LearnedAdvanced, LearnedType
  <2> HIDE DEF Lr
  <2>2. Advanced(n, job[j], v) /\ (job[j].groupWatchTimer => n.groupWatchTimer)
    BY <1>1, <1>3, <2>1, AdvancedSame DEF Same
  <2> QED
    BY <1>1, <1>2, <2>2, AdvancedEffect, AdvancedWatch
<1>4. ASSUME "gone" \in Inspected(tk), NEW reason
      PROVE  /\ RecordEffect(t, j, FinalizeStopped(Lr("gone"), reason))
             /\ \A u : WatchEffect(t, j, FinalizeStopped(Lr("gone"), reason), u)
  <2> DEFINE n == FinalizeStopped(Lr("gone"), reason)
  <2>1. Advanced(n, job[j], "gone") /\ n.state # "running"
    BY <1>1, StoppedAdvanced
  <2> HIDE DEF n
  <2>2. RecordEffect(t, j, n) /\ \A u : WatchEffect(t, j, n, u)
    BY <1>1, <1>2, <1>4, <2>1, AdvancedEffect, AdvancedWatch
  <2> QED
    BY <2>2 DEF n
<1>5. ASSUME NEW n \in JobRecord, Same(n, job[j])
      PROVE  RecordEffect(t, j, n) /\ \A u : On(u) => WatchEffect(t, j, n, u)
  BY <1>1, <1>2, <1>5, SameEffect DEF Same
<1>6. ASSUME NEW v \in Inspected(tk)
      PROVE  /\ Lr(v) \in JobRecord /\ Same(Lr(v), Lr(v))
             /\ [Lr(v) EXCEPT !.stopReason = "none"] \in JobRecord
             /\ Same([Lr(v) EXCEPT !.stopReason = "none"], Lr(v))
  <2>1. Lr(v) \in JobRecord
    BY <1>1, LearnedType
  <2> HIDE DEF Lr
  <2> QED
    BY <2>1, StopReasonType, StopReasonFields DEF Same, Reasons
<1>7. /\ [job[j] EXCEPT !.stopReason = "none"] \in JobRecord
      /\ Same([job[j] EXCEPT !.stopReason = "none"], job[j])
      /\ Same(job[j], job[j])
  BY <1>1, StopReasonType, StopReasonFields DEF Same, Reasons
\* ... and where its task may go.
<1>8. ASSUME NEW n PROVE TaskEffect(t, j, n, Thrown) /\ TaskEffect(t, j, n, Returned(tk))
  BY <1>1, RestingEffect, IdlePc, ReturnedFields
<1>9. ASSUME NEW n \in JobRecord, NEW at \in StopPcs
      PROVE  TaskEffect(t, j, n, Scan(tk, j, n, at)) /\ On(Scan(tk, j, n, at))
  BY <1>1, ScanEffect, ScanFields
<1>10. /\ On(Thrown) /\ tk.job = j
       /\ AfterSignal(tk.pc) \in StopPcs /\ OnEsrch(tk.pc) \in StopPcs
       /\ {"before", "term", "termWait", "afterTerm", "kill", "killWait"} \subseteq StopPcs
  BY <1>1, <1>2 DEF AfterSignal, OnEsrch, StopPcs, Working
<1> HIDE DEF On
<1> HIDE DEF Lr
<1>11. StopBefore(t) => Effect(t, j)
  <2> SUFFICES ASSUME StopBefore(t) PROVE Effect(t, j)
    OBVIOUS
  <2>1. PICK v \in Inspected(tk) :
            \/ v = "gone" /\ Step(t, j, FinalizeStopped(Lr(v), Reason(tk)), Returned(tk))
            \/ Step(t, j, [Lr(v) EXCEPT !.stopReason = "none"], Thrown)
            \/ Step(t, j, Lr(v), Scan(tk, j, Lr(v), "term"))
    BY DEF StopBefore, tk, j, Lr
  <2>2. UNCHANGED <<clock, registry, os>>
    BY DEF StopBefore
  <2> QED
    BY <1>1, <1>2, <1>3, <1>4, <1>6, <1>8, <1>9, <1>10, <2>1, <2>2, StillEffect
<1>12. StopSignals(t) => Effect(t, j)
  <2> SUFFICES ASSUME StopSignals(t) PROVE Effect(t, j)
    OBVIOUS
  <2>1. PICK v \in Inspected(tk) :
            /\ \/ Step(t, j, Lr(v), Thrown)
               \/ Step(t, j, Lr(v), Scan(tk, j, Lr(v), AfterSignal(tk.pc)))
               \/ Step(t, j, Lr(v), Scan(tk, j, Lr(v), OnEsrch(tk.pc)))
            /\ \/ os' = os
               \/ v = "alive" /\ os' = [os EXCEPT ![j] = Signalled(@, tk.pc)]
    BY DEF StopSignals, tk, j, Lr
  <2>2. clock' = clock /\ registry' = registry
    BY DEF StopSignals
  <2>3. WorldEffect(t, j, Lr(v))
    BY <1>1, <1>2, <2>1, <2>2 DEF WorldEffect
  <2> QED
    BY <1>1, <1>2, <1>3, <1>6, <1>8, <1>9, <1>10, <2>1, <2>3 DEF Effect
<1>13. StopEsrch(t) => Effect(t, j)
  <2> SUFFICES ASSUME StopEsrch(t) PROVE Effect(t, j)
    OBVIOUS
  <2> DEFINE at == IF tk.pc = "termEsrch" THEN "termWait" ELSE "killWait"
  <2>1. PICK v \in Inspected(tk) :
            \/ Step(t, j, Lr(v), Thrown)
            \/ Step(t, j, Lr(v), Scan(tk, j, Lr(v), at))
    BY DEF StopEsrch, tk, j, Lr
  <2>2. UNCHANGED <<clock, registry, os>> /\ at \in StopPcs
    BY <1>10 DEF StopEsrch
  <2> HIDE DEF at
  <2> QED
    BY <1>1, <1>2, <1>3, <1>6, <1>8, <1>9, <1>10, <2>1, <2>2, StillEffect
<1>14. StopPolls(t) => Effect(t, j)
  <2> SUFFICES ASSUME StopPolls(t) PROVE Effect(t, j)
    OBVIOUS
  <2>1. PICK v \in Inspected(tk) :
            \/ v = "gone" /\ Step(t, j, FinalizeStopped(Lr(v), Reason(tk)), Returned(tk))
            \/ Step(t, j, Lr(v), Paused(tk))
    BY DEF StopPolls, tk, j, Lr
  <2>2. UNCHANGED <<clock, registry, os>>
    BY DEF StopPolls
  <2>3. TaskEffect(t, j, Lr(v), Paused(tk))
    BY <1>1, <1>2, PausedEffect
  <2>4. On(Paused(tk))
    BY <1>1, <1>10, PausedFields DEF On, PausePcs, StopPcs
  <2>5. WatchEffect(t, j, Lr(v), Paused(tk))
    BY <1>3, <1>6, <2>4
  <2> QED
    BY <1>1, <1>2, <1>3, <1>4, <1>6, <1>8, <1>10, <2>1, <2>2, <2>3, <2>5, StillEffect
<1>15. TermDeadline(t) => Effect(t, j)
  <2> SUFFICES ASSUME TermDeadline(t) PROVE Effect(t, j)
    OBVIOUS
  <2>1. /\ Step(t, j, job[j], Scan(tk, j, job[j], "afterTerm"))
        /\ UNCHANGED <<clock, registry, os>>
    BY DEF TermDeadline, tk, j
  <2> QED
    BY <1>1, <1>2, <1>5, <1>7, <1>9, <1>10, <2>1, StillEffect
<1>16. KillDeadline(t) => Effect(t, j)
  <2> SUFFICES ASSUME KillDeadline(t) PROVE Effect(t, j)
    OBVIOUS
  <2>1. /\ Step(t, j, [job[j] EXCEPT !.stopReason = "none"], Thrown)
        /\ UNCHANGED <<clock, registry, os>>
    BY DEF KillDeadline, tk, j
  <2> QED
    BY <1>1, <1>2, <1>5, <1>7, <1>8, <1>10, <2>1, StillEffect
<1>17. StopAfterTerm(t) => Effect(t, j)
  <2> SUFFICES ASSUME StopAfterTerm(t) PROVE Effect(t, j)
    OBVIOUS
  <2>1. PICK v \in Inspected(tk) :
            \/ Step(t, j, Lr(v), Scan(tk, j, Lr(v), "kill"))
            \/ Step(t, j, Lr(v), Scan(tk, j, Lr(v), "killWait"))
            \/ Step(t, j, [Lr(v) EXCEPT !.stopReason = "none"], Thrown)
    BY DEF StopAfterTerm, tk, j, Lr
  <2>2. UNCHANGED <<clock, registry, os>>
    BY DEF StopAfterTerm
  <2> QED
    BY <1>1, <1>2, <1>3, <1>6, <1>8, <1>9, <1>10, <2>1, <2>2, StillEffect
<1> QED
  BY <1>0, <1>2, <1>11, <1>12, <1>13, <1>14, <1>15, <1>16, <1>17 DEF StopStep

LEMMA ConsiderEffect ==
    ASSUME TypeOK, NEW t \in Tasks, NEW j \in Jobs, NEW tk \in TaskRecord,
           NEW n \in JobRecord, job[j].state = "running" \/ Working(t, j)
    PROVE  TaskEffect(t, j, n, Consider(tk, j, n))
<1>1. TaskEffect(t, j, n, Scan(tk, j, n, "probe"))
  BY ScanEffect
<1>2. TaskEffect(t, j, n, Returned(tk))
  BY RestingEffect, ReturnedFields
<1> QED
  BY <1>1, <1>2 DEF Consider

LEMMA SweepVisitsEffect ==
    ASSUME TypeOK, NEW t \in Tasks, NEW j \in Jobs, SweepVisits(t, j)
    PROVE  Effect(t, j)
<1> DEFINE tk == [task[t] EXCEPT !.todo = @ \ {j}]
           r == job[j]
<1>1. /\ tk \in TaskRecord /\ tk.pc = "loop" /\ task[t].pc = "loop" /\ r \in JobRecord
      /\ UNCHANGED <<clock, registry, os>> /\ job' = [job EXCEPT ![j] = r]
  BY DEF TypeOK, SweepVisits, Resumed, TaskRecord
<1>2. \/ task' = [task EXCEPT ![t] = tk]
      \/ r.state = "running" /\ task' = [task EXCEPT ![t] = Scan(tk, j, r, "refresh")]
      \/ r.state = "running" /\ task' = [task EXCEPT ![t] = Consider(tk, j, r)]
  BY DEF SweepVisits
<1> HIDE DEF tk
<1>3. RecordEffect(t, j, r) /\ \A u : WatchEffect(t, j, r, u)
  BY <1>1, SameEffect DEF Same, StopPcs
<1>4. TaskEffect(t, j, r, tk)
  BY <1>1, RestingEffect
<1>5. r.state = "running" => /\ TaskEffect(t, j, r, Scan(tk, j, r, "refresh"))
                             /\ TaskEffect(t, j, r, Consider(tk, j, r))
  BY <1>1, ScanEffect, ConsiderEffect
<1>6. PICK u : Step(t, j, r, u) /\ TaskEffect(t, j, r, u)
  BY <1>1, <1>2, <1>4, <1>5 DEF Step
<1> QED
  BY <1>1, <1>3, <1>6, StillEffect

LEMMA SweepRefreshedEffect ==
    ASSUME TypeOK, NEW t \in Tasks, SweepRefreshed(t)
    PROVE  Effect(t, task[t].job)
<1> DEFINE tk == task[t]
           j  == tk.job
<1>1. /\ tk \in TaskRecord /\ j \in Jobs /\ job[j] \in JobRecord /\ clock \in Nat
      /\ Working(t, j) /\ Refreshing(t, j)
      /\ \A v \in Inspected(tk) : Found(t, j, v)
  BY ResumedWorking DEF SweepRefreshed, Resumed, ScanPcs, StopPcs, PausePcs, Refreshing
<1>2. PICK v \in Inspected(tk) :
          Step(t, j, Refreshed(job[j], v), Consider(tk, j, Refreshed(job[j], v)))
  BY DEF SweepRefreshed
<1> DEFINE n == Refreshed(job[j], v)
<1>3. /\ n \in JobRecord /\ Advanced(n, job[j], v)
      /\ n.state = "running" /\ n.launcherExited =>
             n.groupWatchTimer \/ (n.ownershipReleased /\ job[j].stopReason # "none")
  BY <1>1, RefreshedType, RefreshedAdvanced
<1>4. UNCHANGED <<clock, registry, os>>
  BY DEF SweepRefreshed
<1>5. Step(t, j, n, Consider(tk, j, n))
  BY <1>2
<1> HIDE DEF n
<1>6. WatchEffect(t, j, n, Consider(tk, j, n))
  BY <1>1, <1>3 DEF WatchEffect
<1>7. RecordEffect(t, j, n)
  BY <1>1, <1>3, AdvancedEffect
<1>8. TaskEffect(t, j, n, Consider(tk, j, n))
  BY <1>1, <1>3, ConsiderEffect
<1> QED
  BY <1>1, <1>4, <1>5, <1>6, <1>7, <1>8, StillEffect

LEMMA ProbeStepEffect ==
    ASSUME TypeOK, NEW t \in Tasks, ProbeStep(t)
    PROVE  Effect(t, task[t].job)
<1> DEFINE tk == task[t]
           j  == tk.job
<1>1. /\ tk \in TaskRecord /\ j \in Jobs /\ job[j] \in JobRecord /\ clock \in Nat
      /\ Working(t, j) /\ tk.pc \notin StopPcs \cup {"refresh"}
      /\ \A v \in Inspected(tk) : Found(t, j, v)
      /\ UNCHANGED <<clock, registry, os>>
  BY ResumedWorking
  DEF ProbeStep, ProbeSettles, ProbeRecords, ProbeTooSoon, ProbeReaps, Resumed, ScanPcs, PausePcs,
      StopPcs
<1>2. job[j] = job[task[t].job] /\ tk = task[t] /\ j = task[t].job
  OBVIOUS
<1> HIDE DEF tk, j
<1>3. ASSUME NEW n \in JobRecord, Same(n, job[j])
      PROVE  RecordEffect(t, j, n) /\ \A u : WatchEffect(t, j, n, u)
  BY <1>1, <1>2, <1>3, SameEffect DEF Same
<1>4. ASSUME NEW n PROVE TaskEffect(t, j, n, Thrown) /\ TaskEffect(t, j, n, Returned(tk))
  BY <1>1, RestingEffect, IdlePc, ReturnedFields
<1>5. Same(job[j], job[j])
  BY DEF Same
<1>6. ProbeSettles(t) => Effect(t, j)
  <2> SUFFICES ASSUME ProbeSettles(t) PROVE Effect(t, j)
    OBVIOUS
  <2> DEFINE N == FinalizeNaturalCompletion(Learned(job[j], "gone"))
  <2>1. PICK v \in Inspected(tk) :
            \/ Step(t, j, Learned(job[j], v), Returned(tk))
            \/ v = "gone" /\ Step(t, j, N, Returned(tk))
    BY DEF ProbeSettles, tk, j
  <2> DEFINE l == Learned(job[j], v)
  <2>2. Advanced(l, job[j], v) /\ (job[j].groupWatchTimer => l.groupWatchTimer)
    BY <1>1, LearnedAdvanced
  <2>3. /\ Advanced(N, job[j], "gone")
        /\ N.state # "running" \/ N.groupWatchTimer = job[j].groupWatchTimer
    BY <1>1, NaturalAdvanced
  <2> HIDE DEF N, l
  <2>4. RecordEffect(t, j, l) /\ WatchEffect(t, j, l, Returned(tk))
    BY <1>1, <1>2, <2>2, AdvancedEffect, AdvancedWatch
  <2>5. v = "gone" => RecordEffect(t, j, N) /\ WatchEffect(t, j, N, Returned(tk))
    BY <1>1, <1>2, <2>3, AdvancedEffect, AdvancedWatch
  <2> QED
    BY <1>1, <1>2, <1>4, <2>1, <2>4, <2>5, StillEffect DEF l
<1>7. ProbeRecords(t) => Effect(t, j)
  <2> SUFFICES ASSUME ProbeRecords(t) PROVE Effect(t, j)
    OBVIOUS
  <2> DEFINE n == [job[j] EXCEPT !.evidence = Stored(tk)]
  <2>1. Stored(tk) \in Evidence
    BY <1>1 DEF Stored, Evidence, TaskRecord
  <2>2. n \in JobRecord /\ Same(n, job[j])
    BY <1>1, <2>1 DEF JobRecord, Evidence, Same
  <2>3. Step(t, j, n, Returned(tk))
    BY DEF ProbeRecords, tk, j
  <2> HIDE DEF n
  <2> QED
    BY <1>1, <1>2, <1>3, <1>4, <2>2, <2>3, StillEffect
<1>8. ProbeTooSoon(t) => Effect(t, j)
  <2> SUFFICES ASSUME ProbeTooSoon(t) PROVE Effect(t, j)
    OBVIOUS
  <2>1. Step(t, j, job[j], Returned(tk))
    BY DEF ProbeTooSoon, tk, j
  <2> QED
    BY <1>1, <1>2, <1>3, <1>4, <1>5, <2>1, StillEffect
<1>9. ProbeReaps(t) => Effect(t, j)
  <2> SUFFICES ASSUME ProbeReaps(t) PROVE Effect(t, j)
    OBVIOUS
  <2> DEFINE n == [job[j] EXCEPT !.stopReason = Reason(tk)]
             next == Scan(tk, j, job[j], "before")
  <2>1. Reason(tk) \in Reasons
    BY DEF Reason, Reasons
  <2>2. n \in JobRecord /\ Same(n, job[j])
    BY <1>1, <2>1, StopReasonType, StopReasonFields
  <2>3. \/ Step(t, j, job[j], Thrown)
        \/ Step(t, j, job[j], Returned(tk))
        \/ Step(t, j, n, next)
    BY DEF ProbeReaps, StopBegins, tk, j
  <2> HIDE DEF n
  <2>4. TaskEffect(t, j, n, next)
    BY <1>1, <2>2, ScanEffect DEF Same
  <2> HIDE DEF next
  <2> QED
    BY <1>1, <1>2, <1>3, <1>4, <1>5, <2>2, <2>3, <2>4, StillEffect
<1> QED
  BY <1>2, <1>6, <1>7, <1>8, <1>9 DEF ProbeStep

\* Output or a status call that found the job running.
Observed(j) ==
    /\ j \in registry \/ job[j].state = "running"
    /\ job' = [job EXCEPT ![j] = Observe(@)]
    /\ UNCHANGED <<clock, registry, os, task>>

\* A sweep begins or ends.
Turns(t) ==
    /\ task[t].pc \in {"idle", "loop"}
    /\ \E tk : task' = [task EXCEPT ![t] = tk] /\ tk.pc \in {"idle", "loop"}
    /\ registry' \subseteq registry
    /\ \A j \in Jobs : j \in registry /\ job[j].state = "running" => j \in registry'
    /\ UNCHANGED <<clock, job, os>>

LEMMA ResumesCases ==
    ASSUME TypeOK, NEW t \in Tasks, Resumes(t)
    PROVE  (\E j \in Jobs : Effect(t, j)) \/ Turns(t)
<1>1. CASE SweepEnds(t)
  <2>1. task' = [task EXCEPT ![t] = IdleTask] /\ IdleTask.pc \in {"idle", "loop"}
    BY <1>1, IdlePc DEF SweepEnds
  <2> QED
    BY <1>1, <2>1 DEF SweepEnds, Resumed, Turns
<1>2. CASE ~SweepEnds(t)
  <2>1. task[t].pc \notin {"idle", "loop"} => task[t].job \in Jobs
    BY DEF TypeOK
  <2>2. ASSUME WaitEnds(t) \/ ExecuteReturns(t) \/ StatusReturns(t) \/ RefreshReturns(t)
               \/ StopStep(t) \/ SweepRefreshed(t) \/ ProbeStep(t)
        PROVE  task[t].job \in Jobs /\ Effect(t, task[t].job)
    <3>1. task[t].pc \notin {"idle", "loop"}
      BY <2>2 DEF WaitEnds, ExecuteReturns, StatusReturns, RefreshReturns, StopStep,
                  StopBefore, StopSignals, StopEsrch, StopPolls, StopPollsAgain, PausePcs, TermDeadline,
                  KillDeadline, DeadlinePasses, StopAfterTerm, SweepRefreshed,
                  ProbeStep, ProbeSettles, ProbeRecords, ProbeTooSoon, ProbeReaps, Resumed
    <3> QED
      BY <2>1, <2>2, <3>1, WaitEndsEffect, ReturnsEffect, StopStepEffect,
         SweepRefreshedEffect, ProbeStepEffect
  <2>3. ASSUME NEW j \in Jobs, SweepVisits(t, j) PROVE Effect(t, j)
    BY <2>3, SweepVisitsEffect
  <2> QED
    BY <1>2, <2>2, <2>3 DEF Resumes, StopStep, ProbeStep
<1> QED
  BY <1>1, <1>2

Executes ==
    \E t \in Tasks, j \in Jobs : \E persistent, hard, waits, spawned \in BOOLEAN :
        Execute(t, j, persistent, hard, waits, spawned)

LEMMA NextCases ==
    ASSUME TypeOK, Next
    PROVE  \/ \E t \in Tasks, j \in Jobs : Effect(t, j)
           \/ Executes
           \/ \E j \in Jobs : Observed(j)
           \/ \E t \in Tasks : Turns(t)
           \/ OperatingSystem
<1>1. CASE ToolCalls
  <2>1. ASSUME NEW j \in Jobs, StatusObserves(j) PROVE Observed(j)
    BY <2>1 DEF StatusObserves, Observed
  <2> QED
    BY <1>1, <2>1, CallEffect DEF ToolCalls, Executes
<1>2. CASE Events
  <2>1. ASSUME NEW j \in Jobs, Output(j) PROVE Observed(j)
    BY <2>1 DEF Output, Observed
  <2>2. ASSUME NEW t \in Tasks, SweepBegins(t) PROVE Turns(t)
    <3> DEFINE tk == [IdleTask EXCEPT !.op = "sweep", !.pc = "loop",
                                      !.todo = registry', !.now = clock]
    <3>1. task' = [task EXCEPT ![t] = tk] /\ tk.pc = "loop"
      BY <2>2 DEF SweepBegins, IdleTask
    <3>2. task[t].pc = "idle"
      BY <2>2 DEF SweepBegins, IdleTask
    <3>3. /\ registry' \subseteq registry
          /\ \A j \in Jobs : j \in registry /\ job[j].state = "running" => j \in registry'
          /\ UNCHANGED <<clock, job, os>>
      BY <2>2 DEF SweepBegins, Expired
    <3> HIDE DEF tk
    <3> QED
      BY <3>1, <3>2, <3>3 DEF Turns
  <2> QED
    BY <1>2, <2>1, <2>2, LauncherExitEffect, GroupWatchFiresEffect,
       HardTimerFiresEffect DEF Events
<1>3. CASE \E t \in Tasks : Resumes(t)
  BY <1>3, ResumesCases
<1> QED
  BY <1>1, <1>2, <1>3 DEF Next

-----------------------------------------------------------------------------
(* What the other steps leave alone *)

LEMMA EffectFrame ==
    ASSUME TypeOK, NEW t \in Tasks, NEW j \in Jobs, NEW n, NEW tk, Step(t, j, n, tk)
    PROVE  /\ job'[j] = n /\ \A k \in Jobs \ {j} : job'[k] = job[k]
           /\ task'[t] = tk /\ \A u \in Tasks \ {t} : task'[u] = task[u]
  BY DEF Step, TypeOK

\* An activation's step signals, but neither ends nor starts a process.
LEMMA EffectLive ==
    ASSUME TypeOK, NEW t \in Tasks, NEW j \in Jobs, NEW n, WorldEffect(t, j, n)
    PROVE  \A k \in Jobs : os'[k].live = os[k].live
<1>1. CASE os' = os
  BY <1>1
<1>2. CASE os' = [os EXCEPT ![j] = Signalled(@, task[t].pc)]
  <2>1. os[j] \in GroupRecord
    BY DEF TypeOK
  <2>2. Signalled(os[j], task[t].pc).live = os[j].live
    BY <2>1 DEF Signalled, GroupRecord
  <2> QED
    BY <1>2, <2>2 DEF TypeOK
<1> QED
  BY <1>1, <1>2 DEF WorldEffect

LEMMA ObservedFrame ==
    ASSUME TypeOK, NEW j \in Jobs, Observed(j)
    PROVE  /\ \A k \in Jobs : Same(job'[k], job[k])
           /\ UNCHANGED <<clock, registry, os, task>>
<1>1. ASSUME NEW k \in Jobs PROVE Same(job'[k], job[k])
  <2>1. job[k] \in JobRecord /\ Same(job[k], job[k])
    BY DEF TypeOK, Same
  <2>2. CASE k = j
    <3>1. job'[k] = Observe(job[k])
      BY <2>2 DEF Observed, TypeOK
    <3> QED
      BY <2>1, <3>1, ObserveFields
  <2>3. CASE k # j
    BY <2>1, <2>3 DEF Observed, TypeOK
  <2> QED
    BY <2>2, <2>3
<1> QED
  BY <1>1 DEF Observed

\* Own and Same over a step, for the proofs below.
LEMMA ExecuteFrame ==
    ASSUME TypeOK, NEW t \in Tasks, NEW j \in Jobs,
           NEW persistent \in BOOLEAN, NEW hard \in BOOLEAN,
           NEW waits \in BOOLEAN, NEW spawned \in BOOLEAN,
           Execute(t, j, persistent, hard, waits, spawned)
    PROVE  /\ job[j].state = "absent"
           /\ ~job'[j].launcherExited /\ ~job'[j].groupWatchTimer
           /\ \/ /\ job'[j].state = "running" /\ ~job'[j].ownershipReleased
                 /\ os' = [os EXCEPT ![j].live = {Launcher}]
              \/ /\ job'[j].state = "failed" /\ job'[j].ownershipReleased
                 /\ ~job'[j].hardTimer /\ os' = os
           /\ \A k \in Jobs \ {j} : job'[k] = job[k]
           /\ task[t].pc = "idle" /\ task'[t].pc \in {"idle", "waiting"}
           /\ task'[t].pc = "waiting" => task'[t].job = j
           /\ \A u \in Tasks \ {t} : task'[u] = task[u]
           /\ j \in registry'
           /\ \A k \in registry : job[k].state = "running" => k \in registry'
<1> DEFINE r == IF spawned THEN Start(j, persistent, hard)
                ELSE SpawnError(Start(j, persistent, hard))
           tk == IF waits
                 THEN [IdleTask EXCEPT !.op = "execute", !.pc = "waiting", !.job = j]
                 ELSE IdleTask
<1>1. Step(t, j, r, tk)
  BY DEF Execute
<1>2. task[t].pc = "idle" /\ job[j].state = "absent"
  BY DEF Execute, IdleTask
<1>3. tk.pc \in {"idle", "waiting"} /\ (tk.pc = "waiting" => tk.job = j)
  BY DEF IdleTask
<1>4. /\ ~r.launcherExited /\ ~r.groupWatchTimer
      /\ spawned => r.state = "running" /\ ~r.ownershipReleased
      /\ ~spawned => r.state = "failed" /\ r.ownershipReleased /\ ~r.hardTimer
  BY DEF Start, SpawnError, ClearJobTimers, NoRecord
<1>5. /\ spawned => os' = [os EXCEPT ![j].live = {Launcher}]
      /\ ~spawned => os' = os
  BY DEF Execute
<1>6. registry' = (registry \ Expired(clock)) \cup {j}
  BY DEF Execute
<1>7. \A k \in registry : job[k].state = "running" => k \in registry'
  BY <1>6 DEF Expired
<1> HIDE DEF r, tk
<1>8. /\ job'[j] = r /\ \A k \in Jobs \ {j} : job'[k] = job[k]
      /\ task'[t] = tk /\ \A u \in Tasks \ {t} : task'[u] = task[u]
  BY <1>1, EffectFrame
<1> QED
  BY <1>2, <1>3, <1>4, <1>5, <1>6, <1>7, <1>8

-----------------------------------------------------------------------------
(* No job is lost sight of, unless a stop of it failed *)

\* What ForgottenOnlyByFailedStop says of a job that is no longer attended.
FailedStop(j) ==
    /\ job'[j].ownershipReleased
    /\ \/ Abandoned(j)
       \/ \E t \in Tasks :
              /\ task[t].pc \in StopPcs /\ task[t].job = j
              /\ task'[t] = Thrown

\* Jobs and activations that keep what Attended reads keep their attention.
LEMMA AttentionKept ==
    ASSUME NEW k \in Jobs, Attended(k),
           job'[k].state = job[k].state,
           job'[k].launcherExited = job[k].launcherExited,
           job'[k].ownershipReleased = job[k].ownershipReleased,
           job'[k].groupWatchTimer = job[k].groupWatchTimer,
           \A u \in Tasks : task[u].pc \in StopPcs \cup {"refresh"} /\ task[u].job = k
                              => task'[u] = task[u]
    PROVE  Attended(k)'
<1>1. ASSUME NEW u \in Tasks, task[u].pc = "refresh", task[u].job = k
      PROVE  Attended(k)'
  <2>1. task'[u].pc = "refresh" /\ task'[u].job = k
    BY <1>1
  <2> QED
    BY <2>1 DEF Attended
<1>2. ASSUME NEW u \in Tasks, task[u].pc \in StopPcs, task[u].job = k,
             job[k].ownershipReleased
      PROVE  Attended(k)'
  <2>1. task'[u].pc \in StopPcs /\ task'[u].job = k
    BY <1>2
  <2> QED
    BY <1>2, <2>1 DEF Attended
<1> QED
  BY <1>1, <1>2 DEF Attended

LEMMA AttentionEffect ==
    ASSUME TypeOK, NEW t \in Tasks, NEW j \in Jobs, Effect(t, j),
           NEW k \in Jobs, Attended(k), ~Attended(k)'
    PROVE  FailedStop(k)
<1>1. PICK n, tk :
          /\ Step(t, j, n, tk) /\ RecordEffect(t, j, n) /\ WatchEffect(t, j, n, tk)
          /\ (task[t].pc \notin {"idle", "loop"} => task[t].job = j)
  BY DEF Effect
<1>2. /\ job'[j] = n /\ \A i \in Jobs \ {j} : job'[i] = job[i]
      /\ task'[t] = tk /\ \A u \in Tasks \ {t} : task'[u] = task[u]
  BY <1>1, EffectFrame
<1>3. k = j
  <2>1. SUFFICES ASSUME k # j PROVE FALSE
    OBVIOUS
  <2>2. task[t].pc \in StopPcs \cup {"refresh"} => task[t].job # k
    BY <1>1, <2>1 DEF StopPcs
  <2> QED
    BY <1>2, <2>1, <2>2, AttentionKept
\* What the step must have left of j not to be attended any more.
<1>4. /\ n.state = "running" /\ n.launcherExited /\ ~n.groupWatchTimer
      /\ ~(tk.pc = "refresh" /\ tk.job = j)
      /\ ~(n.ownershipReleased /\ tk.pc \in StopPcs /\ tk.job = j)
      /\ \A u \in Tasks \ {t} : ~Refreshing(u, j)
      /\ \A u \in Tasks \ {t} : n.ownershipReleased => ~Stopping(u, j)
  BY <1>2, <1>3 DEF Attended, Refreshing, Stopping
<1>5. job[j].state = "running" /\ (job[j].ownershipReleased => n.ownershipReleased)
  BY <1>1, <1>4 DEF RecordEffect, Final
<1>6. CASE n.ownershipReleased /\ Refreshing(t, j) /\ job[j].stopReason # "none"
  <2>1. ~Stopping(t, j)
    BY <1>6 DEF Refreshing, Stopping, StopPcs
  <2>2. Abandoned(j)
    BY <1>4, <1>5, <1>6, <2>1 DEF Abandoned, Stopping
  <2> QED
    BY <1>2, <1>3, <1>6, <2>2 DEF FailedStop
<1>7. CASE /\ job[j].launcherExited
           /\ job[j].groupWatchTimer => n.groupWatchTimer
           /\ ~Refreshing(t, j)
           /\ Stopping(t, j) => tk = Thrown \/ (tk.pc \in StopPcs /\ tk.job = j)
  <2>1. /\ job[j].ownershipReleased
        /\ \E u \in Tasks : Stopping(u, j)
    BY <1>3, <1>4, <1>5, <1>7 DEF Attended, Refreshing, Stopping
  <2>2. Stopping(t, j) /\ tk = Thrown
    BY <1>4, <1>5, <1>7, <2>1
  <2> QED
    BY <1>2, <1>3, <1>5, <2>1, <2>2 DEF FailedStop, Stopping
<1> QED
  BY <1>1, <1>4, <1>6, <1>7 DEF WatchEffect

LEMMA AttentionNext ==
    ASSUME TypeOK, [Next]_vars, NEW k \in Jobs, Attended(k), ~Attended(k)'
    PROVE  FailedStop(k)
<1>1. ASSUME NEW t \in Tasks, NEW j \in Jobs, Effect(t, j) PROVE FailedStop(k)
  BY <1>1, AttentionEffect
<1>2. CASE Executes
  <2>1. PICK t \in Tasks, j \in Jobs : /\ \A i \in Jobs \ {j} : job'[i] = job[i]
                                       /\ ~job'[j].launcherExited
                                       /\ task[t].pc = "idle"
                                       /\ \A u \in Tasks \ {t} : task'[u] = task[u]
    BY <1>2, ExecuteFrame DEF Executes
  <2>2. k # j
    BY <2>1 DEF Attended
  <2> QED
    BY <2>1, <2>2, AttentionKept DEF StopPcs
<1>3. ASSUME NEW j \in Jobs, Observed(j) PROVE FALSE
  <2>1. Same(job'[k], job[k]) /\ task' = task
    BY <1>3, ObservedFrame
  <2> QED
    BY <2>1, AttentionKept DEF Same
<1>4. ASSUME NEW t \in Tasks, Turns(t) PROVE FALSE
  <2>1. /\ \A u \in Tasks \ {t} : task'[u] = task[u]
        /\ task[t].pc \notin StopPcs \cup {"refresh"} /\ job' = job
    BY <1>4 DEF Turns, TypeOK, StopPcs
  <2> QED
    BY <2>1, AttentionKept
<1>5. CASE OperatingSystem \/ UNCHANGED vars
  <2>1. job' = job /\ task' = task
    BY <1>5 DEF OperatingSystem, ProcessDies, ProcessForks, GroupProgresses,
                NumberReused, Tick, vars
  <2> QED
    BY <2>1, AttentionKept
<1> QED
  BY <1>1, <1>2, <1>3, <1>4, <1>5, NextCases

\* The registry loses sight of a job it reports as running in two ways only,
\* both of a stop that failed; every other interleaving of stops, refreshes,
\* sweeps and timers leaves the job attended.
THEOREM Forgets_OnlyByFailedStop == Spec => ForgottenOnlyByFailedStop
<1>1. TypeOK /\ [Next]_vars =>
          \A j \in Jobs : Attended(j) /\ ~Attended(j)' => FailedStop(j)
  BY AttentionNext
<1>2. TypeOK /\ [Next]_vars =>
          [\A j \in Jobs :
             Attended(j) /\ ~Attended(j)' =>
                 /\ job'[j].ownershipReleased
                 /\ \/ Abandoned(j)
                    \/ \E t \in Tasks :
                           /\ task[t].pc \in StopPcs /\ task[t].job = j
                           /\ task'[t] = Thrown]_vars
  BY <1>1 DEF FailedStop
<1> QED
  BY <1>2, TypeCorrect, PTL DEF Spec, ForgottenOnlyByFailedStop

\* The state invariant of the same kind: while the group lives on, no stop that
\* fails can be the cause either.

LEMMA WatchInit == ASSUME Init PROVE WatchCovered
  BY DEF Init, WatchCovered, NoRecord

LEMMA WatchEffectStep ==
    ASSUME TypeOK, WatchCovered, NEW t \in Tasks, NEW j \in Jobs, Effect(t, j)
    PROVE  WatchCovered'
<1>1. PICK n, tk :
          /\ Step(t, j, n, tk) /\ RecordEffect(t, j, n) /\ WatchEffect(t, j, n, tk)
          /\ (task[t].pc \notin {"idle", "loop"} => task[t].job = j)
  BY DEF Effect
<1>2. /\ job'[j] = n /\ \A k \in Jobs \ {j} : job'[k] = job[k]
      /\ task'[t] = tk /\ \A u \in Tasks \ {t} : task'[u] = task[u]
  BY <1>1, EffectFrame
<1>3. SUFFICES ASSUME NEW k \in Jobs, job'[k].state = "running", job'[k].launcherExited,
                      ~job'[k].ownershipReleased, ~job'[k].groupWatchTimer
               PROVE  \E u \in Tasks : task'[u].pc = "refresh" /\ task'[u].job = k
  BY DEF WatchCovered
<1>4. CASE k # j
  BY <1>1, <1>2, <1>3, <1>4 DEF WatchCovered
<1>5. CASE k = j
  <2>1. CASE tk.pc = "refresh" /\ tk.job = j
    BY <1>2, <1>5, <2>1
  <2>2. CASE ~(tk.pc = "refresh" /\ tk.job = j)
    <3>1. /\ job[j].launcherExited /\ ~job[j].groupWatchTimer
          /\ ~(task[t].pc = "refresh" /\ task[t].job = j)
      BY <1>1, <1>2, <1>3, <1>5, <2>2 DEF WatchEffect, Refreshing
    <3>2. job[j].state = "running" /\ ~job[j].ownershipReleased
      BY <1>1, <1>2, <1>3, <1>5 DEF RecordEffect, Final
    <3>3. PICK u \in Tasks : task[u].pc = "refresh" /\ task[u].job = j
      BY <3>1, <3>2 DEF WatchCovered
    <3> QED
      BY <1>2, <1>5, <3>1, <3>3
  <2> QED
    BY <2>1, <2>2
<1> QED
  BY <1>4, <1>5

LEMMA WatchNext ==
    ASSUME TypeOK, WatchCovered, [Next]_vars
    PROVE  WatchCovered'
<1>1. ASSUME NEW t \in Tasks, NEW j \in Jobs, Effect(t, j) PROVE WatchCovered'
  BY <1>1, WatchEffectStep
<1>2. CASE Executes
  <2>1. PICK t \in Tasks, j \in Jobs : /\ \A k \in Jobs \ {j} : job'[k] = job[k]
                                       /\ ~job'[j].launcherExited
                                       /\ task[t].pc = "idle"
                                       /\ \A u \in Tasks \ {t} : task'[u] = task[u]
    BY <1>2, ExecuteFrame DEF Executes
  <2> QED
    BY <2>1 DEF WatchCovered
<1>3. ASSUME NEW j \in Jobs, Observed(j) PROVE WatchCovered'
  <2>1. (\A k \in Jobs : Same(job'[k], job[k])) /\ task' = task
    BY <1>3, ObservedFrame
  <2> QED
    BY <2>1 DEF WatchCovered, Same
<1>4. ASSUME NEW t \in Tasks, Turns(t) PROVE WatchCovered'
  <2>1. /\ \A u \in Tasks \ {t} : task'[u] = task[u]
        /\ task[t].pc # "refresh" /\ job' = job
    BY <1>4 DEF Turns, TypeOK
  <2> QED
    BY <2>1 DEF WatchCovered
<1>5. CASE OperatingSystem
  <2>1. job' = job /\ task' = task
    BY <1>5 DEF OperatingSystem, ProcessDies, ProcessForks, GroupProgresses,
                NumberReused, Tick
  <2> QED
    BY <2>1 DEF WatchCovered
<1>6. CASE UNCHANGED vars
  BY <1>6 DEF vars, WatchCovered
<1> QED
  BY <1>1, <1>2, <1>3, <1>4, <1>5, <1>6, NextCases

\* A job whose launcher has exited while its group lives on is never lost sight
\* of, however many stops, refreshes and sweeps run beside each other.
THEOREM WatchNeverLost == Spec => []WatchCovered
<1>1. Init => TypeOK /\ WatchCovered
  BY InitType, WatchInit
<1>2. TypeOK /\ WatchCovered /\ [Next]_vars => TypeOK' /\ WatchCovered'
  BY NextType, WatchNext
<1> QED
  BY <1>1, <1>2, PTL DEF Spec

-----------------------------------------------------------------------------
(* Records, and the activations that work on them *)

Consistent == RecordsConsistent /\ TasksConsistent

LEMMA ConsistentInit == ASSUME Init PROVE Consistent
<1>1. RecordsConsistent
  BY DEF Init, RecordsConsistent, NoRecord, NoGroup, Final
<1>2. TasksConsistent
  BY DEF Init, TasksConsistent, IdleTask, ScanPcs, PausePcs, StopPcs
<1> QED
  BY <1>1, <1>2 DEF Consistent

\* 'gone' is believed only of a job whose launcher has exited.
LEMMA GoneMeansExited ==
    ASSUME TypeOK, Consistent, NEW t \in Tasks, NEW j \in Jobs, Found(t, j, "gone")
    PROVE  /\ job[j].state # "absent"
           /\ job[j].launcherExited \/ job[j].state = "failed"
<1>1. Working(t, j) /\ task[t].pc \in ScanPcs /\ "gone" \in Inspected(task[t])
      /\ task[t].job = j
  BY DEF Found, Working
<1>2. job[j].state # "absent"
  BY <1>1 DEF Consistent, TasksConsistent, Working
<1>3. CASE task[t].skip
  BY <1>1, <1>2, <1>3 DEF Consistent, TasksConsistent, RecordsConsistent
<1>4. CASE ~task[t].skip
  BY <1>1, <1>2, <1>4 DEF Inspected
<1> QED
  BY <1>2, <1>3, <1>4

LEMMA ConsistentEffect ==
    ASSUME TypeOK, Consistent, NEW t \in Tasks, NEW j \in Jobs, Effect(t, j)
    PROVE  Consistent'
<1>1. PICK n, tk :
          /\ Step(t, j, n, tk) /\ RecordEffect(t, j, n) /\ TaskEffect(t, j, n, tk)
          /\ WorldEffect(t, j, n)
  BY DEF Effect
<1>2. /\ job'[j] = n /\ \A k \in Jobs \ {j} : job'[k] = job[k]
      /\ task'[t] = tk /\ \A u \in Tasks \ {t} : task'[u] = task[u]
  BY <1>1, EffectFrame
<1>3. \A k \in Jobs : os'[k].live = os[k].live
  BY <1>1, EffectLive
<1>4. Found(t, j, "gone") => /\ job[j].state # "absent"
                             /\ job[j].launcherExited \/ job[j].state = "failed"
  BY GoneMeansExited
<1>5. /\ n.state = "absent" => job[j].state = "absent"
      /\ n.state = "running" => job[j].state = "running"
      /\ n.state = "failed" <=> job[j].state = "failed"
  BY <1>1 DEF RecordEffect, Final
<1>6. RecordsConsistent'
  <2>1. \A k \in Jobs \ {j} : k \in registry => k \in registry'
    BY <1>1 DEF WorldEffect
  <2>2. job'[j].state = "absent" => ~n.launcherExited /\ ~n.ownershipReleased
    BY <1>1, <1>2, <1>4, <1>5 DEF RecordEffect, Consistent, RecordsConsistent
  <2>3. job'[j].state = "running" => j \in registry'
    BY <1>1, <1>2, <1>5 DEF WorldEffect, Consistent, RecordsConsistent
  <2>4. job'[j].state \in Final => n.ownershipReleased
    BY <1>1, <1>2 DEF RecordEffect, Consistent, RecordsConsistent
  <2>5. job'[j].state # "running" => ~n.hardTimer /\ ~n.groupWatchTimer
    BY <1>1, <1>2 DEF RecordEffect, Consistent, RecordsConsistent
  <2>6. n.ownershipReleased => n.launcherExited \/ n.state = "failed"
    BY <1>1, <1>4, <1>5 DEF RecordEffect, Consistent, RecordsConsistent
  <2>7. ASSUME NEW k \in Jobs
        PROVE  LET r == job'[k] IN
               /\ r.state = "absent" => /\ ~r.launcherExited /\ ~r.ownershipReleased
                                        /\ os'[k].live = {}
               /\ r.state = "running" => k \in registry'
               /\ r.state \in Final => r.ownershipReleased
               /\ r.state # "running" => ~r.hardTimer /\ ~r.groupWatchTimer
               /\ r.ownershipReleased => r.launcherExited \/ r.state = "failed"
    <3>1. CASE k = j
      BY <1>2, <1>3, <1>5, <2>2, <2>3, <2>4, <2>5, <2>6, <3>1
      DEF Consistent, RecordsConsistent
    <3>2. CASE k # j
      BY <1>2, <1>3, <2>1, <3>2 DEF Consistent, RecordsConsistent
    <3> QED
      BY <3>1, <3>2
  <2> QED
    BY <2>7 DEF RecordsConsistent
<1>7. TasksConsistent'
  <2>1. SUFFICES ASSUME NEW u \in Tasks
                 PROVE  /\ task'[u].pc \notin {"idle", "loop"} =>
                               job'[task'[u].job].state # "absent"
                        /\ task'[u].pc \in ScanPcs /\ task'[u].skip =>
                               job'[task'[u].job].ownershipReleased
    BY DEF TasksConsistent
  <2>2. CASE u = t
    <3>1. tk.pc \notin {"idle", "loop"} => tk.job = j /\ job[j].state # "absent"
      BY <1>1 DEF TaskEffect, Consistent, TasksConsistent, Working
    <3>2. tk.pc \in ScanPcs => tk.pc \notin {"idle", "loop"}
      BY DEF ScanPcs, PausePcs, StopPcs
    <3> QED
      BY <1>1, <1>2, <1>5, <2>2, <3>1, <3>2 DEF TaskEffect
  <2>3. CASE u # t
    <3>1. task'[u] = task[u]
      BY <1>2, <2>3
    <3>2. task[u].pc \in ScanPcs => task[u].pc \notin {"idle", "loop"}
      BY DEF ScanPcs, PausePcs, StopPcs
    <3>3. task[u].pc \notin {"idle", "loop"} => task[u].job \in Jobs
      BY DEF TypeOK
    <3>4. \A k \in Jobs : /\ job'[k].state = "absent" => job[k].state = "absent"
                          /\ job[k].ownershipReleased => job'[k].ownershipReleased
      BY <1>1, <1>2, <1>5 DEF RecordEffect
    <3> QED
      BY <3>1, <3>2, <3>3, <3>4 DEF Consistent, TasksConsistent
  <2> QED
    BY <2>2, <2>3
<1> QED
  BY <1>6, <1>7 DEF Consistent

\* Steps that leave the records' fields and the tasks' scans as they are.
LEMMA ConsistentFrame ==
    ASSUME TypeOK, Consistent,
           \A k \in Jobs : Same(job'[k], job[k]),
           \A k \in Jobs : job[k].state = "absent" => os'[k].live = os[k].live,
           \A u \in Tasks : task'[u] = task[u] \/ task'[u].pc \in {"idle", "loop"},
           \A k \in Jobs : k \in registry /\ job[k].state = "running" => k \in registry'
    PROVE  Consistent'
<1>1. RecordsConsistent'
  BY DEF Consistent, RecordsConsistent, Same
<1>2. TasksConsistent'
  <2>1. SUFFICES ASSUME NEW u \in Tasks, task'[u] = task[u]
                 PROVE  /\ task'[u].pc \notin {"idle", "loop"} =>
                               job'[task'[u].job].state # "absent"
                        /\ task'[u].pc \in ScanPcs /\ task'[u].skip =>
                               job'[task'[u].job].ownershipReleased
    BY DEF TasksConsistent, ScanPcs, PausePcs, StopPcs
  <2>2. task[u].pc \in ScanPcs => task[u].pc \notin {"idle", "loop"}
    BY DEF ScanPcs, PausePcs, StopPcs
  <2> QED
    BY <2>1, <2>2 DEF Consistent, TasksConsistent, TypeOK, Same
<1> QED
  BY <1>1, <1>2 DEF Consistent

LEMMA ConsistentExecutes ==
    ASSUME TypeOK, Consistent, Executes
    PROVE  Consistent'
<1>1. PICK t \in Tasks, j \in Jobs :
          /\ job[j].state = "absent"
          /\ ~job'[j].launcherExited /\ ~job'[j].groupWatchTimer
          /\ \/ /\ job'[j].state = "running" /\ ~job'[j].ownershipReleased
                /\ os' = [os EXCEPT ![j].live = {Launcher}]
             \/ /\ job'[j].state = "failed" /\ job'[j].ownershipReleased
                /\ ~job'[j].hardTimer /\ os' = os
          /\ \A k \in Jobs \ {j} : job'[k] = job[k]
          /\ task[t].pc = "idle" /\ task'[t].pc \in {"idle", "waiting"}
          /\ task'[t].pc = "waiting" => task'[t].job = j
          /\ \A u \in Tasks \ {t} : task'[u] = task[u]
          /\ j \in registry'
          /\ \A k \in registry : job[k].state = "running" => k \in registry'
  BY ExecuteFrame DEF Executes
<1>2. \A k \in Jobs \ {j} : os'[k].live = os[k].live
  BY <1>1 DEF TypeOK
<1>3. RecordsConsistent'
  BY <1>1, <1>2 DEF Consistent, RecordsConsistent, Final
<1>4. TasksConsistent'
  <2>1. \A u \in Tasks \ {t} : task[u].pc \notin {"idle", "loop"} =>
            task[u].job \in Jobs \ {j}
    BY <1>1 DEF TypeOK, Consistent, TasksConsistent
  <2>2. \A u \in Tasks : task[u].pc \in ScanPcs => task[u].pc \notin {"idle", "loop"}
    BY DEF ScanPcs, PausePcs, StopPcs
  <2>3. task'[t].pc \notin ScanPcs /\ job'[j].state # "absent"
    BY <1>1 DEF ScanPcs, PausePcs, StopPcs
  <2> QED
    BY <1>1, <2>1, <2>2, <2>3 DEF Consistent, TasksConsistent
<1> QED
  BY <1>3, <1>4 DEF Consistent

LEMMA ConsistentNext ==
    ASSUME TypeOK, Consistent, [Next]_vars
    PROVE  Consistent'
<1>0. \A k \in Jobs : Same(job[k], job[k])
  BY DEF Same
<1>1. ASSUME NEW t \in Tasks, NEW j \in Jobs, Effect(t, j) PROVE Consistent'
  BY <1>1, ConsistentEffect
<1>2. ASSUME NEW j \in Jobs, Observed(j) PROVE Consistent'
  BY <1>2, ObservedFrame, ConsistentFrame
<1>3. ASSUME NEW t \in Tasks, Turns(t) PROVE Consistent'
  <2>1. \A u \in Tasks : task'[u] = task[u] \/ task'[u].pc \in {"idle", "loop"}
    BY <1>3 DEF Turns, TypeOK
  <2> QED
    BY <1>0, <1>3, <2>1, ConsistentFrame DEF Turns
<1>4. CASE OperatingSystem
  <2>1. UNCHANGED <<registry, job, task>>
    BY <1>4 DEF OperatingSystem, ProcessDies, ProcessForks, GroupProgresses,
                NumberReused, Tick
  <2>2. ASSUME NEW k \in Jobs, job[k].state = "absent" PROVE os'[k].live = os[k].live
    <3>1. os[k].live = {} /\ ~job[k].launcherExited
      BY <2>2 DEF Consistent, RecordsConsistent
    <3> QED
      BY <1>4, <3>1 DEF OperatingSystem, ProcessDies, ProcessForks, GroupProgresses,
                        NumberReused, NoSuchGroup, Tick, TypeOK, GroupRecord
  <2> QED
    BY <1>0, <2>1, <2>2, ConsistentFrame
<1>5. CASE UNCHANGED vars
  BY <1>0, <1>5, ConsistentFrame DEF vars
<1> QED
  BY <1>1, <1>2, <1>3, <1>4, <1>5, ConsistentExecutes, NextCases

LEMMA AlwaysConsistent == Spec => [](TypeOK /\ Consistent)
<1>1. Init => TypeOK /\ Consistent
  BY InitType, ConsistentInit
<1>2. TypeOK /\ Consistent /\ [Next]_vars => TypeOK' /\ Consistent'
  BY NextType, ConsistentNext
<1> QED
  BY <1>1, <1>2, PTL DEF Spec

\* Every final result has released the process group and, unless the launcher
\* was never spawned, carries the launcher's exit status.
THEOREM FinalResultsComplete == Spec => []FinalHasExitStatus
<1>1. TypeOK /\ Consistent => FinalHasExitStatus
  BY DEF Consistent, RecordsConsistent, FinalHasExitStatus, Final
<1> QED
  BY <1>1, AlwaysConsistent, PTL

\* The first final state of a job stands, and its group is given up for good: no
\* stop, refresh or sweep that still runs changes either, whatever the operating
\* system does meanwhile (three stops of one job may all find its group gone).
ResultsStand ==
    \A j \in Jobs :
        /\ job[j].state \in Final => job'[j].state = job[j].state
        /\ job[j].ownershipReleased => job'[j].ownershipReleased

LEMMA StandNext ==
    ASSUME TypeOK, Consistent, [Next]_vars PROVE ResultsStand
<1>1. ASSUME NEW t \in Tasks, NEW j \in Jobs, Effect(t, j) PROVE ResultsStand
  <2>1. PICK n, tk : Step(t, j, n, tk) /\ RecordEffect(t, j, n)
    BY <1>1 DEF Effect
  <2>2. job'[j] = n /\ \A k \in Jobs \ {j} : job'[k] = job[k]
    BY <2>1, EffectFrame
  <2> QED
    BY <2>1, <2>2 DEF RecordEffect, ResultsStand, Final
<1>2. CASE Executes
  <2>1. PICK j \in Jobs : /\ job[j].state = "absent"
                         /\ \A k \in Jobs \ {j} : job'[k] = job[k]
    BY <1>2, ExecuteFrame DEF Executes
  <2>2. ~job[j].ownershipReleased
    BY <2>1 DEF Consistent, RecordsConsistent
  <2> QED
    BY <2>1, <2>2 DEF ResultsStand, Final
<1>3. CASE \E j \in Jobs : Observed(j)
  BY <1>3, ObservedFrame DEF Same, ResultsStand
<1>4. CASE (\E t \in Tasks : Turns(t)) \/ OperatingSystem \/ UNCHANGED vars
  <2>1. job' = job
    BY <1>4 DEF Turns, vars, OperatingSystem, ProcessDies, ProcessForks, GroupProgresses,
                NumberReused, Tick
  <2> QED
    BY <2>1 DEF ResultsStand
<1> QED
  BY <1>1, <1>2, <1>3, <1>4, NextCases

\* A reported result is never revised, without any assumption on the system.
THEOREM Results_Stand == Spec => [][ResultsStand]_vars
<1>1. TypeOK /\ Consistent /\ [Next]_vars => [ResultsStand]_vars
  BY StandNext
<1> QED
  BY <1>1, AlwaysConsistent, PTL DEF Spec

\* No timer outlives its job.
THEOREM TimersEnd == Spec => []FinalHasNoTimers
<1>1. TypeOK /\ Consistent => FinalHasNoTimers
  BY DEF Consistent, RecordsConsistent, FinalHasNoTimers
<1> QED
  BY <1>1, AlwaysConsistent, PTL

-----------------------------------------------------------------------------
(* Ownership: while no member forks during a scan, a released group is gone. *)
(* A scan that has not been decided has listed every member that lives.      *)

LEMMA ScansInit == ASSUME Init PROVE ScansComplete
  BY DEF Init, ScansComplete, ReleasedMeansGone, NoRecord, IdleTask, ScanPcs, PausePcs, StopPcs

LEMMA ScansEffect ==
    ASSUME TypeOK, Consistent, ScansComplete, NEW t \in Tasks, NEW j \in Jobs, Effect(t, j)
    PROVE  ScansComplete'
<1>1. PICK n, tk :
          /\ Step(t, j, n, tk) /\ RecordEffect(t, j, n) /\ TaskEffect(t, j, n, tk)
          /\ WorldEffect(t, j, n)
  BY DEF Effect
<1>2. /\ job'[j] = n /\ \A k \in Jobs \ {j} : job'[k] = job[k]
      /\ task'[t] = tk /\ \A u \in Tasks \ {t} : task'[u] = task[u]
  BY <1>1, EffectFrame
<1>3. \A k \in Jobs : Own(k)' = Own(k) /\ os'[k].live = os[k].live
  BY <1>1, EffectLive DEF Own
<1>4. ReleasedMeansGone'
  <2>1. ASSUME n.ownershipReleased PROVE Own(j) = {}
    <3>1. CASE job[j].ownershipReleased
      BY <3>1 DEF ScansComplete, ReleasedMeansGone
    <3>2. CASE Found(t, j, "gone") /\ ~job[j].ownershipReleased
      <4>1. task[t].pc \in ScanPcs /\ task[t].job = j /\ "gone" \in Inspected(task[t])
        BY <3>2 DEF Found, Working
      <4>2. ~task[t].skip
        BY <3>2, <4>1 DEF Consistent, TasksConsistent
      <4>3. task[t].listed \cap os[j].live = {}
        BY <4>1, <4>2 DEF Inspected
      <4>4. Own(j) \subseteq task[t].listed
        BY <4>1, <4>2 DEF ScansComplete
      <4> QED
        BY <4>3, <4>4 DEF Own
    <3> QED
      BY <1>1, <2>1, <3>1, <3>2 DEF RecordEffect
  <2>2. ASSUME NEW k \in Jobs, job'[k].ownershipReleased PROVE Own(k)' = {}
    <3>1. CASE k = j
      BY <1>2, <1>3, <2>1, <2>2, <3>1
    <3>2. CASE k # j
      BY <1>2, <1>3, <2>2, <3>2 DEF ScansComplete, ReleasedMeansGone
    <3> QED
      BY <3>1, <3>2
  <2> QED
    BY <2>2 DEF ReleasedMeansGone
<1>5. ASSUME NEW u \in Tasks, task'[u].pc \in ScanPcs, ~task'[u].skip
      PROVE  os'[task'[u].job].live \ {Foreign} \subseteq task'[u].listed
  <2>0. task'[u].pc \notin {"idle", "loop"}
    BY <1>5 DEF ScanPcs, PausePcs, StopPcs
  <2>1. CASE u = t
    BY <1>1, <1>2, <1>3, <1>5, <2>0, <2>1 DEF TaskEffect, Own
  <2>2. CASE u # t
    <3>1. task'[u] = task[u] /\ task[u].job \in Jobs
      BY <1>2, <2>0, <2>2 DEF TypeOK
    <3>2. Own(task[u].job) \subseteq task[u].listed
      BY <1>5, <3>1 DEF ScansComplete
    <3>3. os'[task'[u].job].live = os[task[u].job].live
      BY <1>3, <3>1
    <3> QED
      BY <3>1, <3>2, <3>3 DEF Own
  <2> QED
    BY <2>1, <2>2
<1> QED
  BY <1>4, <1>5 DEF ScansComplete, Own

\* Groups that only shrink, seen by scans that only end.
LEMMA ScansFrame ==
    ASSUME TypeOK, ScansComplete,
           \A k \in Jobs : job'[k].ownershipReleased = job[k].ownershipReleased,
           \A k \in Jobs : os'[k].live \subseteq os[k].live \cup {Foreign},
           \A u \in Tasks : task'[u] = task[u] \/ task'[u].pc \in {"idle", "loop"}
    PROVE  ScansComplete'
<1>1. \A k \in Jobs : Own(k)' \subseteq Own(k)
  BY DEF Own
<1>2. ReleasedMeansGone'
  BY <1>1 DEF ScansComplete, ReleasedMeansGone
<1>3. ASSUME NEW u \in Tasks, task'[u].pc \in ScanPcs, ~task'[u].skip
      PROVE  os'[task'[u].job].live \ {Foreign} \subseteq task'[u].listed
  <2>1. task'[u] = task[u] /\ task[u].job \in Jobs
    BY <1>3 DEF TypeOK, ScanPcs, PausePcs, StopPcs
  <2>2. Own(task[u].job) \subseteq task[u].listed
    BY <1>3, <2>1 DEF ScansComplete
  <2>3. os'[task'[u].job].live \subseteq os[task[u].job].live \cup {Foreign}
    BY <2>1
  <2> QED
    BY <2>1, <2>2, <2>3 DEF Own
<1> QED
  BY <1>2, <1>3 DEF ScansComplete, Own

LEMMA ScansNext ==
    ASSUME "forkInScan" \notin Env, TypeOK, Consistent, ScansComplete, [Next]_vars
    PROVE  ScansComplete'
<1>1. ASSUME NEW t \in Tasks, NEW j \in Jobs, Effect(t, j) PROVE ScansComplete'
  BY <1>1, ScansEffect
<1>2. CASE Executes
  <2>1. PICK t \in Tasks, j \in Jobs :
            /\ job[j].state = "absent"
            /\ \/ ~job'[j].ownershipReleased /\ os' = [os EXCEPT ![j].live = {Launcher}]
               \/ os' = os
            /\ \A k \in Jobs \ {j} : job'[k] = job[k]
            /\ task'[t].pc \in {"idle", "waiting"}
            /\ \A u \in Tasks \ {t} : task'[u] = task[u]
    BY <1>2, ExecuteFrame DEF Executes
  <2>2. \A k \in Jobs \ {j} : os'[k].live = os[k].live
    BY <2>1 DEF TypeOK
  <2>3. os[j].live = {}
    BY <2>1 DEF Consistent, RecordsConsistent
  <2>4. ReleasedMeansGone'
    BY <2>1, <2>2, <2>3 DEF ReleasedMeansGone, ScansComplete, Own
  <2>5. ASSUME NEW u \in Tasks, task'[u].pc \in ScanPcs, ~task'[u].skip
        PROVE  os'[task'[u].job].live \ {Foreign} \subseteq task'[u].listed
    <3>1. task'[u] = task[u] /\ task[u].pc \notin {"idle", "loop"}
      BY <2>1, <2>5 DEF ScanPcs, PausePcs, StopPcs
    <3>2. task[u].job \in Jobs \ {j}
      BY <2>1, <3>1 DEF TypeOK, Consistent, TasksConsistent
    <3>3. os'[task'[u].job].live = os[task[u].job].live
      BY <2>2, <3>1, <3>2
    <3> QED
      BY <2>5, <3>1, <3>3 DEF ScansComplete, Own
  <2> QED
    BY <2>4, <2>5 DEF ScansComplete, Own
<1>3. ASSUME NEW j \in Jobs, Observed(j) PROVE ScansComplete'
  BY <1>3, ObservedFrame, ScansFrame DEF Same
<1>4. ASSUME NEW t \in Tasks, Turns(t) PROVE ScansComplete'
  <2>1. \A u \in Tasks : task'[u] = task[u] \/ task'[u].pc \in {"idle", "loop"}
    BY <1>4 DEF Turns, TypeOK
  <2> QED
    BY <1>4, <2>1, ScansFrame DEF Turns
<1>5. ASSUME NEW j \in Jobs, NEW k \in Kids, ProcessForks(j, k) PROVE ScansComplete'
  <2>1. /\ Own(j) # {} /\ ~Scanning(j) /\ UNCHANGED <<job, task>>
        /\ \A i \in Jobs \ {j} : os'[i].live = os[i].live
    BY <1>5 DEF ProcessForks, Own, TypeOK
  <2>2. ~job[j].ownershipReleased
    BY <2>1 DEF ScansComplete, ReleasedMeansGone
  <2>3. ReleasedMeansGone'
    BY <2>1, <2>2 DEF ScansComplete, ReleasedMeansGone, Own
  <2>4. ASSUME NEW u \in Tasks, task'[u].pc \in ScanPcs, ~task'[u].skip
        PROVE  os'[task'[u].job].live \ {Foreign} \subseteq task'[u].listed
    <3>1. task[u].pc \in ScanPcs /\ ~task[u].skip /\ task'[u] = task[u]
      BY <2>1, <2>4
    <3>2. task[u].job \in Jobs \ {j}
      BY <2>1, <3>1 DEF TypeOK, Scanning, ScanPcs, PausePcs, StopPcs
    <3>3. os'[task'[u].job].live = os[task[u].job].live
      BY <2>1, <3>1, <3>2
    <3> QED
      BY <3>1, <3>3 DEF ScansComplete, Own
  <2> QED
    BY <2>3, <2>4 DEF ScansComplete, Own
<1>6. ASSUME OperatingSystem, ~\E j \in Jobs, k \in Kids : ProcessForks(j, k)
      PROVE  ScansComplete'
  <2>1. /\ UNCHANGED <<job, task>>
        /\ \A k \in Jobs : os'[k].live \subseteq os[k].live \cup {Foreign}
    BY <1>6 DEF OperatingSystem, ProcessDies, GroupProgresses, NumberReused, Tick,
                TypeOK, GroupRecord
  <2> QED
    BY <2>1, ScansFrame
<1>7. CASE UNCHANGED vars
  BY <1>7, ScansFrame DEF vars
<1> QED
  BY <1>1, <1>2, <1>3, <1>4, <1>5, <1>6, <1>7, NextCases

\* As long as no member forks while /proc is being read, a job that has given
\* up its process group has no process left in it and never gets one again.
THEOREM ReleasedGroupsAreGone ==
    ASSUME "forkInScan" \notin Env
    PROVE  Spec => []ReleasedMeansGone
<1>1. Init => ScansComplete
  BY ScansInit
<1>2. (TypeOK /\ Consistent) /\ ScansComplete /\ [Next]_vars => ScansComplete'
  BY ScansNext
<1>3. ScansComplete => ReleasedMeansGone
  BY DEF ScansComplete
<1> QED
  BY <1>1, <1>2, <1>3, AlwaysConsistent, PTL DEF Spec

-----------------------------------------------------------------------------
(* Signals: while no number is reused under a scan, no signal goes astray.   *)
(* A number that was reused belongs to a released job nobody is scanning.    *)

LEMMA ReuseInit == ASSUME Init PROVE ReuseUnseen
  BY DEF Init, ReuseUnseen, NoForeignSignal, NoGroup

\* A step of one activation starts no scan of a group that was given up.
LEMMA ReuseEffect ==
    ASSUME TypeOK, Consistent, ReuseUnseen, NEW t \in Tasks, NEW j \in Jobs, Effect(t, j)
    PROVE  ReuseUnseen'
<1>1. PICK n, tk :
          /\ Step(t, j, n, tk) /\ RecordEffect(t, j, n) /\ TaskEffect(t, j, n, tk)
          /\ WorldEffect(t, j, n)
  BY DEF Effect
<1>2. /\ job'[j] = n /\ \A k \in Jobs \ {j} : job'[k] = job[k]
      /\ task'[t] = tk /\ \A u \in Tasks \ {t} : task'[u] = task[u]
  BY <1>1, EffectFrame
<1>3. \A k \in Jobs : os'[k].live = os[k].live
  BY <1>1, EffectLive
<1>4. NoForeignSignal'
  <2>1. CASE os' = os
    BY <2>1 DEF ReuseUnseen, NoForeignSignal
  <2>2. CASE os' = [os EXCEPT ![j] = Signalled(@, task[t].pc)] /\ Found(t, j, "alive")
    <3>1. task[t].pc \in ScanPcs /\ task[t].job = j /\ ~task[t].skip
      BY <2>2 DEF Found, Working, Inspected
    <3>2. Foreign \notin os[j].live
      BY <3>1 DEF ReuseUnseen, Scanning
    <3>3. os[j] \in GroupRecord /\ ~os[j].hit
      BY DEF TypeOK, ReuseUnseen, NoForeignSignal
    <3>4. ~Signalled(os[j], task[t].pc).hit
      BY <3>2, <3>3 DEF Signalled, GroupRecord
    <3>5. \A k \in Jobs : ~os'[k].hit
      BY <2>2, <3>4 DEF TypeOK, ReuseUnseen, NoForeignSignal
    <3> QED
      BY <3>5 DEF NoForeignSignal
  <2> QED
    BY <1>1, <2>1, <2>2 DEF WorldEffect
<1>5. ASSUME NEW k \in Jobs, Foreign \in os'[k].live
      PROVE  job'[k].ownershipReleased
  BY <1>1, <1>2, <1>3, <1>5 DEF ReuseUnseen, RecordEffect
<1>6. ASSUME NEW k \in Jobs, Foreign \in os'[k].live,
             NEW u \in Tasks, task'[u].pc \in ScanPcs, task'[u].job = k
      PROVE  task'[u].skip
  <2>0. task'[u].pc \notin {"idle", "loop"}
    BY <1>6 DEF ScanPcs, PausePcs, StopPcs
  <2>1. CASE u = t
    <3>1. k = j /\ tk.skip = n.ownershipReleased
      BY <1>1, <1>2, <1>6, <2>0, <2>1 DEF TaskEffect
    <3> QED
      BY <1>2, <1>5, <1>6, <2>1, <3>1
  <2>2. CASE u # t
    BY <1>2, <1>3, <1>6, <2>2 DEF ReuseUnseen, Scanning
  <2> QED
    BY <2>1, <2>2
<1> QED
  BY <1>4, <1>5, <1>6 DEF ReuseUnseen, Scanning

\* Steps after which no more groups are reused, signalled or scanned.
LEMMA ReuseFrame ==
    ASSUME TypeOK, ReuseUnseen,
           \A k \in Jobs : job'[k].ownershipReleased = job[k].ownershipReleased,
           \A k \in Jobs : os'[k].hit = os[k].hit,
           \A k \in Jobs : Foreign \in os'[k].live =>
               \/ Foreign \in os[k].live
               \/ job[k].ownershipReleased /\ ~Scanning(k),
           \A u \in Tasks : task'[u] = task[u] \/ task'[u].pc \in {"idle", "loop"}
    PROVE  ReuseUnseen'
<1>1. NoForeignSignal'
  BY DEF ReuseUnseen, NoForeignSignal
<1>2. \A k \in Jobs : ~Scanning(k) => ~Scanning(k)'
  BY DEF Scanning, ScanPcs, PausePcs, StopPcs
<1> QED
  BY <1>1, <1>2 DEF ReuseUnseen

LEMMA ReuseNext ==
    ASSUME "reuseInScan" \notin Env, "reuseUnseen" \notin Env,
           TypeOK, Consistent, ReuseUnseen, [Next]_vars
    PROVE  ReuseUnseen'
<1>1. ASSUME NEW t \in Tasks, NEW j \in Jobs, Effect(t, j) PROVE ReuseUnseen'
  BY <1>1, ReuseEffect
<1>2. CASE Executes
  <2>1. PICK t \in Tasks, j \in Jobs :
            /\ job[j].state = "absent"
            /\ os' = os \/ os' = [os EXCEPT ![j].live = {Launcher}]
            /\ \A k \in Jobs \ {j} : job'[k] = job[k]
            /\ task'[t].pc \in {"idle", "waiting"}
            /\ \A u \in Tasks \ {t} : task'[u] = task[u]
    BY <1>2, ExecuteFrame DEF Executes
  <2>2. os[j].live = {} /\ Foreign # Launcher
    BY <2>1 DEF Consistent, RecordsConsistent, Foreign, Launcher
  <2>3. /\ \A k \in Jobs : os'[k].hit = os[k].hit
        /\ Foreign \notin os'[j].live
        /\ \A k \in Jobs \ {j} : os'[k].live = os[k].live
    BY <2>1, <2>2 DEF TypeOK, GroupRecord
  <2>4. \A k \in Jobs \ {j} : ~Scanning(k) => ~Scanning(k)'
    BY <2>1 DEF Scanning, ScanPcs, PausePcs, StopPcs
  <2> QED
    BY <2>1, <2>3, <2>4 DEF ReuseUnseen, NoForeignSignal
<1>3. ASSUME NEW j \in Jobs, Observed(j) PROVE ReuseUnseen'
  BY <1>3, ObservedFrame, ReuseFrame DEF Same
<1>4. ASSUME NEW t \in Tasks, Turns(t) PROVE ReuseUnseen'
  <2>1. \A u \in Tasks : task'[u] = task[u] \/ task'[u].pc \in {"idle", "loop"}
    BY <1>4 DEF Turns, TypeOK
  <2> QED
    BY <1>4, <2>1, ReuseFrame DEF Turns
<1>5. CASE OperatingSystem
  <2> DEFINE Harmless ==
        /\ UNCHANGED <<job, task>>
        /\ \A k \in Jobs : os'[k].hit = os[k].hit
        /\ \A k \in Jobs : Foreign \in os'[k].live =>
               \/ Foreign \in os[k].live
               \/ job[k].ownershipReleased /\ ~Scanning(k)
  <2>1. ASSUME NEW j \in Jobs, NEW p \in Processes, ProcessDies(j, p) PROVE Harmless
    BY <2>1 DEF ProcessDies, TypeOK, GroupRecord
  <2>2. ASSUME NEW j \in Jobs, NEW k \in Kids, ProcessForks(j, k) PROVE Harmless
    <3>1. k # Foreign
      BY ConstantsAssumption
    <3> QED
      BY <2>2, <3>1 DEF ProcessForks, TypeOK, GroupRecord
  <2>3. ASSUME NEW j \in Jobs, GroupProgresses(j) PROVE Harmless
    BY <2>3 DEF GroupProgresses, TypeOK, GroupRecord
  <2>4. ASSUME NEW j \in Jobs, NumberReused(j) PROVE Harmless
    BY <2>4 DEF NumberReused, TypeOK, GroupRecord
  <2>5. ASSUME Tick PROVE Harmless
    BY <2>5 DEF Tick
  <2>6. Harmless
    BY <1>5, <2>1, <2>2, <2>3, <2>4, <2>5 DEF OperatingSystem
  <2> QED
    BY <2>6, ReuseFrame
<1>6. CASE UNCHANGED vars
  BY <1>6, ReuseFrame DEF vars
<1> QED
  BY <1>1, <1>2, <1>3, <1>4, <1>5, <1>6, NextCases

\* As long as the kernel reuses no number while a scan of it is suspended or
\* before a scan has found the group gone, the registry signals no process
\* group but its own.
THEOREM SignalsStayHome ==
    ASSUME "reuseInScan" \notin Env, "reuseUnseen" \notin Env
    PROVE  Spec => []NoForeignSignal
<1>1. Init => ReuseUnseen
  BY ReuseInit
<1>2. (TypeOK /\ Consistent) /\ ReuseUnseen /\ [Next]_vars => ReuseUnseen'
  BY ReuseNext
<1>3. ReuseUnseen => NoForeignSignal
  BY DEF ReuseUnseen
<1> QED
  BY <1>1, <1>2, <1>3, AlwaysConsistent, PTL DEF Spec

-----------------------------------------------------------------------------
(* The registry's bound *)

Bounded == IsFiniteSet(registry) /\ Cardinality(registry) <= MaxJobs

LEMMA BoundedNext ==
    ASSUME TypeOK, Bounded, [Next]_vars
    PROVE  Bounded'
<1>1. ASSUME registry' \subseteq registry PROVE Bounded'
  <2>1. /\ IsFiniteSet(registry') /\ Cardinality(registry') <= Cardinality(registry)
    BY <1>1, FS_Subset DEF Bounded
  <2>2. Cardinality(registry) \in Nat /\ Cardinality(registry') \in Nat /\ MaxJobs \in Nat
    BY <2>1, FS_CardinalityType, ConstantsAssumption DEF Bounded
  <2> QED
    BY <2>1, <2>2 DEF Bounded
<1>2. CASE Executes
  <2> DEFINE kept == registry \ Expired(clock)
  <2>1. PICK j \in Jobs : Cardinality(kept) < MaxJobs /\ registry' = kept \cup {j}
    BY <1>2 DEF Executes, Execute, HasRoom
  <2>2. IsFiniteSet(kept)
    BY FS_Subset DEF Bounded
  <2> HIDE DEF kept
  <2>3. /\ IsFiniteSet(registry')
        /\ Cardinality(registry') \in {Cardinality(kept), Cardinality(kept) + 1}
    BY <2>1, <2>2, FS_AddElement
  <2>4. Cardinality(kept) \in Nat /\ MaxJobs \in Nat
    BY <2>2, FS_CardinalityType, ConstantsAssumption
  <2> QED
    BY <2>1, <2>3, <2>4 DEF Bounded
<1>3. ~Executes => registry' \subseteq registry
  <2>1. ASSUME NEW t \in Tasks, NEW j \in Jobs, Effect(t, j)
        PROVE  registry' \subseteq registry
    BY <2>1 DEF Effect, WorldEffect
  <2>2. ASSUME OperatingSystem PROVE registry' \subseteq registry
    BY <2>2 DEF OperatingSystem, ProcessDies, ProcessForks, GroupProgresses,
                NumberReused, Tick
  <2>3. ASSUME UNCHANGED vars PROVE registry' \subseteq registry
    BY <2>3 DEF vars
  <2> QED
    BY <2>1, <2>2, <2>3, NextCases DEF Observed, Turns
<1> QED
  BY <1>1, <1>2, <1>3

\* A running job can always be looked up and stopped, and the registry never
\* holds more than maxJobs records.
THEOREM RegistryBounded == Spec => []RegistryKeepsRunning
<1>1. Init => Bounded
  BY FS_EmptySet, ConstantsAssumption DEF Init, Bounded
<1>2. (TypeOK /\ Consistent) /\ Bounded /\ [Next]_vars => Bounded'
  BY BoundedNext
<1>3. (TypeOK /\ Consistent) /\ Bounded => RegistryKeepsRunning
  BY DEF Consistent, RecordsConsistent, Bounded, RegistryKeepsRunning
<1> QED
  BY <1>1, <1>2, <1>3, AlwaysConsistent, PTL DEF Spec

-----------------------------------------------------------------------------
(* The whole inductive invariant *)

\* While no member forks during a scan and no number is reused under one, the
\* invariant that all of the above rests on holds in every reachable state.
THEOREM InvariantHolds ==
    ASSUME "forkInScan" \notin Env, "reuseInScan" \notin Env, "reuseUnseen" \notin Env
    PROVE  Spec => []InductiveInv
<1>1. Init => ScansComplete /\ ReuseUnseen
  BY ScansInit, ReuseInit
<1>2. (TypeOK /\ Consistent) /\ ScansComplete /\ ReuseUnseen /\ [Next]_vars
        => ScansComplete' /\ ReuseUnseen'
  BY ScansNext, ReuseNext
<1>3. (TypeOK /\ Consistent) /\ ScansComplete /\ ReuseUnseen => InductiveInv
  BY DEF Consistent, InductiveInv
<1> QED
  BY <1>1, <1>2, <1>3, AlwaysConsistent, PTL DEF Spec

-----------------------------------------------------------------------------
(* The refinement: what a step means for the life of a job                  *)

aliveOf == [j \in Jobs |-> Own(j) # {}]

LEMMA PhaseUnchanged ==
    ASSUME \A k \in Jobs : phaseOf'[k] = phaseOf[k]
    PROVE  phaseOf' = phaseOf
  BY DEF phaseOf

LEMMA AliveUnchanged ==
    ASSUME \A k \in Jobs : os'[k].live = os[k].live
    PROVE  aliveOf' = aliveOf
  BY DEF aliveOf, Own

LEMMA StutterLifecycle ==
    ASSUME phaseOf' = phaseOf, aliveOf' = aliveOf
    PROVE  UNCHANGED L!lifecycleVars
  BY DEF L!lifecycleVars, aliveOf

LEMMA ExpireLifecycle ==
    ASSUME NEW S \in SUBSET Jobs,
           \A k \in S : phaseOf[k] \in Final,
           \A k \in Jobs : phaseOf'[k] = IF k \in S THEN "expired" ELSE phaseOf[k],
           aliveOf' = aliveOf
    PROVE  L!LifecycleNext
<1>1. S \in SUBSET L!FinalRecords
  BY DEF L!FinalRecords, L!Outcomes, Final
<1>2. phaseOf' = L!Purged(S)
  BY DEF L!Purged, phaseOf
<1> QED
  BY <1>1, <1>2 DEF L!LifecycleNext, L!Expire, aliveOf

\* A step of an activation finishes a job whose processes have all ended,
\* deletes a final record, or changes nothing that a caller sees.
LEMMA EffectLifecycle ==
    ASSUME TypeOK, RecordsConsistent, ReleasedMeansGone',
           NEW t \in Tasks, NEW j \in Jobs, Effect(t, j)
    PROVE  L!LifecycleNext \/ UNCHANGED L!lifecycleVars
<1>1. PICK n, tk : Step(t, j, n, tk) /\ RecordEffect(t, j, n) /\ WorldEffect(t, j, n)
  BY DEF Effect
<1>2. job'[j] = n /\ \A k \in Jobs \ {j} : job'[k] = job[k]
  BY <1>1, EffectFrame
<1>3. \A k \in Jobs : os'[k].live = os[k].live
  BY <1>1, EffectLive
<1>4. aliveOf' = aliveOf
  BY <1>3, AliveUnchanged
<1>5. registry' = registry \/ (registry' = registry \ {j} /\ n.state # "running")
  BY <1>1 DEF WorldEffect
<1>6. \A k \in Jobs \ {j} : phaseOf'[k] = phaseOf[k]
  BY <1>2, <1>5 DEF phaseOf
<1>7. job[j].state \in JobStates
  BY DEF TypeOK, JobRecord
<1>8. CASE n.state = job[j].state
  <2>1. \/ phaseOf'[j] = phaseOf[j]
        \/ phaseOf[j] \in Final /\ phaseOf'[j] = "expired"
    BY <1>2, <1>5, <1>7, <1>8 DEF phaseOf, JobStates
  <2>2. CASE phaseOf'[j] = phaseOf[j]
    BY <1>4, <1>6, <2>2, PhaseUnchanged, StutterLifecycle
  <2>3. CASE phaseOf[j] \in Final /\ phaseOf'[j] = "expired"
    <3> DEFINE S == {j}
    <3>1. /\ S \in SUBSET Jobs /\ \A k \in S : phaseOf[k] \in Final
          /\ \A k \in Jobs : phaseOf'[k] = IF k \in S THEN "expired" ELSE phaseOf[k]
      BY <1>6, <2>3
    <3> HIDE DEF S
    <3> QED
      BY <1>4, <3>1, ExpireLifecycle
  <2> QED
    BY <2>1, <2>2, <2>3
<1>9. CASE n.state # job[j].state
  <2>1. /\ job[j].state = "running" /\ n.state \in Final \ {"failed"}
        /\ n.ownershipReleased
    BY <1>1, <1>9 DEF RecordEffect
  <2>2. phaseOf[j] = "running"
    BY <2>1 DEF RecordsConsistent, phaseOf
  <2>3. phaseOf'[j] \in {"completed", "stopped", "reaped", "expired"}
    BY <1>2, <2>1 DEF phaseOf, Final
  <2>4. ~aliveOf[j]
    BY <1>2, <1>3, <2>1 DEF ReleasedMeansGone, aliveOf, Own
  <2>5. phaseOf' = [phaseOf EXCEPT ![j] = phaseOf'[j]]
    BY <1>6 DEF phaseOf
  <2>6. L!Finish(j)
    BY <1>4, <2>2, <2>3, <2>4, <2>5 DEF L!Finish, aliveOf
  <2> QED
    BY <2>6 DEF L!LifecycleNext
<1> QED
  BY <1>8, <1>9

\* execute accepts a new job, and may purge final records to make room for it.
LEMMA ExecutesLifecycle ==
    ASSUME TypeOK, RecordsConsistent, Bounded', Executes
    PROVE  L!LifecycleNext
<1>1. PICK t \in Tasks, j \in Jobs :
        \E persistent, hard, waits, spawned \in BOOLEAN :
            Execute(t, j, persistent, hard, waits, spawned)
  BY DEF Executes
<1>2. /\ job[j].state = "absent"
      /\ \/ /\ job'[j].state = "running"
            /\ os' = [os EXCEPT ![j].live = {Launcher}]
         \/ job'[j].state = "failed" /\ os' = os
      /\ \A k \in Jobs \ {j} : job'[k] = job[k]
  BY <1>1, ExecuteFrame
<1>3. registry' = (registry \ Expired(clock)) \cup {j}
  BY <1>1 DEF Execute
<1> DEFINE S == {k \in Expired(clock) : job[k].state \in Final}
           outcome == job'[j].state
<1>4. S \in SUBSET Jobs /\ \A k \in S : phaseOf[k] \in Final /\ k # j
  BY <1>2 DEF Expired, TypeOK, phaseOf, Final
<1>5. S \in SUBSET L!FinalRecords
  BY <1>4 DEF L!FinalRecords, L!Outcomes, Final
<1>6. phaseOf[j] = "absent" /\ phaseOf'[j] = outcome
  BY <1>2, <1>3 DEF phaseOf
<1>7. \A k \in Jobs \ {j} : phaseOf'[k] = IF k \in S THEN "expired" ELSE phaseOf[k]
  <2>1. ASSUME NEW k \in Jobs \ {j}
        PROVE  phaseOf'[k] = IF k \in S THEN "expired" ELSE phaseOf[k]
    <3>1. job'[k] = job[k] /\ job[k].state \in JobStates
      BY <1>2 DEF TypeOK, JobRecord
    <3>2. k \in registry' <=> k \in registry /\ k \notin Expired(clock)
      BY <1>3
    <3>3. k \in Expired(clock) => k \in registry /\ job[k].state # "running"
      BY DEF Expired
    <3> QED
      BY <3>1, <3>2, <3>3 DEF phaseOf, JobStates, Final
  <2> QED
    BY <2>1
<1>8. phaseOf' = [L!Purged(S) EXCEPT ![j] = outcome]
  BY <1>6, <1>7 DEF phaseOf, L!Purged
<1>9. outcome \in {"running", "failed"}
  BY <1>2
<1>10. aliveOf' = [aliveOf EXCEPT ![j] = outcome = "running"]
  <2>1. CASE /\ outcome = "running" /\ os' = [os EXCEPT ![j].live = {Launcher}]
    <3>1. /\ os'[j].live = {Launcher}
          /\ \A k \in Jobs \ {j} : os'[k] = os[k]
      BY <2>1 DEF TypeOK, GroupRecord
    <3>2. Own(j)' # {}
      BY <3>1, ConstantsAssumption DEF Own, Launcher, Foreign
    <3> QED
      BY <2>1, <3>1, <3>2 DEF aliveOf, Own
  <2>2. CASE outcome = "failed" /\ os' = os
    <3>1. Own(j) = {}
      BY <1>2 DEF RecordsConsistent, Own
    <3> QED
      BY <2>2, <3>1 DEF aliveOf, Own
  <2> QED
    BY <1>2, <2>1, <2>2
<1>11. Cardinality(L!Kept(phaseOf')) <= MaxJobs
  <2>1. L!Kept(phaseOf') \subseteq registry'
    BY DEF L!Kept, phaseOf
  <2>2. /\ IsFiniteSet(L!Kept(phaseOf')) /\ IsFiniteSet(registry')
        /\ Cardinality(L!Kept(phaseOf')) <= Cardinality(registry')
    BY <2>1, FS_Subset DEF Bounded
  <2>3. /\ Cardinality(L!Kept(phaseOf')) \in Nat /\ Cardinality(registry') \in Nat
        /\ MaxJobs \in Nat
    BY <2>2, FS_CardinalityType, ConstantsAssumption
  <2> QED
    BY <2>2, <2>3 DEF Bounded
<1>12. L!Cardinality(L!Kept(phaseOf')) = Cardinality(L!Kept(phaseOf'))
  BY DEF Cardinality, L!Cardinality
<1> HIDE DEF S, outcome
<1>13. L!Accept(j)
  BY <1>5, <1>6, <1>8, <1>9, <1>10, <1>11, <1>12 DEF L!Accept, aliveOf
<1> QED
  BY <1>13 DEF L!LifecycleNext

LEMMA TurnsLifecycle ==
    ASSUME TypeOK, NEW t \in Tasks, Turns(t)
    PROVE  L!LifecycleNext
<1> DEFINE S == {k \in Jobs : k \in registry \ registry' /\ job[k].state \in Final}
<1>1. /\ job' = job /\ os' = os /\ registry' \subseteq registry
      /\ \A k \in Jobs : k \in registry /\ job[k].state = "running" => k \in registry'
  BY DEF Turns
<1>2. S \in SUBSET Jobs /\ \A k \in S : phaseOf[k] \in Final
  BY DEF phaseOf
<1>3. \A k \in Jobs : job[k].state \in JobStates
  BY DEF TypeOK, JobRecord
<1>4. \A k \in Jobs : phaseOf'[k] = IF k \in S THEN "expired" ELSE phaseOf[k]
  BY <1>1, <1>3 DEF phaseOf, JobStates, Final
<1>5. aliveOf' = aliveOf
  BY <1>1, AliveUnchanged
<1> HIDE DEF S
<1> QED
  BY <1>2, <1>4, <1>5, ExpireLifecycle

\* Of all that the operating system does, a caller may notice a group's end.
LEMMA SystemLifecycle ==
    ASSUME TypeOK, OperatingSystem
    PROVE  L!LifecycleNext \/ UNCHANGED L!lifecycleVars
<1>1. phaseOf' = phaseOf
  BY DEF OperatingSystem, ProcessDies, ProcessForks, GroupProgresses, NumberReused,
         Tick, phaseOf
<1>2. CASE \E j \in Jobs, p \in Processes : ProcessDies(j, p)
  <2>1. PICK j \in Jobs, p \in Processes : ProcessDies(j, p)
    BY <1>2
  <2>2. /\ os'[j].live = os[j].live \ {p} /\ p \in Own(j)
        /\ \A k \in Jobs \ {j} : os'[k] = os[k]
    BY <2>1 DEF ProcessDies, TypeOK, GroupRecord, Own
  <2>3. CASE Own(j)' = {}
    <3>1. aliveOf[j] /\ aliveOf' = [aliveOf EXCEPT ![j] = FALSE]
      BY <2>2, <2>3 DEF aliveOf, Own
    <3>2. L!GroupEnds(j)
      BY <1>1, <3>1 DEF L!GroupEnds, aliveOf
    <3> QED
      BY <3>2 DEF L!LifecycleNext
  <2>4. CASE Own(j)' # {}
    <3>1. aliveOf' = aliveOf
      BY <2>2, <2>4 DEF aliveOf, Own
    <3> QED
      BY <1>1, <3>1, StutterLifecycle
  <2> QED
    BY <2>3, <2>4
<1>3. CASE \E j \in Jobs : (\E k \in Kids : ProcessForks(j, k)) \/ NumberReused(j)
  <2>1. PICK j \in Jobs : (\E k \in Kids : ProcessForks(j, k)) \/ NumberReused(j)
    BY <1>3
  <2>2. \A k \in Jobs \ {j} : os'[k] = os[k]
    BY <2>1 DEF ProcessForks, NumberReused, TypeOK
  <2>3. Own(j)' # {} <=> Own(j) # {}
    <3>1. CASE \E k \in Kids : ProcessForks(j, k)
      BY <3>1 DEF ProcessForks, TypeOK, GroupRecord, Own
    <3>2. CASE NumberReused(j)
      BY <3>2 DEF NumberReused, NoSuchGroup, TypeOK, GroupRecord, Own
    <3> QED
      BY <2>1, <3>1, <3>2
  <2>4. aliveOf' = aliveOf
    BY <2>2, <2>3 DEF aliveOf, Own
  <2> QED
    BY <1>1, <2>4, StutterLifecycle
<1>4. CASE (\E j \in Jobs : GroupProgresses(j)) \/ Tick
  <2>1. \A k \in Jobs : os'[k].live = os[k].live
    BY <1>4 DEF GroupProgresses, Tick, TypeOK, GroupRecord
  <2> QED
    BY <1>1, <2>1, AliveUnchanged, StutterLifecycle
<1> QED
  BY <1>2, <1>3, <1>4 DEF OperatingSystem

LEMMA StepLifecycle ==
    ASSUME TypeOK, Consistent, ReleasedMeansGone', Bounded', [Next]_vars
    PROVE  L!LifecycleNext \/ UNCHANGED L!lifecycleVars
<1>1. ASSUME UNCHANGED vars PROVE UNCHANGED L!lifecycleVars
  <2>1. phaseOf' = phaseOf /\ aliveOf' = aliveOf
    BY <1>1 DEF vars, phaseOf, aliveOf, Own
  <2> QED
    BY <2>1, StutterLifecycle
<1>2. ASSUME NEW j \in Jobs, Observed(j) PROVE UNCHANGED L!lifecycleVars
  <2>1. (\A k \in Jobs : job'[k].state = job[k].state) /\ UNCHANGED <<registry, os>>
    BY <1>2, ObservedFrame DEF Same
  <2>2. \A k \in Jobs : phaseOf'[k] = phaseOf[k]
    BY <2>1 DEF phaseOf
  <2>3. aliveOf' = aliveOf
    BY <2>1, AliveUnchanged
  <2> QED
    BY <2>2, <2>3, PhaseUnchanged, StutterLifecycle
<1> QED
  BY <1>1, <1>2, NextCases, EffectLifecycle, ExecutesLifecycle, TurnsLifecycle,
     SystemLifecycle DEF Consistent

LEMMA InitLifecycle == ASSUME Init PROVE L!LifecycleInit
<1>1. phaseOf = [j \in Jobs |-> "absent"]
  BY DEF Init, NoRecord, phaseOf
<1>2. aliveOf = [j \in Jobs |-> FALSE]
  BY DEF Init, NoGroup, aliveOf, Own
<1> QED
  BY <1>1, <1>2 DEF L!LifecycleInit, aliveOf

\* As long as no member forks while /proc is being read, every behaviour of the
\* registry is one its callers may expect: results are final and come after the
\* last process of the group, and a record expires only when it is final.
THEOREM RegistryImplementsLifecycle ==
    ASSUME "forkInScan" \notin Env
    PROVE  Spec => ImplementsLifecycle
<1>1. Init => ScansComplete /\ Bounded /\ L!LifecycleInit
  BY ScansInit, InitLifecycle, FS_EmptySet, ConstantsAssumption DEF Init, Bounded
<1>2. (TypeOK /\ Consistent) /\ ScansComplete /\ Bounded /\ [Next]_vars
        => ScansComplete' /\ Bounded'
  BY ScansNext, BoundedNext
<1>3. ScansComplete => ReleasedMeansGone
  BY DEF ScansComplete
<1>4. ASSUME TypeOK, Consistent, ReleasedMeansGone', Bounded', [Next]_vars
      PROVE  [L!LifecycleNext]_(L!lifecycleVars)
  BY <1>4, StepLifecycle
<1> QED
  BY <1>1, <1>2, <1>3, <1>4, AlwaysConsistent, PTL DEF Spec, ImplementsLifecycle, L!Lifecycle

-----------------------------------------------------------------------------
(* Reaping: while sweeps do not overlap, a stored sample that survives until *)
(* the probe's verdict proves that nothing touched the job since the sweep   *)
(* looked at its lease.                                                      *)

OneSweep ==
    \A t, u \in Tasks : InSweep(task[t]) /\ InSweep(task[u]) => t = u

LoopsSweep == \A t \in Tasks : task[t].pc = "loop" => InSweep(task[t])

\* The job of a sweep may be reaped at all.
SweepsReapable ==
    \A t \in Tasks : InSweep(task[t]) =>
        /\ task[t].now <= clock
        /\ task[t].pc \notin {"idle", "loop"} => ~job[task[t].job].persistent

\* The lease that a probe rests on has still expired, or no sample is left.
LeaseHolds ==
    \A t \in Tasks : task[t].pc = "probe" =>
        /\ InSweep(task[t])
        /\ \/ job[task[t].job].evidence = NoEvidence
           \/ task[t].now - job[task[t].job].touchedAt >= IdleLease

LeaseInv == OneSweep /\ LoopsSweep /\ SweepsReapable /\ LeaseHolds

\* The record as far as the reaper's decision goes.
Untouched(n, r) ==
    /\ n.persistent = r.persistent
    /\ n.evidence = r.evidence
    /\ n.touchedAt = r.touchedAt

\* Nothing was recorded, or what was recorded is forgotten.
Forgets(n, r) ==
    /\ n.persistent = r.persistent
    /\ Untouched(n, r) \/ n.evidence = NoEvidence

\* A sweep goes on with its own time, on a job it may reap, and probes a job
\* only when its lease has expired.
GoesOn(t, j, n, tk) ==
    /\ tk.pc = "loop" => InSweep(tk)
    /\ InSweep(tk) =>
          /\ InSweep(task[t]) /\ tk.now = task[t].now
          /\ tk.pc \notin {"idle", "loop"} => tk.job = j /\ ~job[j].persistent
    /\ tk.pc = "probe" =>
          /\ InSweep(tk) /\ tk.job = j
          /\ tk.now - n.touchedAt >= IdleLease

Leased(t, j) ==
    \E n, tk :
        /\ Step(t, j, n, tk)
        /\ clock' = clock
        /\ Forgets(n, job[j]) \/ (task[t].pc = "probe" /\ n.persistent = job[j].persistent)
        /\ GoesOn(t, j, n, tk)

LEMMA UntouchedHelpers ==
    ASSUME NEW r \in JobRecord, NEW v, NEW reason
    PROVE  /\ Untouched(Learned(r, v), r)
           /\ Untouched(FinalizeNaturalCompletion(r), r)
           /\ Untouched(FinalizeStopped(r, reason), r)
           /\ Untouched([r EXCEPT !.stopReason = reason], r)
           /\ Forgets(Observe(r), r)
  BY DEF Untouched, Forgets, Learned, FinalizeNaturalCompletion, FinalizeStopped,
         Finalize, ClearJobTimers, Observe, ResetIdleEvidence, JobRecord

LEMMA UntouchedRefreshed ==
    ASSUME TypeOK, NEW r \in JobRecord, NEW v
    PROVE  Untouched(Refreshed(r, v), r)
<1>1. CASE v = "gone"
  <2>1. Learned(r, v) \in JobRecord
    BY LearnedType
  <2> QED
    BY <1>1, <2>1, UntouchedHelpers DEF Refreshed, Untouched
<1>2. CASE v # "gone"
  BY <1>2 DEF Refreshed, ScheduleGroupWatch, Untouched, JobRecord
<1> QED
  BY <1>1, <1>2

LEMMA ScanKeepsSweep ==
    ASSUME NEW tk \in TaskRecord, NEW j, NEW r, NEW at
    PROVE  LET s == Scan(tk, j, r, at) IN
           s.pc = at /\ s.job = j /\ s.op = tk.op /\ s.now = tk.now
  BY DEF Scan, TaskRecord

LEMMA ReturnedKeepsSweep ==
    ASSUME NEW tk
    PROVE  /\ Returned(tk).pc \in {"idle", "loop"}
           /\ Returned(tk).pc = "loop" => InSweep(Returned(tk))
           /\ InSweep(Returned(tk)) => InSweep(tk) /\ Returned(tk).now = tk.now
  BY DEF Returned, InSweep, IdleTask

\* A step that begins no probe and records nothing.
LEMMA CalmStep ==
    ASSUME TypeOK, LeaseInv, NEW t \in Tasks, NEW j \in Jobs, NEW n, NEW tk,
           task[t].pc \notin {"idle", "loop"}, j = task[t].job,
           Step(t, j, n, tk), clock' = clock, Forgets(n, job[j]),
           \/ tk \in {IdleTask, Returned(task[t]), Paused(task[t])}
           \/ \E r, at : at \notin {"probe", "loop"} /\ tk = Scan(task[t], j, r, at)
    PROVE  Leased(t, j)
<1>1. InSweep(task[t]) => ~job[j].persistent
  BY DEF LeaseInv, SweepsReapable
<1>2. GoesOn(t, j, n, tk)
  <2>1. CASE tk = IdleTask
    BY <2>1 DEF GoesOn, IdleTask, InSweep
  <2>2. CASE tk = Returned(task[t])
    BY <2>2, ReturnedKeepsSweep DEF GoesOn
  <2>3. CASE \E r, at : at \notin {"probe", "loop"} /\ tk = Scan(task[t], j, r, at)
    <3>1. PICK r, at : at \notin {"probe", "loop"} /\ tk = Scan(task[t], j, r, at)
      BY <2>3
    <3>2. task[t] \in TaskRecord
      BY DEF TypeOK
    <3>3. tk.pc \notin {"probe", "loop"} /\ tk.job = j /\ tk.op = task[t].op /\ tk.now = task[t].now
      BY <3>1, <3>2, ScanKeepsSweep
    <3> QED
      BY <1>1, <3>3 DEF GoesOn, InSweep
  <2>4. CASE tk = Paused(task[t])
    <3>1. task[t] \in TaskRecord
      BY DEF TypeOK
    <3>2. tk.pc \notin {"probe", "loop"} /\ tk.job = j /\ tk.op = task[t].op /\ tk.now = task[t].now
      BY <2>4, <3>1, PausedFields DEF PausePcs
    <3> QED
      BY <1>1, <3>2 DEF GoesOn, InSweep
  <2> QED
    BY <2>1, <2>2, <2>3, <2>4
<1> QED
  BY <1>2 DEF Leased

\* Back to the lease check with record n.
LEMMA ConsiderLeased ==
    ASSUME TypeOK, NEW t \in Tasks, NEW j \in Jobs, NEW n, NEW tk \in TaskRecord,
           InSweep(tk), InSweep(task[t]), tk.now = task[t].now, ~job[j].persistent
    PROVE  GoesOn(t, j, n, Consider(tk, j, n))
<1>1. CASE Consider(tk, j, n) = Returned(tk)
  BY <1>1, ReturnedKeepsSweep DEF GoesOn
<1>2. CASE /\ Consider(tk, j, n) = Scan(tk, j, n, "probe")
           /\ tk.now - n.touchedAt >= IdleLease
  BY <1>2, ScanKeepsSweep DEF GoesOn, InSweep
<1> QED
  BY <1>1, <1>2 DEF Consider

LEMMA SweepVisitsLeased ==
    ASSUME TypeOK, LeaseInv, NEW t \in Tasks, NEW j \in Jobs, SweepVisits(t, j)
    PROVE  Leased(t, j)
<1>0. InSweep(task[t])
  BY DEF SweepVisits, Resumed, LeaseInv, LoopsSweep
<1> DEFINE tk == [task[t] EXCEPT !.todo = @ \ {j}]
           next == IF job[j].state # "running" \/ job[j].persistent
                   THEN tk
                   ELSE IF job[j].launcherExited
                        THEN Scan(tk, j, job[j], "refresh")
                        ELSE Consider(tk, j, job[j])
<1>1. /\ tk \in TaskRecord /\ InSweep(tk) /\ tk.now = task[t].now /\ tk.pc = "loop"
  BY <1>0 DEF SweepVisits, Resumed, TypeOK, TaskRecord, InSweep
<1>2. job' = [job EXCEPT ![j] = job[j]] /\ task' = [task EXCEPT ![t] = next]
      /\ clock' = clock
  BY DEF SweepVisits, TypeOK
<1> HIDE DEF tk
<1>3. GoesOn(t, j, job[j], next)
  <2>1. CASE next = tk
    BY <1>0, <1>1, <2>1 DEF GoesOn
  <2>2. CASE next = Scan(tk, j, job[j], "refresh") /\ ~job[j].persistent
    <3>1. /\ next.pc = "refresh" /\ next.job = j /\ next.op = tk.op /\ next.now = tk.now
      BY <1>1, <2>2, ScanKeepsSweep
    <3> QED
      BY <1>0, <1>1, <2>2, <3>1 DEF GoesOn, InSweep
  <2>3. CASE next = Consider(tk, j, job[j]) /\ ~job[j].persistent
    BY <1>0, <1>1, <2>3, ConsiderLeased
  <2> QED
    BY <2>1, <2>2, <2>3
<1> HIDE DEF next
<1>4. Step(t, j, job[j], next)
  BY <1>2 DEF Step
<1> QED
  BY <1>2, <1>3, <1>4 DEF Leased, Forgets, Untouched

\* What an activation does when its await ends, the sweep's own steps apart.
LEMMA ReturnsLeased ==
    ASSUME TypeOK, LeaseInv, NEW t \in Tasks,
           \/ WaitEnds(t) \/ ExecuteReturns(t) \/ StatusReturns(t) \/ RefreshReturns(t)
    PROVE  task[t].job \in Jobs /\ Leased(t, task[t].job)
<1> DEFINE j == task[t].job
<1>1. task[t].pc \in {"waiting", "refresh"} /\ clock' = clock
  BY DEF WaitEnds, ExecuteReturns, StatusReturns, RefreshReturns, Resumed
<1>2. j \in Jobs /\ job[j] \in JobRecord
  BY <1>1 DEF TypeOK
<1>3. CASE WaitEnds(t)
  <2>1. PICK tk : /\ task' = [task EXCEPT ![t] = tk]
                  /\ tk = IdleTask \/ tk = Scan(task[t], j, job[j], "refresh")
    BY <1>3 DEF WaitEnds
  <2>2. Step(t, j, job[j], tk)
    BY <1>2, <1>3, <2>1 DEF WaitEnds, Step, TypeOK
  <2>3. Forgets(job[j], job[j])
    BY DEF Forgets, Untouched
  <2> QED
    BY <1>1, <1>2, <2>1, <2>2, <2>3, CalmStep
<1>4. CASE ExecuteReturns(t) \/ StatusReturns(t) \/ RefreshReturns(t)
  <2>1. PICK v : \/ Step(t, j, Refreshed(job[j], v), IdleTask)
                 \/ Step(t, j, Observe(Refreshed(job[j], v)), IdleTask)
    BY <1>4 DEF ExecuteReturns, StatusReturns, RefreshReturns
  <2> DEFINE n == Refreshed(job[j], v)
  <2>2. n \in JobRecord /\ Untouched(n, job[j])
    BY <1>2, UntouchedRefreshed, RefreshedType DEF TypeOK
  <2> HIDE DEF n
  <2>3. Forgets(n, job[j]) /\ Forgets(Observe(n), job[j])
    BY <2>2, UntouchedHelpers DEF Forgets, Untouched
  <2>4. Step(t, j, n, IdleTask) \/ Step(t, j, Observe(n), IdleTask)
    BY <2>1 DEF n
  <2> QED
    BY <1>1, <1>2, <2>3, <2>4, CalmStep
<1> QED
  BY <1>3, <1>4

LEMMA StopStepLeased ==
    ASSUME TypeOK, LeaseInv, NEW t \in Tasks, StopStep(t)
    PROVE  task[t].job \in Jobs /\ Leased(t, task[t].job)
<1> DEFINE tk == task[t]
           j  == tk.job
           Lr(v) == Learned(job[j], v)
<1>1. tk.pc \in StopPcs /\ clock' = clock
  BY DEF StopStep, StopBefore, StopSignals, StopEsrch, StopPolls, StopPollsAgain, PausePcs, TermDeadline,
         KillDeadline, DeadlinePasses, StopAfterTerm, Resumed, StopPcs
<1>2. j \in Jobs /\ job[j] \in JobRecord /\ tk.pc \notin {"idle", "loop"}
  BY <1>1 DEF TypeOK, StopPcs
<1>3. ASSUME NEW v, NEW reason
      PROVE  /\ Forgets(Lr(v), job[j])
             /\ Forgets(FinalizeStopped(Lr(v), reason), job[j])
             /\ Forgets([Lr(v) EXCEPT !.stopReason = "none"], job[j])
             /\ Forgets([job[j] EXCEPT !.stopReason = "none"], job[j])
             /\ Forgets(job[j], job[j])
  <2>1. Lr(v) \in JobRecord /\ Untouched(Lr(v), job[j])
    BY <1>2, LearnedType, UntouchedHelpers
  <2> HIDE DEF Lr
  <2>2. /\ Untouched(FinalizeStopped(Lr(v), reason), Lr(v))
        /\ Untouched([Lr(v) EXCEPT !.stopReason = "none"], Lr(v))
        /\ Untouched([job[j] EXCEPT !.stopReason = "none"], job[j])
    BY <1>2, <2>1, UntouchedHelpers
  <2> QED
    BY <2>1, <2>2 DEF Forgets, Untouched
<1>4. \E v, n, next :
         /\ Step(t, j, n, next)
         /\ \/ n = Lr(v)
            \/ n = FinalizeStopped(Lr(v), Reason(tk))
            \/ n = [Lr(v) EXCEPT !.stopReason = "none"]
            \/ n = [job[j] EXCEPT !.stopReason = "none"]
            \/ n = job[j]
         /\ \/ next \in {IdleTask, Returned(tk), Paused(tk)}
            \/ \E r, at : at \notin {"probe", "loop"} /\ next = Scan(tk, j, r, at)
  <2>1. CASE StopBefore(t) \/ StopAfterTerm(t)
    <3>1. PICK v : \/ Step(t, j, FinalizeStopped(Lr(v), Reason(tk)), Returned(tk))
                   \/ Step(t, j, [Lr(v) EXCEPT !.stopReason = "none"], IdleTask)
                   \/ \E at \in {"term", "kill", "killWait"} :
                         Step(t, j, Lr(v), Scan(tk, j, Lr(v), at))
      BY <2>1 DEF StopBefore, StopAfterTerm, Thrown
    <3>2. \A at \in {"term", "kill", "killWait"} : at \notin {"probe", "loop"}
      OBVIOUS
    <3> QED
      BY <3>1, <3>2
  <2>2. CASE StopSignals(t)
    <3>1. PICK v : \/ Step(t, j, Lr(v), Scan(tk, j, Lr(v), AfterSignal(tk.pc)))
                   \/ Step(t, j, Lr(v), Scan(tk, j, Lr(v), OnEsrch(tk.pc)))
                   \/ Step(t, j, Lr(v), IdleTask)
      BY <2>2 DEF StopSignals, Thrown
    <3>2. /\ AfterSignal(tk.pc) \notin {"probe", "loop"}
          /\ OnEsrch(tk.pc) \notin {"probe", "loop"}
      BY DEF AfterSignal, OnEsrch
    <3> QED
      BY <3>1, <3>2
  <2>3. CASE StopEsrch(t)
    <3>1. PICK v : Step(t, j, Lr(v), IF v = "gone"
                        THEN Scan(tk, j, Lr(v), IF tk.pc = "termEsrch" THEN "termWait"
                                                ELSE "killWait")
                        ELSE Thrown)
      BY <2>3 DEF StopEsrch
    <3> QED
      BY <3>1 DEF Thrown
  <2>4. CASE StopPolls(t)
    <3>1. PICK v : IF v = "gone"
                   THEN Step(t, j, FinalizeStopped(Lr(v), Reason(tk)), Returned(tk))
                   ELSE Step(t, j, Lr(v), Paused(tk))
      BY <2>4 DEF StopPolls
    <3> QED
      BY <3>1
  <2>5. CASE StopPollsAgain(t) \/ TermDeadline(t) \/ KillDeadline(t)
    BY <2>5 DEF StopPollsAgain, TermDeadline, KillDeadline, Thrown
  <2> QED
    BY <2>1, <2>2, <2>3, <2>4, <2>5 DEF StopStep
<1> HIDE DEF Lr
<1> QED
  BY <1>1, <1>2, <1>3, <1>4, CalmStep

LEMMA SweepRefreshedLeased ==
    ASSUME TypeOK, LeaseInv, NEW t \in Tasks, SweepRefreshed(t)
    PROVE  task[t].job \in Jobs /\ Leased(t, task[t].job)
<1> DEFINE j == task[t].job
<1>1. task[t].pc = "refresh" /\ InSweep(task[t]) /\ clock' = clock
  BY DEF SweepRefreshed, Resumed
<1>2. j \in Jobs /\ job[j] \in JobRecord /\ task[t] \in TaskRecord
  BY <1>1 DEF TypeOK
<1>3. ~job[j].persistent
  BY <1>1 DEF LeaseInv, SweepsReapable
<1>4. PICK v : Step(t, j, Refreshed(job[j], v), Consider(task[t], j, Refreshed(job[j], v)))
  BY DEF SweepRefreshed
<1> DEFINE n == Refreshed(job[j], v)
<1>5. Forgets(n, job[j])
  BY <1>2, UntouchedRefreshed DEF Forgets, Untouched
<1> HIDE DEF n
<1>6. Step(t, j, n, Consider(task[t], j, n))
  BY <1>4 DEF n
<1>7. GoesOn(t, j, n, Consider(task[t], j, n))
  BY <1>1, <1>2, <1>3, ConsiderLeased
<1> QED
  BY <1>1, <1>2, <1>5, <1>6, <1>7 DEF Leased

LEMMA ProbeStepLeased ==
    ASSUME TypeOK, LeaseInv, NEW t \in Tasks, ProbeStep(t)
    PROVE  task[t].job \in Jobs /\ Leased(t, task[t].job)
<1> DEFINE tk == task[t]
           j  == tk.job
<1>1. tk.pc = "probe" /\ clock' = clock
  BY DEF ProbeStep, ProbeSettles, ProbeRecords, ProbeTooSoon, ProbeReaps, Resumed
<1>2. j \in Jobs /\ job[j] \in JobRecord /\ Forgets(job[j], job[j])
  BY <1>1 DEF TypeOK, Forgets, Untouched
<1>3. CASE ProbeSettles(t)
  <2>1. PICK v : LET r == Learned(job[j], v)
                 IN Step(t, j,
                         IF v = "gone" /\ r.launcherExited
                         THEN FinalizeNaturalCompletion(r)
                         ELSE r,
                         Returned(tk))
    BY <1>3 DEF ProbeSettles
  <2> DEFINE r == Learned(job[j], v)
  <2>2. r \in JobRecord /\ Untouched(r, job[j])
    BY <1>2, LearnedType, UntouchedHelpers
  <2> HIDE DEF r
  <2>3. Forgets(r, job[j]) /\ Forgets(FinalizeNaturalCompletion(r), job[j])
    BY <2>2, UntouchedHelpers DEF Forgets, Untouched
  <2>4. \/ Step(t, j, FinalizeNaturalCompletion(r), Returned(tk))
        \/ Step(t, j, r, Returned(tk))
    BY <2>1 DEF r
  <2> QED
    BY <1>1, <1>2, <2>3, <2>4, CalmStep
<1>4. CASE ProbeRecords(t)
  <2> DEFINE n == [job[j] EXCEPT !.evidence = Stored(tk)]
  <2>1. n.persistent = job[j].persistent
    BY <1>2 DEF JobRecord
  <2> HIDE DEF n
  <2>2. Step(t, j, n, Returned(tk))
    BY <1>4 DEF ProbeRecords, n
  <2>3. GoesOn(t, j, n, Returned(tk))
    BY ReturnedKeepsSweep DEF GoesOn
  <2> QED
    BY <1>1, <1>2, <2>1, <2>2, <2>3 DEF Leased
<1>5. CASE ProbeTooSoon(t)
  BY <1>1, <1>2, <1>5, CalmStep DEF ProbeTooSoon
<1>6. CASE ProbeReaps(t)
  <2>1. Forgets([job[j] EXCEPT !.stopReason = Reason(tk)], job[j])
    BY <1>2, UntouchedHelpers DEF Forgets
  <2>2. \/ Step(t, j, job[j], IdleTask)
        \/ Step(t, j, job[j], Returned(tk))
        \/ Step(t, j, [job[j] EXCEPT !.stopReason = Reason(tk)],
                Scan(tk, j, job[j], "before"))
    BY <1>6 DEF ProbeReaps, StopBegins, Thrown
  <2>3. "before" \notin {"probe", "loop"}
    OBVIOUS
  <2> QED
    BY <1>1, <1>2, <2>1, <2>2, <2>3, CalmStep
<1> QED
  BY <1>3, <1>4, <1>5, <1>6 DEF ProbeStep

LEMMA ResumesLeased ==
    ASSUME TypeOK, LeaseInv, NEW t \in Tasks, Resumes(t)
    PROVE  (\E j \in Jobs : Leased(t, j)) \/ SweepEnds(t)
  BY ReturnsLeased, StopStepLeased, SweepRefreshedLeased, ProbeStepLeased,
     SweepVisitsLeased DEF Resumes, StopStep, ProbeStep

-----------------------------------------------------------------------------
(* LeaseInv is inductive *)

\* Where an activation that is no sweep is suspended first, if at all.
FirstPcs == {"idle", "waiting", "refresh", "before"}

\* A new activation is no sweep and begins on a record that nobody changes but
\* by forgetting its sample.
Begins(t, j) ==
    \E n, tk :
        /\ task[t] = IdleTask
        /\ Step(t, j, n, tk)
        /\ clock' = clock
        /\ Forgets(n, job[j]) \/ job[j].state = "absent"
        /\ ~InSweep(tk) /\ tk.pc \in FirstPcs

LEMMA BeginsFields ==
    ASSUME NEW op, op # "sweep", NEW tk, tk = [IdleTask EXCEPT !.op = op], NEW j, NEW r,
           NEW at \in FirstPcs
    PROVE  /\ ~InSweep(Scan(tk, j, r, at))
           /\ Scan(tk, j, r, at).pc \in FirstPcs
  BY DEF Scan, IdleTask, InSweep

LEMMA IdleFields == ~InSweep(IdleTask) /\ IdleTask.pc \in FirstPcs
  BY DEF IdleTask, InSweep, FirstPcs

LEMMA CallBegins ==
    ASSUME TypeOK, NEW t \in Tasks, NEW j \in Jobs,
           \/ StatusRefreshes(t, j) \/ Stop(t, j)
           \/ LauncherExit(t, j) \/ GroupWatchFires(t, j) \/ HardTimerFires(t, j)
    PROVE  Begins(t, j)
<1>1. job[j] \in JobRecord /\ Forgets(job[j], job[j])
  BY DEF TypeOK, Forgets, Untouched
<1>2. CASE StatusRefreshes(t, j)
  <2> DEFINE tk == Scan([IdleTask EXCEPT !.op = "status"], j, job[j], "refresh")
  <2>1. ~InSweep(tk) /\ tk.pc \in FirstPcs
    BY BeginsFields DEF FirstPcs
  <2>2. Step(t, j, job[j], tk) /\ task[t] = IdleTask /\ clock' = clock
    BY <1>2 DEF StatusRefreshes
  <2> HIDE DEF tk
  <2> QED
    BY <1>1, <2>1, <2>2 DEF Begins
<1>3. CASE Stop(t, j)
  <2> DEFINE op == [IdleTask EXCEPT !.op = "stop"]
             n  == [job[j] EXCEPT !.stopReason = Reason(op)]
             tk == Scan(op, j, job[j], "before")
  <2>1. ~InSweep(tk) /\ tk.pc \in FirstPcs
    BY BeginsFields DEF FirstPcs
  <2>2. Step(t, j, n, tk) /\ task[t] = IdleTask /\ clock' = clock
    BY <1>3 DEF Stop, StopBegins
  <2>3. Forgets(n, job[j])
    BY <1>1, UntouchedHelpers DEF Forgets
  <2> HIDE DEF n, tk
  <2> QED
    BY <2>1, <2>2, <2>3 DEF Begins
<1>4. CASE LauncherExit(t, j) \/ GroupWatchFires(t, j)
  <2>1. PICK n : /\ \/ n = [job[j] EXCEPT !.launcherExited = TRUE]
                    \/ n = [job[j] EXCEPT !.groupWatchTimer = FALSE]
                 /\ RefreshFromEvent(t, j, n)
                 /\ task[t] = IdleTask /\ clock' = clock
    BY <1>4 DEF LauncherExit, GroupWatchFires
  <2>2. Forgets(n, job[j])
    BY <1>1, <2>1 DEF Forgets, Untouched, JobRecord
  <2> DEFINE tk == IF n.state = "running" /\ n.launcherExited
                   THEN Scan([IdleTask EXCEPT !.op = "refresh"], j, n, "refresh")
                   ELSE IdleTask
  <2>3. ~InSweep(tk) /\ tk.pc \in FirstPcs
    BY BeginsFields, IdleFields DEF FirstPcs
  <2>4. Step(t, j, n, tk)
    BY <2>1 DEF RefreshFromEvent
  <2> HIDE DEF tk
  <2> QED
    BY <2>1, <2>2, <2>3, <2>4 DEF Begins
<1>5. CASE HardTimerFires(t, j)
  <2> DEFINE r  == [job[j] EXCEPT !.hardTimer = FALSE]
             op == [IdleTask EXCEPT !.op = "hard"]
             n  == [r EXCEPT !.stopReason = Reason(op)]
             tk == Scan(op, j, r, "before")
  <2>1. ~InSweep(tk) /\ tk.pc \in FirstPcs
    BY BeginsFields DEF FirstPcs
  <2>2. Step(t, j, n, tk) \/ Step(t, j, r, IdleTask)
    BY <1>5 DEF HardTimerFires, StopBegins
  <2>3. Forgets(r, job[j]) /\ Forgets(n, job[j])
    BY <1>1 DEF Forgets, Untouched, JobRecord
  <2>4. task[t] = IdleTask /\ clock' = clock
    BY <1>5 DEF HardTimerFires
  <2> HIDE DEF r, n, tk
  <2> QED
    BY <2>1, <2>2, <2>3, <2>4, IdleFields DEF Begins
<1> QED
  BY <1>2, <1>3, <1>4, <1>5

LEMMA ExecuteBegins ==
    ASSUME TypeOK, Executes
    PROVE  \E t \in Tasks, j \in Jobs : Begins(t, j)
<1>1. PICK t \in Tasks, j \in Jobs :
        \E persistent, hard, waits, spawned \in BOOLEAN :
            Execute(t, j, persistent, hard, waits, spawned)
  BY DEF Executes
<1> DEFINE tk == [IdleTask EXCEPT !.op = "execute", !.pc = "waiting", !.job = j]
<1>2. ~InSweep(tk) /\ tk.pc \in FirstPcs
  BY DEF IdleTask, InSweep, FirstPcs
<1>3. \E n : Step(t, j, n, tk) \/ Step(t, j, n, IdleTask)
  BY <1>1 DEF Execute
<1>4. task[t] = IdleTask /\ clock' = clock /\ job[j].state = "absent"
  BY <1>1 DEF Execute
<1> HIDE DEF tk
<1> QED
  BY <1>2, <1>3, <1>4, IdleFields DEF Begins

LEMMA LeaseInit == ASSUME Init PROVE LeaseInv
  BY IdleFields DEF FirstPcs, Init, LeaseInv, OneSweep, LoopsSweep, SweepsReapable, LeaseHolds

\* Steps that leave the activations alone and at most forget samples.
LEMMA LeaseFrame ==
    ASSUME TypeOK, LeaseInv, task' = task, clock' \in Nat, clock' >= clock,
           \A k \in Jobs : Forgets(job'[k], job[k])
    PROVE  LeaseInv'
<1>1. \A t \in Tasks : task[t].pc \notin {"idle", "loop"} => task[t].job \in Jobs
  BY DEF TypeOK
<1>2. \A t \in Tasks : task[t].now \in Nat /\ clock \in Nat
  BY DEF TypeOK, TaskRecord
<1>3. OneSweep' /\ LoopsSweep'
  BY DEF LeaseInv, OneSweep, LoopsSweep
<1>4. SweepsReapable'
  <2>1. ASSUME NEW t \in Tasks, InSweep(task[t])
        PROVE  task[t].now <= clock'
    BY <1>2, <2>1 DEF LeaseInv, SweepsReapable
  <2> QED
    BY <1>1, <2>1 DEF LeaseInv, SweepsReapable, Forgets
<1>5. LeaseHolds'
  BY <1>1 DEF LeaseInv, LeaseHolds, Forgets, Untouched
<1> QED
  BY <1>3, <1>4, <1>5 DEF LeaseInv

LEMMA LeasedStep ==
    ASSUME TypeOK, LeaseInv, NEW t \in Tasks, NEW j \in Jobs, Leased(t, j)
    PROVE  LeaseInv'
<1>1. PICK n, tk :
        /\ Step(t, j, n, tk) /\ clock' = clock
        /\ Forgets(n, job[j]) \/ (task[t].pc = "probe" /\ n.persistent = job[j].persistent)
        /\ GoesOn(t, j, n, tk)
  BY DEF Leased
<1>2. /\ job'[j] = n /\ \A k \in Jobs \ {j} : job'[k] = job[k]
      /\ task'[t] = tk /\ \A u \in Tasks \ {t} : task'[u] = task[u]
  BY <1>1, EffectFrame
<1>3. \A u \in Tasks : task[u].pc \notin {"idle", "loop"} => task[u].job \in Jobs
  BY DEF TypeOK
<1>4. InSweep(tk) => InSweep(task[t]) /\ tk.now = task[t].now
  BY <1>1 DEF GoesOn
<1>5. \A k \in Jobs : job'[k].persistent = job[k].persistent
  BY <1>1, <1>2 DEF Forgets
<1>6. OneSweep' /\ LoopsSweep'
  BY <1>1, <1>2, <1>4 DEF LeaseInv, OneSweep, LoopsSweep, GoesOn
<1>7. SweepsReapable'
  <2>1. ASSUME NEW u \in Tasks, InSweep(task'[u])
        PROVE  /\ task'[u].now <= clock'
               /\ task'[u].pc \notin {"idle", "loop"} => ~job'[task'[u].job].persistent
    <3>1. CASE u = t
      BY <1>1, <1>2, <1>4, <1>5, <2>1, <3>1 DEF LeaseInv, SweepsReapable, GoesOn
    <3>2. CASE u # t
      BY <1>1, <1>2, <1>3, <1>5, <2>1, <3>2 DEF LeaseInv, SweepsReapable
    <3> QED
      BY <3>1, <3>2
  <2> QED
    BY <2>1 DEF SweepsReapable
<1>8. LeaseHolds'
  <2>1. ASSUME NEW u \in Tasks, task'[u].pc = "probe"
        PROVE  /\ InSweep(task'[u])
               /\ \/ job'[task'[u].job].evidence = NoEvidence
                  \/ task'[u].now - job'[task'[u].job].touchedAt >= IdleLease
    <3>1. CASE u = t
      BY <1>1, <1>2, <2>1, <3>1 DEF GoesOn
    <3>2. CASE u # t
      <4>1. task'[u] = task[u] /\ task[u].pc = "probe" /\ task[u].job \in Jobs
        BY <1>2, <1>3, <2>1, <3>2
      <4>2. InSweep(task[u]) /\ ~(task[t].pc = "probe")
        BY <3>2, <4>1 DEF LeaseInv, LeaseHolds, OneSweep
      <4>3. Forgets(job'[task[u].job], job[task[u].job])
        BY <1>1, <1>2, <4>1, <4>2 DEF Forgets, Untouched
      <4> QED
        BY <4>1, <4>2, <4>3 DEF LeaseInv, LeaseHolds, Forgets, Untouched
    <3> QED
      BY <3>1, <3>2
  <2> QED
    BY <2>1 DEF LeaseHolds
<1> QED
  BY <1>6, <1>7, <1>8 DEF LeaseInv

LEMMA BeginsStep ==
    ASSUME TypeOK, TasksConsistent, LeaseInv, NEW t \in Tasks, NEW j \in Jobs, Begins(t, j)
    PROVE  LeaseInv'
<1>1. PICK n, tk :
        /\ Step(t, j, n, tk) /\ clock' = clock
        /\ Forgets(n, job[j]) \/ job[j].state = "absent"
        /\ ~InSweep(tk) /\ tk.pc \notin {"loop", "probe"}
  BY DEF Begins, FirstPcs
<1>2. /\ job'[j] = n /\ \A k \in Jobs \ {j} : job'[k] = job[k]
      /\ task'[t] = tk /\ \A u \in Tasks \ {t} : task'[u] = task[u]
  BY <1>1, EffectFrame
<1>3. ASSUME NEW u \in Tasks \ {t}, task[u].pc \notin {"idle", "loop"}
      PROVE  task[u].job \in Jobs /\ Forgets(job'[task[u].job], job[task[u].job])
  <2>1. task[u].job \in Jobs /\ job[task[u].job].state # "absent"
    BY <1>3 DEF TypeOK, TasksConsistent
  <2> QED
    BY <1>1, <1>2, <2>1 DEF Forgets, Untouched
<1>4. OneSweep' /\ LoopsSweep'
  BY <1>1, <1>2 DEF LeaseInv, OneSweep, LoopsSweep
<1>5. SweepsReapable'
  <2>1. ASSUME NEW u \in Tasks, InSweep(task'[u])
        PROVE  /\ task'[u].now <= clock'
               /\ task'[u].pc \notin {"idle", "loop"} => ~job'[task'[u].job].persistent
    <3>1. u # t /\ task'[u] = task[u]
      BY <1>1, <1>2, <2>1
    <3> QED
      BY <1>1, <1>3, <2>1, <3>1 DEF LeaseInv, SweepsReapable, Forgets
  <2> QED
    BY <2>1 DEF SweepsReapable
<1>6. LeaseHolds'
  <2>1. ASSUME NEW u \in Tasks, task'[u].pc = "probe"
        PROVE  /\ InSweep(task'[u])
               /\ \/ job'[task'[u].job].evidence = NoEvidence
                  \/ task'[u].now - job'[task'[u].job].touchedAt >= IdleLease
    <3>1. u # t /\ task'[u] = task[u]
      BY <1>1, <1>2, <2>1
    <3>2. Forgets(job'[task[u].job], job[task[u].job])
      BY <1>3, <2>1, <3>1
    <3> QED
      BY <2>1, <3>1, <3>2 DEF LeaseInv, LeaseHolds, Forgets, Untouched
  <2> QED
    BY <2>1 DEF LeaseHolds
<1> QED
  BY <1>4, <1>5, <1>6 DEF LeaseInv

LEMMA SweepTurnsStep ==
    ASSUME "sweepsOverlap" \notin Env, TypeOK, LeaseInv, NEW t \in Tasks,
           SweepBegins(t) \/ SweepEnds(t)
    PROVE  LeaseInv'
<1>1. PICK tk :
        /\ task' = [task EXCEPT ![t] = tk]
        /\ \/ /\ InSweep(tk) /\ tk.pc = "loop" /\ tk.now = clock
              /\ \A u \in Tasks : ~InSweep(task[u])
           \/ ~InSweep(tk) /\ tk.pc = "idle"
  <2>1. CASE SweepBegins(t)
    <3> DEFINE next == [IdleTask EXCEPT !.op = "sweep", !.pc = "loop",
                                        !.todo = registry', !.now = clock]
    <3>1. InSweep(next) /\ next.pc = "loop" /\ next.now = clock
      BY DEF IdleTask, InSweep
    <3>2. task' = [task EXCEPT ![t] = next] /\ \A u \in Tasks : ~InSweep(task[u])
      BY <2>1 DEF SweepBegins
    <3> HIDE DEF next
    <3> QED
      BY <3>1, <3>2
  <2>2. CASE SweepEnds(t)
    <3>1. task' = [task EXCEPT ![t] = IdleTask]
      BY <2>2 DEF SweepEnds
    <3>2. ~InSweep(IdleTask) /\ IdleTask.pc = "idle"
      BY DEF IdleTask, InSweep
    <3> QED
      BY <3>1, <3>2
  <2> QED
    BY <2>1, <2>2
<1>2. job' = job /\ clock' = clock
  BY DEF SweepBegins, SweepEnds
<1>3. task'[t] = tk /\ \A u \in Tasks \ {t} : task'[u] = task[u]
  BY <1>1 DEF TypeOK
<1>4. clock \in Nat
  BY DEF TypeOK
<1>5. OneSweep' /\ LoopsSweep'
  BY <1>1, <1>3 DEF LeaseInv, OneSweep, LoopsSweep
<1>6. SweepsReapable' /\ LeaseHolds'
  BY <1>1, <1>2, <1>3, <1>4 DEF LeaseInv, SweepsReapable, LeaseHolds
<1> QED
  BY <1>5, <1>6 DEF LeaseInv

\* What a step is, seen from the reaper.
LEMMA SweepCases ==
    ASSUME TypeOK, [Next]_vars
    PROVE  \/ \E t \in Tasks, j \in Jobs : Begins(t, j)
           \/ \E t \in Tasks : Resumes(t)
           \/ \E t \in Tasks : SweepBegins(t)
           \/ /\ task' = task /\ clock' \in Nat /\ clock' >= clock
              /\ \A k \in Jobs : Forgets(job'[k], job[k])
<1>1. \A k \in Jobs : Forgets(job[k], job[k])
  BY DEF Forgets, Untouched
<1>2. ASSUME NEW j \in Jobs, StatusObserves(j) \/ Output(j)
      PROVE  /\ task' = task /\ clock' \in Nat /\ clock' >= clock
             /\ \A k \in Jobs : Forgets(job'[k], job[k])
  <2>1. /\ task' = task /\ clock' = clock /\ clock \in Nat
        /\ job' = [job EXCEPT ![j] = Observe(@)]
    BY <1>2 DEF StatusObserves, Output, TypeOK
  <2>2. Forgets(Observe(job[j]), job[j])
    BY UntouchedHelpers DEF TypeOK
  <2>3. \A k \in Jobs : Forgets(job'[k], job[k])
    BY <1>1, <2>1, <2>2 DEF TypeOK
  <2> QED
    BY <2>1, <2>3
<1>3. ASSUME OperatingSystem \/ UNCHANGED vars
      PROVE  /\ task' = task /\ clock' \in Nat /\ clock' >= clock
             /\ \A k \in Jobs : Forgets(job'[k], job[k])
  <2>1. task' = task /\ job' = job /\ (clock' = clock \/ clock' = clock + 1)
    BY <1>3 DEF OperatingSystem, ProcessDies, ProcessForks, GroupProgresses,
                NumberReused, Tick, vars
  <2>2. clock \in Nat
    BY DEF TypeOK
  <2> QED
    BY <1>1, <2>1, <2>2
<1>4. CASE ToolCalls
  BY <1>2, <1>4, ExecuteBegins, CallBegins DEF ToolCalls, Executes
<1>5. CASE Events
  BY <1>2, <1>5, CallBegins DEF Events
<1> QED
  BY <1>3, <1>4, <1>5 DEF Next

LEMMA LeaseNext ==
    ASSUME "sweepsOverlap" \notin Env,
           TypeOK, TasksConsistent, LeaseInv, [Next]_vars
    PROVE  LeaseInv'
<1>1. ASSUME NEW t \in Tasks, Resumes(t) PROVE LeaseInv'
  BY <1>1, ResumesLeased, LeasedStep, SweepTurnsStep
<1> QED
  BY <1>1, SweepCases, BeginsStep, SweepTurnsStep, LeaseFrame

\* A stop that the sweep begins finds the sample it compares with in place.
LEMMA ReapStep ==
    ASSUME TypeOK, LeaseInv, [Next]_vars,
           NEW t \in Tasks, task[t].pc = "probe", task'[t].pc = "before"
    PROVE  LET r == job[task[t].job] IN
           ~r.persistent /\ clock - r.touchedAt >= IdleLease
<1> DEFINE j == task[t].job
<1>1. j \in Jobs /\ job[j] \in JobRecord /\ task[t] \in TaskRecord /\ clock \in Nat
  BY DEF TypeOK
<1>2. ASSUME NEW u \in Tasks, u # t PROVE ~Resumes(u)
  <2>1. ASSUME Resumes(u) PROVE task'[t] = task[t]
    <3>1. \E tk : task' = [task EXCEPT ![u] = tk]
      BY <2>1, ResumesLeased DEF Leased, Step, SweepEnds
    <3> QED
      BY <1>2, <3>1 DEF TypeOK
  <2> QED
    BY <2>1
<1>3. ASSUME NEW u \in Tasks, NEW k \in Jobs PROVE ~Begins(u, k)
  <2>1. ASSUME Begins(u, k) PROVE task'[t] = task[t]
    <3>1. PICK tk : task' = [task EXCEPT ![u] = tk] /\ task[u] = IdleTask
      BY <2>1 DEF Begins, Step
    <3>2. u # t
      BY <3>1 DEF IdleTask
    <3> QED
      BY <3>1, <3>2 DEF TypeOK
  <2> QED
    BY <2>1
<1>4. ASSUME NEW u \in Tasks PROVE ~SweepBegins(u)
  <2>1. ASSUME SweepBegins(u) PROVE task'[t] = task[t]
    <3>1. u # t
      BY <2>1 DEF SweepBegins, IdleTask
    <3> QED
      BY <2>1, <3>1 DEF SweepBegins, TypeOK
  <2> QED
    BY <2>1
<1>5. Resumes(t)
  BY <1>2, <1>3, <1>4, SweepCases
<1>6. ProbeStep(t)
  BY <1>5 DEF Resumes, ProbeStep, WaitEnds, ExecuteReturns, StatusReturns, RefreshReturns,
              StopBefore, StopSignals, StopEsrch, StopPolls, StopPollsAgain, PausePcs, TermDeadline, KillDeadline,
              DeadlinePasses, StopAfterTerm, SweepVisits, SweepRefreshed, SweepEnds, Resumed
<1>7. ProbeReaps(t)
  <2>1. ASSUME ProbeSettles(t) \/ ProbeRecords(t) \/ ProbeTooSoon(t)
        PROVE  task'[t].pc \in {"idle", "loop"}
    <3>1. task' = [task EXCEPT ![t] = Returned(task[t])]
      BY <2>1 DEF ProbeSettles, ProbeRecords, ProbeTooSoon, Step
    <3> QED
      BY <3>1, ReturnedKeepsSweep DEF TypeOK
  <2> QED
    BY <1>6, <2>1 DEF ProbeStep
<1>8. job[j].evidence # NoEvidence
  BY <1>7 DEF ProbeReaps, MayLookQuiet, SameSample
<1>9. /\ InSweep(task[t]) /\ task[t].now - job[j].touchedAt >= IdleLease
      /\ task[t].now <= clock /\ ~job[j].persistent
  BY <1>8 DEF LeaseInv, LeaseHolds, SweepsReapable
<1>10. task[t].now \in Nat /\ job[j].touchedAt \in Nat /\ IdleLease \in Nat
  BY <1>1, ConstantsAssumption DEF TaskRecord, JobRecord
<1> QED
  BY <1>1, <1>9, <1>10

\* As long as a sweep has ended before the next begins, the reaper starts to stop
\* only a job that is not persistent and that has had neither output nor
\* observation for the idle lease at that very moment.
THEOREM Reaps_OnlyIdle ==
    ASSUME "sweepsOverlap" \notin Env
    PROVE  Spec => ReapOnlyIdle
<1>1. Init => LeaseInv
  BY LeaseInit
<1>2. (TypeOK /\ Consistent) /\ LeaseInv /\ [Next]_vars => LeaseInv'
  BY LeaseNext DEF Consistent
<1>3. TypeOK /\ LeaseInv /\ [Next]_vars
        => [\A t \in Tasks :
              (task[t].pc = "probe" /\ task'[t].pc = "before") =>
                  LET r == job[task[t].job]
                  IN ~r.persistent /\ clock - r.touchedAt >= IdleLease]_vars
  BY ReapStep
<1> QED
  BY <1>1, <1>2, <1>3, AlwaysConsistent, PTL DEF Spec, ReapOnlyIdle

-----------------------------------------------------------------------------
(* Stops: while /proc can be read and no member forks during a scan, no stop *)
(* ends before the group is gone or has been sent SIGKILL.  Its second grace *)
(* period begins only after the SIGKILL or the group's end, and ESRCH is     *)
(* true.                                                                     *)

LatePcs == {"killWait", "killPause", "termEsrch", "killEsrch"}

StopsEscalate ==
    \A t \in Tasks : LET j == task[t].job IN
        /\ task[t].pc \in {"killWait", "killPause"} => os[j].doomed \/ job[j].ownershipReleased
        /\ task[t].pc \in {"termEsrch", "killEsrch"} => Own(j) = {}

\* A verdict other than 'alive' is then proof that the group is gone.
LEMMA VerdictProves ==
    ASSUME "readdirFails" \notin Env, TypeOK, Consistent, ScansComplete,
           NEW t \in Tasks, task[t].pc \in ScanPcs,
           NEW v \in Inspected(task[t]), v # "alive"
    PROVE  Own(task[t].job) = {}
<1>1. task[t].job \in Jobs
  BY DEF TypeOK, ScanPcs, PausePcs, StopPcs
<1>2. CASE task[t].skip
  BY <1>1, <1>2 DEF Consistent, TasksConsistent, ScansComplete, ReleasedMeansGone
<1>3. CASE ~task[t].skip
  <2>1. task[t].listed \cap os[task[t].job].live = {}
    BY <1>3 DEF Inspected
  <2>2. Own(task[t].job) \subseteq task[t].listed
    BY <1>3 DEF ScansComplete
  <2> QED
    BY <2>1, <2>2 DEF Own
<1> QED
  BY <1>2, <1>3

LEMMA LearnedReleases ==
    ASSUME NEW r \in JobRecord, NEW v
    PROVE  /\ v = "gone" => Learned(r, v).ownershipReleased
           /\ r.ownershipReleased => Learned(r, v).ownershipReleased
  BY DEF Learned, JobRecord

LEMMA StopStepEscalates ==
    ASSUME "readdirFails" \notin Env, TypeOK, Consistent, ScansComplete, StopsEscalate,
           NEW t \in Tasks, StopStep(t), NEW j, j = task[t].job
    PROVE  /\ task'[t].pc \in {"killWait", "killPause"} => os'[j].doomed \/ job'[j].ownershipReleased
           /\ task'[t].pc \in {"termEsrch", "killEsrch"} => Own(j) = {}
           /\ task'[t].pc \notin StopPcs => os'[j].doomed \/ Own(j) = {}
           /\ task'[t].pc \in StopPcs => task'[t].job = j
<1> DEFINE tk == task[t]
           Lr(v) == Learned(job[j], v)
<1>1. tk \in TaskRecord /\ j \in Jobs /\ job[j] \in JobRecord /\ tk.pc \in StopPcs
  BY DEF TypeOK, StopStep, StopBefore, StopSignals, StopEsrch, StopPolls, StopPollsAgain, PausePcs, Resumed, StopPcs,
         TermDeadline, KillDeadline, DeadlinePasses, StopAfterTerm
<1>0. StopBefore(t) \/ StopSignals(t) \/ StopPolls(t) \/ StopAfterTerm(t)
          => tk.pc \in ScanPcs
  BY DEF StopBefore, StopSignals, StopPolls, StopAfterTerm, Resumed, ScanPcs, StopPcs, PausePcs
<1>2. ASSUME tk.pc \in ScanPcs, NEW v \in Inspected(tk), v # "alive" PROVE Own(j) = {}
  BY <1>1, <1>2, VerdictProves DEF ScanPcs, StopPcs, PausePcs
<1>3. ASSUME NEW r, NEW u, Step(t, j, r, u) PROVE job'[j] = r /\ task'[t] = u
  BY <1>1, <1>3 DEF Step, TypeOK
<1>4. ASSUME NEW r, NEW at PROVE Scan(tk, j, r, at).pc = at /\ Scan(tk, j, r, at).job = j
  BY <1>1, ScanKeepsSweep
<1>5. Thrown.pc \notin StopPcs /\ Returned(tk).pc \notin StopPcs
  BY IdlePc, ReturnedFields DEF StopPcs
<1>6. \A v : /\ v = "gone" => Lr(v).ownershipReleased
             /\ job[j].ownershipReleased => Lr(v).ownershipReleased
  BY <1>1, LearnedReleases
<1>7. /\ tk.pc \in {"killWait", "killPause"} => os[j].doomed \/ job[j].ownershipReleased
      /\ tk.pc \in {"termEsrch", "killEsrch"} => Own(j) = {}
      /\ job[j].ownershipReleased => Own(j) = {}
  BY <1>1 DEF StopsEscalate, ScansComplete, ReleasedMeansGone
<1> HIDE DEF Lr
<1>9. CASE StopBefore(t)
  <2>1. PICK v \in Inspected(tk) :
            \/ v # "alive" /\ \E r : Step(t, j, r, Returned(tk)) \/ Step(t, j, r, Thrown)
            \/ Step(t, j, Lr(v), Scan(tk, j, Lr(v), "term"))
    BY <1>9 DEF StopBefore, Lr
  <2> QED
    BY <1>0, <1>2, <1>3, <1>4, <1>5, <1>9, <2>1 DEF StopPcs
<1>10. CASE StopSignals(t)
  <2>1. tk.pc \in {"term", "kill"}
    BY <1>10 DEF StopSignals, Resumed
  <2>2. PICK v \in Inspected(tk) :
            \/ v = "gone" /\ Step(t, j, Lr(v), Scan(tk, j, Lr(v), AfterSignal(tk.pc)))
            \/ v = "unknown" /\ Step(t, j, Lr(v), Thrown)
            \/ NoSuchGroup(j) /\ Step(t, j, Lr(v), Scan(tk, j, Lr(v), OnEsrch(tk.pc)))
            \/ /\ Step(t, j, Lr(v), Scan(tk, j, Lr(v), AfterSignal(tk.pc)))
               /\ os' = [os EXCEPT ![j] = Signalled(@, tk.pc)]
    BY <1>10 DEF StopSignals, Lr
  <2>3. AfterSignal(tk.pc) = (IF tk.pc = "kill" THEN "killWait" ELSE "termWait")
    BY <2>1 DEF AfterSignal
  <2>4. OnEsrch(tk.pc) \in {"termEsrch", "killEsrch"}
    BY DEF OnEsrch
  <2>5. CASE v = "gone" /\ Step(t, j, Lr(v), Scan(tk, j, Lr(v), AfterSignal(tk.pc)))
    BY <1>3, <1>4, <1>6, <2>3, <2>5 DEF StopPcs
  <2>6. CASE v = "unknown" /\ Step(t, j, Lr(v), Thrown)
    BY <1>0, <1>2, <1>3, <1>5, <1>10, <2>6 DEF StopPcs
  <2>7. CASE NoSuchGroup(j) /\ Step(t, j, Lr(v), Scan(tk, j, Lr(v), OnEsrch(tk.pc)))
    BY <1>3, <1>4, <2>4, <2>7 DEF StopPcs, NoSuchGroup, Own
  <2>8. CASE /\ Step(t, j, Lr(v), Scan(tk, j, Lr(v), AfterSignal(tk.pc)))
             /\ os' = [os EXCEPT ![j] = Signalled(@, tk.pc)]
    <3>1. tk.pc = "kill" => os'[j].doomed
      BY <1>1, <2>8 DEF Signalled, TypeOK, GroupRecord
    <3>2. task'[t].pc \in {"termWait", "killWait"} /\ task'[t].job = j
          /\ (task'[t].pc = "killWait" => tk.pc = "kill")
      BY <1>3, <1>4, <2>3, <2>8
    <3> QED
      BY <3>1, <3>2 DEF StopPcs
  <2> QED
    BY <2>2, <2>5, <2>6, <2>7, <2>8
<1>11. CASE StopEsrch(t)
  <2>1. tk.pc \in {"termEsrch", "killEsrch"}
    BY <1>11 DEF StopEsrch, Resumed
  <2>2. PICK v \in Inspected(tk), at \in {"termWait", "killWait"} :
            \/ Step(t, j, Lr(v), Thrown)
            \/ v = "gone" /\ Step(t, j, Lr(v), Scan(tk, j, Lr(v), at))
    BY <1>11 DEF StopEsrch, Lr
  <2>3. CASE Step(t, j, Lr(v), Thrown)
    BY <1>3, <1>5, <1>7, <2>1, <2>3 DEF StopPcs
  <2>4. CASE v = "gone" /\ Step(t, j, Lr(v), Scan(tk, j, Lr(v), at))
    BY <1>3, <1>4, <1>6, <2>4 DEF StopPcs
  <2> QED
    BY <2>2, <2>3, <2>4
<1>12. CASE StopPolls(t)
  <2>1. tk.pc \in {"termWait", "killWait"} /\ os' = os
    BY <1>12 DEF StopPolls, Resumed
  <2>2. PICK v \in Inspected(tk) :
            \/ v = "gone" /\ \E r : Step(t, j, r, Returned(tk))
            \/ Step(t, j, Lr(v), Paused(tk))
    BY <1>12 DEF StopPolls, Lr
  <2>3. CASE v = "gone" /\ \E r : Step(t, j, r, Returned(tk))
    BY <1>0, <1>2, <1>3, <1>5, <1>12, <2>3 DEF StopPcs
  <2>4. CASE Step(t, j, Lr(v), Paused(tk))
    <3>1. /\ Paused(tk).pc \in {"termPause", "killPause"} /\ Paused(tk).job = j
          /\ Paused(tk).pc = "killPause" => tk.pc = "killWait"
      BY <1>1, <2>1 DEF Paused, TaskRecord
    <3> QED
      BY <1>3, <1>6, <1>7, <2>1, <2>4, <3>1 DEF StopPcs
  <2> QED
    BY <2>2, <2>3, <2>4
<1>8. CASE StopPollsAgain(t)
  <2> DEFINE at == IF tk.pc = "termPause" THEN "termWait" ELSE "killWait"
  <2>1. tk.pc \in PausePcs /\ os' = os /\ Step(t, j, job[j], Scan(tk, j, job[j], at))
    BY <1>8 DEF StopPollsAgain, Resumed
  <2>2. at \in StopPcs /\ (at = "killWait" => tk.pc = "killPause")
        /\ at \notin {"killPause", "termEsrch", "killEsrch"}
    BY <2>1 DEF PausePcs, StopPcs
  <2> HIDE DEF at
  <2> QED
    BY <1>3, <1>4, <1>7, <2>1, <2>2 DEF StopPcs
<1>13. CASE TermDeadline(t)
  <2>1. \E r : Step(t, j, r, Scan(tk, j, r, "afterTerm"))
    BY <1>13 DEF TermDeadline
  <2> QED
    BY <1>3, <1>4, <2>1 DEF StopPcs
<1>14. CASE KillDeadline(t)
  <2>1. tk.pc = "killWait" /\ os' = os /\ \E r : Step(t, j, r, Thrown)
    BY <1>14 DEF KillDeadline, DeadlinePasses, Resumed
  <2> QED
    BY <1>3, <1>5, <1>7, <2>1 DEF StopPcs
<1>15. CASE StopAfterTerm(t)
  <2>1. PICK v \in Inspected(tk) :
            \/ Step(t, j, Lr(v), Scan(tk, j, Lr(v), "kill"))
            \/ v = "gone" /\ Step(t, j, Lr(v), Scan(tk, j, Lr(v), "killWait"))
            \/ v = "unknown" /\ \E r : Step(t, j, r, Thrown)
    BY <1>15 DEF StopAfterTerm, Lr
  <2>2. CASE Step(t, j, Lr(v), Scan(tk, j, Lr(v), "kill"))
    BY <1>3, <1>4, <2>2 DEF StopPcs
  <2>3. CASE v = "gone" /\ Step(t, j, Lr(v), Scan(tk, j, Lr(v), "killWait"))
    BY <1>3, <1>4, <1>6, <2>3 DEF StopPcs
  <2>4. CASE v = "unknown" /\ \E r : Step(t, j, r, Thrown)
    BY <1>0, <1>2, <1>3, <1>5, <1>15, <2>4 DEF StopPcs
  <2> QED
    BY <2>1, <2>2, <2>3, <2>4
<1> QED
  BY <1>8, <1>9, <1>10, <1>11, <1>12, <1>13, <1>14, <1>15 DEF StopStep

\* A step of an activation that is not stopping does not bring it into the late
\* part of a stop.
LEMMA OtherResumes ==
    ASSUME TypeOK, NEW t \in Tasks, Resumes(t), ~StopStep(t)
    PROVE  task[t].pc \notin StopPcs /\ task'[t].pc \notin LatePcs
<1>1. ASSUME NEW tk, task' = [task EXCEPT ![t] = tk] PROVE task'[t] = tk
  BY <1>1 DEF TypeOK
<1>2. task[t] \in TaskRecord
  BY DEF TypeOK
<1>3. ASSUME NEW tk \in TaskRecord, NEW j, NEW r, NEW at
      PROVE  Scan(tk, j, r, at).pc = at /\ Returned(tk).pc \notin LatePcs
  BY <1>3, ScanKeepsSweep, ReturnedKeepsSweep DEF LatePcs
<1>4. ASSUME NEW tk \in TaskRecord, NEW j, NEW r PROVE Consider(tk, j, r).pc \notin LatePcs
  BY <1>3, <1>4 DEF Consider, LatePcs
<1>5. IdleTask.pc \notin LatePcs /\ Thrown.pc \notin LatePcs
  BY IdlePc DEF LatePcs
<1>6. CASE WaitEnds(t)
  <2>1. task[t].pc = "waiting"
    BY <1>6 DEF WaitEnds, Resumed
  <2>2. \E r : task'[t] \in {IdleTask, Scan(task[t], task[t].job, r, "refresh")}
    BY <1>1, <1>6 DEF WaitEnds
  <2> QED
    BY <1>2, <1>3, <1>5, <2>1, <2>2 DEF StopPcs, LatePcs
<1>7. CASE ExecuteReturns(t) \/ StatusReturns(t) \/ RefreshReturns(t)
  <2>1. task[t].pc = "refresh"
    BY <1>7 DEF ExecuteReturns, StatusReturns, RefreshReturns, Resumed
  <2>2. task'[t] = IdleTask
    BY <1>1, <1>7 DEF ExecuteReturns, StatusReturns, RefreshReturns, Step
  <2> QED
    BY <1>5, <2>1, <2>2 DEF StopPcs
<1>8. CASE \E j \in Jobs : SweepVisits(t, j)
  <2>1. PICK j \in Jobs : SweepVisits(t, j)
    BY <1>8
  <2> DEFINE tk == [task[t] EXCEPT !.todo = @ \ {j}]
  <2>2. task[t].pc = "loop" /\ tk \in TaskRecord /\ tk.pc = "loop"
    BY <1>2, <2>1 DEF SweepVisits, Resumed, TaskRecord
  <2>3. task'[t] \in {tk, Scan(tk, j, job[j], "refresh"), Consider(tk, j, job[j])}
    BY <1>1, <2>1 DEF SweepVisits
  <2> HIDE DEF tk
  <2> QED
    BY <1>3, <1>4, <2>2, <2>3 DEF StopPcs, LatePcs
<1>9. CASE SweepRefreshed(t)
  <2>1. task[t].pc = "refresh"
    BY <1>9 DEF SweepRefreshed, Resumed
  <2>2. \E r : task'[t] = Consider(task[t], task[t].job, r)
    BY <1>1, <1>9 DEF SweepRefreshed, Step
  <2> QED
    BY <1>2, <1>4, <2>1, <2>2 DEF StopPcs
<1>10. CASE ProbeSettles(t) \/ ProbeRecords(t) \/ ProbeTooSoon(t) \/ ProbeReaps(t)
  <2>1. task[t].pc = "probe"
    BY <1>10 DEF ProbeSettles, ProbeRecords, ProbeTooSoon, ProbeReaps, Resumed
  <2>2. \E r : task'[t] \in {Thrown, Returned(task[t]), Scan(task[t], task[t].job, r, "before")}
    BY <1>1, <1>10 DEF ProbeSettles, ProbeRecords, ProbeTooSoon, ProbeReaps, Step, StopBegins
  <2> QED
    BY <1>2, <1>3, <1>5, <2>1, <2>2 DEF StopPcs, LatePcs
<1>11. CASE SweepEnds(t)
  <2>1. task[t].pc = "loop" /\ task'[t] = IdleTask
    BY <1>1, <1>11 DEF SweepEnds, Resumed
  <2> QED
    BY <1>5, <2>1 DEF StopPcs
<1> QED
  BY <1>6, <1>7, <1>8, <1>9, <1>10, <1>11 DEF Resumes, StopStep

\* An activation enters the late part of a stop, or leaves a stop, only by a step
\* of its own.
LEMMA OthersNotLate ==
    ASSUME TypeOK, [Next]_vars, NEW t \in Tasks, ~StopStep(t)
    PROVE  \/ task'[t] = task[t]
           \/ task[t].pc \notin StopPcs /\ task'[t].pc \notin LatePcs
<1>1. CASE \E u \in Tasks, j \in Jobs : Begins(u, j)
  <2>1. PICK u, tk : /\ u \in Tasks
                     /\ task[u] = IdleTask /\ task' = [task EXCEPT ![u] = tk]
                     /\ tk.pc \in FirstPcs
    BY <1>1 DEF Begins, Step
  <2>2. IdleTask.pc \notin StopPcs
    BY IdlePc DEF StopPcs
  <2> QED
    BY <2>1, <2>2 DEF TypeOK, FirstPcs, LatePcs
<1>2. CASE \E u \in Tasks : Resumes(u)
  <2>1. PICK u \in Tasks : Resumes(u)
    BY <1>2
  <2>2. CASE u = t
    BY <2>1, <2>2, OtherResumes
  <2>3. CASE u # t
    <3>1. \E tk : task' = [task EXCEPT ![u] = tk]
      BY <2>1, ResumesCases DEF Effect, Step, Turns
    <3> QED
      BY <2>3, <3>1 DEF TypeOK
  <2> QED
    BY <2>2, <2>3
<1>3. CASE \E u \in Tasks : SweepBegins(u)
  <2>1. PICK u, tk : /\ u \in Tasks
                     /\ task[u] = IdleTask /\ task' = [task EXCEPT ![u] = tk]
                     /\ tk.pc = "loop"
    <3>1. PICK u \in Tasks : SweepBegins(u)
      BY <1>3
    <3> DEFINE tk == [IdleTask EXCEPT !.op = "sweep", !.pc = "loop",
                                      !.todo = registry', !.now = clock]
    <3>2. tk.pc = "loop"
      BY DEF IdleTask
    <3>3. task[u] = IdleTask /\ task' = [task EXCEPT ![u] = tk]
      BY <3>1 DEF SweepBegins
    <3> HIDE DEF tk
    <3> QED
      BY <3>2, <3>3
  <2>2. IdleTask.pc \notin StopPcs
    BY IdlePc DEF StopPcs
  <2> QED
    BY <2>1, <2>2 DEF TypeOK, LatePcs
<1> QED
  BY <1>1, <1>2, <1>3, SweepCases

\* What a job's group has suffered and what is known of it stay.
LEMMA GroupKept ==
    ASSUME TypeOK, Consistent, [Next]_vars, NEW k \in Jobs, job[k].state # "absent"
    PROVE  /\ os[k].doomed => os'[k].doomed
           /\ job[k].ownershipReleased => job'[k].ownershipReleased
           /\ Own(k) = {} => Own(k)' = {}
<1>1. CASE \E t \in Tasks, j \in Jobs : Effect(t, j)
  <2>1. PICK t, j, n, tk :
            t \in Tasks /\ j \in Jobs /\ Step(t, j, n, tk) /\ RecordEffect(t, j, n) /\ WorldEffect(t, j, n)
    BY <1>1 DEF Effect
  <2>2. job[k].ownershipReleased => job'[k].ownershipReleased
    BY <2>1, EffectFrame DEF RecordEffect
  <2>3. os[k].doomed => os'[k].doomed
    <3>1. CASE os' = os
      BY <3>1
    <3>2. CASE os' = [os EXCEPT ![j] = Signalled(@, task[t].pc)]
      <4>1. os[k] \in GroupRecord
        BY DEF TypeOK
      <4>2. os[k].doomed => Signalled(os[k], task[t].pc).doomed
        BY <4>1 DEF Signalled, GroupRecord
      <4>3. os'[k] \in {os[k], Signalled(os[k], task[t].pc)}
        BY <3>2 DEF TypeOK
      <4> QED
        BY <4>2, <4>3
    <3> QED
      BY <2>1, <3>1, <3>2 DEF WorldEffect
  <2>4. os'[k].live = os[k].live
    BY <2>1, EffectLive
  <2> QED
    BY <2>2, <2>3, <2>4 DEF Own
<1>2. CASE Executes
  <2>1. PICK t \in Tasks, j \in Jobs :
            /\ job[j].state = "absent"
            /\ os' = os \/ os' = [os EXCEPT ![j].live = {Launcher}]
            /\ \A i \in Jobs \ {j} : job'[i] = job[i]
    BY <1>2, ExecuteFrame DEF Executes
  <2>2. os'[k] = os[k] /\ job'[k] = job[k]
    BY <2>1 DEF TypeOK
  <2> QED
    BY <2>2 DEF Own
<1>3. CASE \E j \in Jobs : Observed(j)
  BY <1>3, ObservedFrame DEF Same, Own
<1>4. CASE (\E t \in Tasks : Turns(t)) \/ UNCHANGED vars
  BY <1>4 DEF Turns, vars, Own
<1>5. CASE OperatingSystem
  <2>1. job' = job
    BY <1>5 DEF OperatingSystem, ProcessDies, ProcessForks, GroupProgresses, NumberReused, Tick
  <2>2. /\ os'[k].doomed = os[k].doomed
        /\ Own(k) = {} => os'[k].live \ {Foreign} = {}
    <3>1. os[k] \in GroupRecord
      BY DEF TypeOK
    <3>2. CASE \E j \in Jobs, p \in Processes : ProcessDies(j, p)
      BY <3>1, <3>2 DEF ProcessDies, TypeOK, GroupRecord, Own
    <3>3. CASE \E j \in Jobs, p \in Kids : ProcessForks(j, p)
      BY <3>1, <3>3 DEF ProcessForks, TypeOK, GroupRecord, Own
    <3>4. CASE \E j \in Jobs : GroupProgresses(j)
      BY <3>1, <3>4 DEF GroupProgresses, TypeOK, GroupRecord, Own
    <3>5. CASE \E j \in Jobs : NumberReused(j)
      BY <3>1, <3>5 DEF NumberReused, TypeOK, GroupRecord, Own
    <3>6. CASE Tick
      BY <3>6 DEF Tick, Own
    <3> QED
      BY <1>5, <3>2, <3>3, <3>4, <3>5, <3>6 DEF OperatingSystem
  <2> QED
    BY <2>1, <2>2 DEF Own
<1> QED
  BY <1>1, <1>2, <1>3, <1>4, <1>5, NextCases

\* What StopReachesGroup asks of one step.
ReachesGroup ==
    \A t \in Tasks, j \in Jobs :
        task[t].pc \in StopPcs /\ task[t].job = j /\ task'[t].pc \notin StopPcs =>
            os'[j].doomed \/ Own(j)' = {}

LEMMA EscalateNext ==
    ASSUME "readdirFails" \notin Env, TypeOK, Consistent, ScansComplete, StopsEscalate,
           [Next]_vars
    PROVE  StopsEscalate' /\ ReachesGroup
<1>1. ASSUME NEW t \in Tasks, NEW j \in Jobs, task[t].pc \in StopPcs, task[t].job = j
      PROVE  /\ os[j].doomed => os'[j].doomed
             /\ job[j].ownershipReleased => job'[j].ownershipReleased
             /\ Own(j) = {} => Own(j)' = {}
  <2>1. job[j].state # "absent"
    BY <1>1 DEF Consistent, TasksConsistent, StopPcs
  <2> QED
    BY <2>1, GroupKept
<1>2. ASSUME NEW t \in Tasks, NEW j \in Jobs, task'[t].job = j
      PROVE  /\ task'[t].pc \in {"killWait", "killPause"} => os'[j].doomed \/ job'[j].ownershipReleased
             /\ task'[t].pc \in {"termEsrch", "killEsrch"} => Own(j)' = {}
  <2>1. CASE StopStep(t)
    <3>1. task[t].pc \in StopPcs
      BY <2>1 DEF StopStep, StopBefore, StopSignals, StopEsrch, StopPolls, StopPollsAgain, PausePcs, Resumed, StopPcs,
                  TermDeadline, KillDeadline, DeadlinePasses, StopAfterTerm
    <3>2. task'[t].pc \in LatePcs => task[t].job = j
      BY <1>2, <2>1, StopStepEscalates DEF LatePcs, StopPcs
    <3> QED
      BY <1>1, <2>1, <3>1, <3>2, StopStepEscalates DEF LatePcs
  <2>2. CASE task'[t] = task[t]
    BY <1>1, <1>2, <2>2 DEF StopsEscalate, StopPcs
  <2>3. CASE task'[t].pc \notin LatePcs
    BY <2>3 DEF LatePcs
  <2> QED
    BY <2>1, <2>2, <2>3, OthersNotLate
<1>3. \A t \in Tasks : task'[t].pc \in LatePcs => task'[t].job \in Jobs
  BY NextType DEF TypeOK, LatePcs
<1>4. ASSUME NEW t \in Tasks
      PROVE  LET j == task'[t].job IN
             /\ task'[t].pc \in {"killWait", "killPause"} => os'[j].doomed \/ job'[j].ownershipReleased
             /\ task'[t].pc \in {"termEsrch", "killEsrch"} => os'[j].live \ {Foreign} = {}
  <2>1. CASE task'[t].pc \in LatePcs
    BY <1>2, <1>3, <2>1 DEF Own
  <2>2. CASE task'[t].pc \notin LatePcs
    BY <2>2 DEF LatePcs
  <2> QED
    BY <2>1, <2>2
<1>5. StopsEscalate'
  BY <1>4 DEF StopsEscalate, Own
<1>6. ASSUME NEW t \in Tasks, NEW j \in Jobs,
             task[t].pc \in StopPcs, task[t].job = j, task'[t].pc \notin StopPcs
      PROVE  os'[j].doomed \/ Own(j)' = {}
  <2>1. StopStep(t)
    BY <1>6, OthersNotLate
  <2> QED
    BY <1>1, <1>6, <2>1, StopStepEscalates
<1> QED
  BY <1>5, <1>6 DEF ReachesGroup

\* As long as /proc can be read and no member forks while it is being read, no
\* stop ends before every process of the job's own group has ended or has been
\* sent SIGKILL.
THEOREM Stop_ReachesGroup ==
    ASSUME "readdirFails" \notin Env, "forkInScan" \notin Env
    PROVE  Spec => StopReachesGroup
<1>1. Init => ScansComplete /\ StopsEscalate
  <2>1. Init => StopsEscalate
    BY IdlePc DEF Init, StopsEscalate
  <2> QED
    BY <2>1, ScansInit
<1>2. (TypeOK /\ Consistent) /\ (ScansComplete /\ StopsEscalate) /\ [Next]_vars
        => (ScansComplete /\ StopsEscalate)'
  BY ScansNext, EscalateNext
<1>3. (TypeOK /\ Consistent) /\ (ScansComplete /\ StopsEscalate) /\ [Next]_vars
        => [\A t \in Tasks, j \in Jobs :
              task[t].pc \in StopPcs /\ task[t].job = j /\ task'[t].pc \notin StopPcs =>
                  os'[j].doomed \/ Own(j)' = {}]_vars
  BY EscalateNext DEF ReachesGroup
<1> QED
  BY <1>1, <1>2, <1>3, AlwaysConsistent, PTL DEF Spec, StopReachesGroup

=============================================================================
