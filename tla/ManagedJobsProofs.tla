------------------------- MODULE ManagedJobsProofs -------------------------
(***************************************************************************)
(* Proofs about ManagedJobs, for every set of jobs, activations and        *)
(* processes and every value of the limits.                                *)
(***************************************************************************)
EXTENDS ManagedJobs, TLAPS

-----------------------------------------------------------------------------
(* What the helpers return *)

Evidence == [at : Int, members : SUBSET Processes, work : Nat]

LEMMA NoEvidenceType == NoEvidence \in Evidence
<1>1. -1 \in Int /\ 0 \in Nat
  OBVIOUS
<1> QED
  BY <1>1 DEF NoEvidence, Evidence

LEMMA ConstantTypes ==
    /\ NoRecord \in JobRecord
    /\ NoGroup \in GroupRecord
    /\ IdleTask \in TaskRecord
<1>1. NoRecord \in JobRecord
  <2>1. -1 \in Int /\ 0 \in Nat
    OBVIOUS
  <2> QED
    BY <2>1, NoEvidenceType
    DEF NoRecord, JobRecord, JobStates, Reasons, Evidence
<1>2. NoGroup \in GroupRecord
  BY DEF NoGroup, GroupRecord
<1>3. IdleTask \in TaskRecord
  BY DEF IdleTask, TaskRecord, Operations, Pcs
<1> QED
  BY <1>1, <1>2, <1>3

LEMMA ObserveType ==
    ASSUME NEW r \in JobRecord, clock \in Nat
    PROVE  Observe(r) \in JobRecord
<1>1. ResetIdleEvidence(r) \in JobRecord
  BY NoEvidenceType DEF ResetIdleEvidence, JobRecord, Evidence
<1>2. [ResetIdleEvidence(r) EXCEPT !.touchedAt = clock] \in JobRecord
  BY <1>1 DEF JobRecord
<1> QED
  BY <1>2 DEF Observe

LEMMA FinalizeType ==
    ASSUME NEW r \in JobRecord, NEW outcome \in Final, clock \in Nat
    PROVE  Finalize(r, outcome) \in JobRecord
<1>1. ClearJobTimers(r) \in JobRecord
  BY DEF ClearJobTimers, JobRecord
<1>2. outcome \in JobStates
  BY DEF JobStates
<1>3. clock \in Int
  OBVIOUS
<1>4. ASSUME NEW c \in JobRecord
      PROVE  [c EXCEPT !.ownershipReleased = TRUE, !.state = outcome,
                       !.completedAt = clock] \in JobRecord
  BY <1>2, <1>3 DEF JobRecord
<1> QED
  BY <1>1, <1>4 DEF Finalize

LEMMA SpawnErrorType ==
    ASSUME NEW r \in JobRecord, clock \in Nat
    PROVE  SpawnError(r) \in JobRecord
<1>1. ClearJobTimers(r) \in JobRecord
  BY DEF ClearJobTimers, JobRecord
<1>2. clock \in Int /\ "failed" \in JobStates
  BY DEF JobStates, Final
<1>3. ASSUME NEW c \in JobRecord
      PROVE  [c EXCEPT !.state = "failed", !.ownershipReleased = TRUE,
                       !.completedAt = clock] \in JobRecord
  BY <1>2 DEF JobRecord
<1> QED
  BY <1>1, <1>3 DEF SpawnError

LEMMA NaturalType ==
    ASSUME NEW r \in JobRecord, clock \in Nat
    PROVE  FinalizeNaturalCompletion(r) \in JobRecord
  BY FinalizeType DEF FinalizeNaturalCompletion, Final

LEMMA StoppedType ==
    ASSUME NEW r \in JobRecord, NEW reason, clock \in Nat
    PROVE  FinalizeStopped(r, reason) \in JobRecord
  BY FinalizeType DEF FinalizeStopped, Final

LEMMA LearnedType ==
    ASSUME NEW r \in JobRecord, NEW v
    PROVE  Learned(r, v) \in JobRecord
  BY DEF Learned, JobRecord

LEMMA RefreshedType ==
    ASSUME NEW r \in JobRecord, NEW v, clock \in Nat
    PROVE  Refreshed(r, v) \in JobRecord
<1>1. ScheduleGroupWatch(r) \in JobRecord
  BY DEF ScheduleGroupWatch, JobRecord
<1> QED
  BY <1>1, LearnedType, NaturalType DEF Refreshed

LEMMA ScanType ==
    ASSUME NEW tk \in TaskRecord, NEW j \in Jobs, NEW r \in JobRecord,
           NEW at \in ScanPcs, os \in [Jobs -> GroupRecord]
    PROVE  /\ Scan(tk, j, r, at) \in TaskRecord
           /\ Scan(tk, j, r, at).job = j
  BY DEF Scan, TaskRecord, GroupRecord, JobRecord, ScanPcs, PausePcs, StopPcs, Pcs

LEMMA ReturnedType ==
    ASSUME NEW tk \in TaskRecord
    PROVE  /\ Returned(tk) \in TaskRecord
           /\ Returned(tk).pc \in {"idle", "loop"}
  BY ConstantTypes DEF Returned, InSweep, IdleTask, TaskRecord, Operations, Pcs

LEMMA ConsiderType ==
    ASSUME NEW tk \in TaskRecord, NEW j \in Jobs, NEW r \in JobRecord,
           os \in [Jobs -> GroupRecord]
    PROVE  /\ Consider(tk, j, r) \in TaskRecord
           /\ Consider(tk, j, r).pc \notin {"idle", "loop"} =>
                  Consider(tk, j, r).job = j
  BY ScanType, ReturnedType DEF Consider, ScanPcs, StopPcs, PausePcs

\* A step of one task on one job keeps the types of both.
LEMMA StepType ==
    ASSUME TypeOK, NEW t \in Tasks, NEW j \in Jobs, NEW r \in JobRecord,
           NEW tk \in TaskRecord, Step(t, j, r, tk),
           tk.pc \notin {"idle", "loop"} => tk.job \in Jobs
    PROVE  /\ job' \in [Jobs -> JobRecord]
           /\ task' \in [Tasks -> TaskRecord]
           /\ \A u \in Tasks : task'[u].pc \notin {"idle", "loop"} => task'[u].job \in Jobs
  BY DEF Step, TypeOK

\* A resumed task works on a job, and scans of it keep its task typed.
LEMMA ResumedTypes ==
    ASSUME TypeOK, NEW t \in Tasks, task[t].pc \notin {"idle", "loop"}
    PROVE  /\ task[t] \in TaskRecord
           /\ task[t].job \in Jobs
           /\ job[task[t].job] \in JobRecord
           /\ os \in [Jobs -> GroupRecord]
           /\ clock \in Nat
  BY DEF TypeOK

\* What the next record and task of a step must be for the types to hold.
Typed(r, tk) ==
    /\ r \in JobRecord
    /\ tk \in TaskRecord
    /\ tk.pc \notin {"idle", "loop"} => tk.job \in Jobs

LEMMA IdleTyped ==
    ASSUME NEW r \in JobRecord
    PROVE  Typed(r, IdleTask)
  BY ConstantTypes DEF Typed, IdleTask

LEMMA ReturnedTyped ==
    ASSUME NEW r \in JobRecord, NEW tk \in TaskRecord
    PROVE  Typed(r, Returned(tk))
  BY ReturnedType DEF Typed

LEMMA ScanTyped ==
    ASSUME NEW r \in JobRecord, NEW r1 \in JobRecord, NEW tk \in TaskRecord,
           NEW j \in Jobs, NEW at \in ScanPcs, os \in [Jobs -> GroupRecord]
    PROVE  Typed(r, Scan(tk, j, r1, at))
  BY ScanType DEF Typed

LEMMA PausedTyped ==
    ASSUME NEW r \in JobRecord, NEW tk \in TaskRecord, tk.job \in Jobs
    PROVE  Typed(r, Paused(tk))
  BY DEF Typed, Paused, TaskRecord, Pcs, StopPcs

LEMMA ConsiderTyped ==
    ASSUME NEW r \in JobRecord, NEW tk \in TaskRecord,
           NEW j \in Jobs, os \in [Jobs -> GroupRecord]
    PROVE  Typed(r, Consider(tk, j, r))
  BY ConsiderType DEF Typed

LEMMA OperationType ==
    ASSUME NEW op \in Operations
    PROVE  [IdleTask EXCEPT !.op = op] \in TaskRecord
  BY ConstantTypes DEF TaskRecord

\* Steps that change one record and one task and leave clock, registry and os.
LEMMA StepKeepsTypes ==
    ASSUME TypeOK, NEW t \in Tasks, NEW j \in Jobs, NEW r, NEW tk,
           Step(t, j, r, tk), Typed(r, tk),
           clock' \in Nat, registry' \subseteq Jobs, os' \in [Jobs -> GroupRecord]
    PROVE  TypeOK'
  BY StepType DEF Typed, TypeOK

-----------------------------------------------------------------------------
(* Type correctness, action by action *)

LEMMA ToolCallsType == ASSUME TypeOK, ToolCalls PROVE TypeOK'
<1> USE DEF TypeOK
<1>1. ASSUME NEW t \in Tasks, NEW j \in Jobs,
             NEW persistent \in BOOLEAN, NEW hard \in BOOLEAN,
             NEW waits \in BOOLEAN, NEW spawned \in BOOLEAN,
             Execute(t, j, persistent, hard, waits, spawned)
      PROVE  TypeOK'
  <2> DEFINE r == IF spawned THEN Start(j, persistent, hard)
                  ELSE SpawnError(Start(j, persistent, hard))
             tk == IF waits
                   THEN [IdleTask EXCEPT !.op = "execute", !.pc = "waiting", !.job = j]
                   ELSE IdleTask
  <2>1. Start(j, persistent, hard) \in JobRecord
    BY ConstantTypes DEF Start, JobRecord, JobStates
  <2>2. SpawnError(Start(j, persistent, hard)) \in JobRecord
    BY <2>1, SpawnErrorType
  <2>3. tk \in TaskRecord /\ (tk.pc \notin {"idle", "loop"} => tk.job \in Jobs)
    BY ConstantTypes DEF TaskRecord, Operations, Pcs, IdleTask
  <2>4. Typed(r, tk)
    BY <2>1, <2>2, <2>3 DEF Typed
  <2>5. registry' \subseteq Jobs /\ clock' \in Nat
    BY <1>1 DEF Execute
  <2>6. os' \in [Jobs -> GroupRecord]
    <3>1. ASSUME NEW g \in GroupRecord
          PROVE  [g EXCEPT !.live = {Launcher}] \in GroupRecord
      BY DEF GroupRecord, Processes
    <3>2. os' = [os EXCEPT ![j] = [os[j] EXCEPT !.live = {Launcher}]] \/ os' = os
      BY <1>1 DEF Execute
    <3> QED
      BY <3>1, <3>2
  <2>7. Step(t, j, r, tk)
    BY <1>1 DEF Execute
  <2> QED
    BY <2>4, <2>5, <2>6, <2>7, StepKeepsTypes
<1>2. ASSUME NEW t \in Tasks, NEW j \in Jobs, StatusRefreshes(t, j)
      PROVE  TypeOK'
  <2>1. Typed(job[j], Scan([IdleTask EXCEPT !.op = "status"], j, job[j], "refresh"))
    BY ScanTyped, OperationType DEF Operations, ScanPcs, StopPcs, PausePcs
  <2> QED
    BY <1>2, <2>1, StepKeepsTypes DEF StatusRefreshes
<1>3. ASSUME NEW t \in Tasks, NEW j \in Jobs, Stop(t, j)
      PROVE  TypeOK'
  <2> DEFINE tk == [IdleTask EXCEPT !.op = "stop"]
  <2>1. [job[j] EXCEPT !.stopReason = Reason(tk)] \in JobRecord
    BY DEF JobRecord, Reason, Reasons
  <2>2. Typed([job[j] EXCEPT !.stopReason = Reason(tk)], Scan(tk, j, job[j], "before"))
    BY <2>1, ScanTyped, OperationType DEF Operations, ScanPcs, PausePcs, StopPcs
  <2> QED
    BY <1>3, <2>2, StepKeepsTypes DEF Stop, StopBegins
<1>4. ASSUME NEW j \in Jobs, StatusObserves(j)
      PROVE  TypeOK'
  BY <1>4, ObserveType DEF StatusObserves
<1> QED
  BY <1>1, <1>2, <1>3, <1>4 DEF ToolCalls

LEMMA RefreshFromEventType ==
    ASSUME TypeOK, NEW t \in Tasks, NEW j \in Jobs, NEW r \in JobRecord,
           RefreshFromEvent(t, j, r), UNCHANGED <<clock, registry, os>>
    PROVE  TypeOK'
<1>1. Typed(r, IdleTask)
  BY IdleTyped
<1>2. Typed(r, Scan([IdleTask EXCEPT !.op = "refresh"], j, r, "refresh"))
  BY ScanTyped, OperationType DEF Operations, ScanPcs, StopPcs, PausePcs, TypeOK
<1> QED
  BY <1>1, <1>2, StepKeepsTypes DEF RefreshFromEvent, TypeOK

LEMMA EventsType == ASSUME TypeOK, Events PROVE TypeOK'
<1> USE DEF TypeOK
<1>1. ASSUME NEW t \in Tasks, NEW j \in Jobs, LauncherExit(t, j)
      PROVE  TypeOK'
  <2>1. [job[j] EXCEPT !.launcherExited = TRUE] \in JobRecord
    BY DEF JobRecord
  <2> QED
    BY <1>1, <2>1, RefreshFromEventType DEF LauncherExit
<1>2. ASSUME NEW t \in Tasks, NEW j \in Jobs, GroupWatchFires(t, j)
      PROVE  TypeOK'
  <2>1. [job[j] EXCEPT !.groupWatchTimer = FALSE] \in JobRecord
    BY DEF JobRecord
  <2> QED
    BY <1>2, <2>1, RefreshFromEventType DEF GroupWatchFires
<1>3. ASSUME NEW t \in Tasks, NEW j \in Jobs, HardTimerFires(t, j)
      PROVE  TypeOK'
  <2> DEFINE r == [job[j] EXCEPT !.hardTimer = FALSE]
             tk == [IdleTask EXCEPT !.op = "hard"]
  <2>1. r \in JobRecord
    BY DEF JobRecord
  <2>2. [r EXCEPT !.stopReason = Reason(tk)] \in JobRecord
    <3>1. Reason(tk) \in Reasons
      BY DEF Reason, Reasons
    <3> HIDE DEF r
    <3> QED
      BY <2>1, <3>1 DEF JobRecord
  <2>3. Typed([r EXCEPT !.stopReason = Reason(tk)], Scan(tk, j, r, "before"))
    BY <2>1, <2>2, ScanTyped, OperationType DEF Operations, ScanPcs, PausePcs, StopPcs
  <2>4. Typed(r, IdleTask)
    BY <2>1, IdleTyped
  <2> QED
    BY <1>3, <2>3, <2>4, StepKeepsTypes DEF HardTimerFires, StopBegins
<1>4. ASSUME NEW t \in Tasks, SweepBegins(t)
      PROVE  TypeOK'
  <2> DEFINE tk == [IdleTask EXCEPT !.op = "sweep", !.pc = "loop",
                                    !.todo = registry', !.now = clock]
  <2>1. tk \in TaskRecord /\ tk.pc = "loop"
    BY <1>4, ConstantTypes DEF SweepBegins, TaskRecord, Operations, Pcs
  <2>2. /\ task' = [task EXCEPT ![t] = tk]
        /\ UNCHANGED <<clock, job, os>>
        /\ registry' \subseteq Jobs
    BY <1>4 DEF SweepBegins
  <2> HIDE DEF tk
  <2> QED
    BY <2>1, <2>2
<1>5. ASSUME NEW j \in Jobs, Output(j)
      PROVE  TypeOK'
  BY <1>5, ObserveType DEF Output
<1> QED
  BY <1>1, <1>2, <1>3, <1>4, <1>5 DEF Events

LEMMA OperatingSystemType == ASSUME TypeOK, OperatingSystem PROVE TypeOK'
<1> USE DEF TypeOK
<1>1. ASSUME NEW j \in Jobs, NEW p \in Processes, ProcessDies(j, p)
      PROVE  TypeOK'
  BY <1>1 DEF ProcessDies, GroupRecord
<1>2. ASSUME NEW j \in Jobs, NEW k \in Kids, ProcessForks(j, k)
      PROVE  TypeOK'
  BY <1>2 DEF ProcessForks, GroupRecord, Processes
<1>3. ASSUME NEW j \in Jobs, GroupProgresses(j)
      PROVE  TypeOK'
  BY <1>3 DEF GroupProgresses, GroupRecord
<1>4. ASSUME NEW j \in Jobs, NumberReused(j)
      PROVE  TypeOK'
  BY <1>4 DEF NumberReused, GroupRecord, Processes
<1>5. ASSUME Tick
      PROVE  TypeOK'
  BY <1>5 DEF Tick
<1> QED
  BY <1>1, <1>2, <1>3, <1>4, <1>5 DEF OperatingSystem

\* Records a resumed task writes, and where it goes next.
LEMMA StopReasonType ==
    ASSUME NEW r \in JobRecord, NEW reason \in Reasons
    PROVE  [r EXCEPT !.stopReason = reason] \in JobRecord
  BY DEF JobRecord

LEMMA ReturnsType ==
    ASSUME TypeOK, NEW t \in Tasks,
           ExecuteReturns(t) \/ StatusReturns(t) \/ RefreshReturns(t)
    PROVE  TypeOK'
<1> DEFINE j == task[t].job
<1>1. /\ j \in Jobs /\ job[j] \in JobRecord /\ clock \in Nat
      /\ os \in [Jobs -> GroupRecord] /\ registry \subseteq Jobs
  BY ResumedTypes DEF TypeOK, ExecuteReturns, StatusReturns, RefreshReturns, Resumed
<1>2. ASSUME NEW v PROVE Typed(Refreshed(job[j], v), IdleTask)
  BY <1>1, RefreshedType, IdleTyped
<1>3. ASSUME NEW v PROVE Typed(Observe(Refreshed(job[j], v)), IdleTask)
  BY <1>1, RefreshedType, ObserveType, IdleTyped
<1>4. CASE ExecuteReturns(t)
  <2>1. PICK v \in Inspected(task[t]) :
            /\ Step(t, j, Refreshed(job[j], v), IdleTask)
            /\ registry' = Replied(j, Refreshed(job[j], v))
    BY <1>4 DEF ExecuteReturns
  <2>2. registry' \subseteq Jobs
    BY <1>1, <2>1 DEF Replied
  <2> QED
    BY <1>1, <1>2, <1>4, <2>1, <2>2, StepKeepsTypes DEF ExecuteReturns
<1>5. CASE StatusReturns(t)
  <2>1. PICK v \in Inspected(task[t]) :
            Step(t, j, Observe(Refreshed(job[j], v)), IdleTask)
    BY <1>5 DEF StatusReturns
  <2> QED
    BY <1>1, <1>3, <1>5, <2>1, StepKeepsTypes DEF StatusReturns
<1>6. CASE RefreshReturns(t)
  <2>1. PICK v \in Inspected(task[t]) : Step(t, j, Refreshed(job[j], v), IdleTask)
    BY <1>6 DEF RefreshReturns
  <2> QED
    BY <1>1, <1>2, <1>6, <2>1, StepKeepsTypes DEF RefreshReturns
<1> QED
  BY <1>4, <1>5, <1>6

LEMMA SignalledType ==
    ASSUME NEW g \in GroupRecord, NEW at
    PROVE  Signalled(g, at) \in GroupRecord
<1> DEFINE hit == g.hit \/ Foreign \in g.live
           doomed == g.doomed \/ at = "kill"
<1>1. hit \in BOOLEAN /\ doomed \in BOOLEAN
  OBVIOUS
<1>2. Signalled(g, at) = [g EXCEPT !.hit = hit, !.doomed = doomed]
  BY DEF Signalled
<1> HIDE DEF hit, doomed
<1> QED
  BY <1>1, <1>2 DEF GroupRecord

StopStep(t) ==
    \/ StopBefore(t) \/ StopSignals(t) \/ StopEsrch(t) \/ StopPolls(t)
    \/ StopPollsAgain(t) \/ TermDeadline(t) \/ KillDeadline(t) \/ StopAfterTerm(t)

LEMMA StopStepType == ASSUME TypeOK, NEW t \in Tasks, StopStep(t) PROVE TypeOK'
<1> DEFINE tk == task[t]
           j  == tk.job
<1>1. /\ tk \in TaskRecord /\ j \in Jobs /\ job[j] \in JobRecord /\ clock \in Nat
      /\ os \in [Jobs -> GroupRecord] /\ registry \subseteq Jobs
  BY ResumedTypes
  DEF TypeOK, StopStep, StopBefore, StopSignals, StopEsrch, StopPolls, StopPollsAgain,
      Resumed, PausePcs, TermDeadline, KillDeadline, DeadlinePasses, StopAfterTerm
<1> HIDE DEF tk, j
<1>2. ASSUME NEW v PROVE Learned(job[j], v) \in JobRecord
  BY <1>1, LearnedType
<1>3. ASSUME NEW v PROVE [Learned(job[j], v) EXCEPT !.stopReason = "none"] \in JobRecord
  BY <1>2, StopReasonType DEF Reasons
<1>4. [job[j] EXCEPT !.stopReason = "none"] \in JobRecord
  BY <1>1, StopReasonType DEF Reasons
<1>5. ASSUME NEW r \in JobRecord PROVE Typed(r, Thrown)
  BY IdleTyped DEF Thrown
<1>6. ASSUME NEW v, NEW reason
      PROVE  Typed(FinalizeStopped(Learned(job[j], v), reason), Returned(tk))
  BY <1>1, <1>2, StoppedType, ReturnedTyped
<1>7. ASSUME NEW r \in JobRecord, NEW at \in ScanPcs
      PROVE  Typed(r, Scan(tk, j, r, at))
  BY <1>1, ScanTyped DEF ScanPcs, StopPcs, PausePcs
<1>8. StopBefore(t) => TypeOK'
  <2> SUFFICES ASSUME StopBefore(t) PROVE TypeOK'
    OBVIOUS
  <2>1. "term" \in ScanPcs
    BY DEF ScanPcs, StopPcs, PausePcs
  <2>2. PICK v \in Inspected(tk) :
            \/ Step(t, j, FinalizeStopped(Learned(job[j], v), Reason(tk)), Returned(tk))
            \/ Step(t, j, [Learned(job[j], v) EXCEPT !.stopReason = "none"], Thrown)
            \/ Step(t, j, Learned(job[j], v), Scan(tk, j, Learned(job[j], v), "term"))
    BY DEF StopBefore, tk, j
  <2>3. UNCHANGED <<clock, registry, os>>
    BY DEF StopBefore
  <2> QED
    BY <1>1, <1>2, <1>3, <1>5, <1>6, <1>7, <2>1, <2>2, <2>3, StepKeepsTypes
<1>9. StopSignals(t) => TypeOK'
  <2> SUFFICES ASSUME StopSignals(t) PROVE TypeOK'
    OBVIOUS
  <2>1. AfterSignal(tk.pc) \in ScanPcs /\ OnEsrch(tk.pc) \in ScanPcs
    BY DEF AfterSignal, OnEsrch, ScanPcs, StopPcs, PausePcs
  <2>2. PICK v \in Inspected(tk) :
            \/ Step(t, j, Learned(job[j], v), Thrown)
            \/ Step(t, j, Learned(job[j], v), Scan(tk, j, Learned(job[j], v), AfterSignal(tk.pc)))
            \/ Step(t, j, Learned(job[j], v), Scan(tk, j, Learned(job[j], v), OnEsrch(tk.pc)))
    BY DEF StopSignals, tk, j
  <2>3. /\ UNCHANGED <<clock, registry>>
        /\ os' = os \/ os' = [os EXCEPT ![j] = Signalled(os[j], tk.pc)]
    BY DEF StopSignals, tk, j
  <2>4. os' \in [Jobs -> GroupRecord]
    BY <1>1, <2>3, SignalledType
  <2> QED
    BY <1>1, <1>2, <1>5, <1>7, <2>1, <2>2, <2>3, <2>4, StepKeepsTypes
<1>10. StopEsrch(t) => TypeOK'
  <2> SUFFICES ASSUME StopEsrch(t) PROVE TypeOK'
    OBVIOUS
  <2> DEFINE at == IF tk.pc = "termEsrch" THEN "termWait" ELSE "killWait"
  <2>1. at \in ScanPcs
    BY DEF ScanPcs, StopPcs, PausePcs
  <2>2. PICK v \in Inspected(tk) :
            \/ Step(t, j, Learned(job[j], v), Thrown)
            \/ Step(t, j, Learned(job[j], v), Scan(tk, j, Learned(job[j], v), at))
    BY DEF StopEsrch, tk, j
  <2>3. UNCHANGED <<clock, registry, os>>
    BY DEF StopEsrch
  <2> HIDE DEF at
  <2> QED
    BY <1>1, <1>2, <1>5, <1>7, <2>1, <2>2, <2>3, StepKeepsTypes
<1>11. StopPolls(t) => TypeOK'
  <2> SUFFICES ASSUME StopPolls(t) PROVE TypeOK'
    OBVIOUS
  <2>1. tk.job = j
    BY DEF tk, j
  <2>2. ASSUME NEW r \in JobRecord PROVE Typed(r, Paused(tk))
    BY <1>1, <2>1, PausedTyped
  <2>3. PICK v \in Inspected(tk) :
            \/ Step(t, j, FinalizeStopped(Learned(job[j], v), Reason(tk)), Returned(tk))
            \/ Step(t, j, Learned(job[j], v), Paused(tk))
    BY DEF StopPolls, tk, j
  <2>4. UNCHANGED <<clock, registry, os>>
    BY DEF StopPolls
  <2> QED
    BY <1>1, <1>2, <1>6, <2>2, <2>3, <2>4, StepKeepsTypes
<1>12. StopPollsAgain(t) => TypeOK'
  <2> SUFFICES ASSUME StopPollsAgain(t) PROVE TypeOK'
    OBVIOUS
  <2> DEFINE at == IF tk.pc = "termPause" THEN "termWait" ELSE "killWait"
  <2>1. at \in ScanPcs
    BY DEF ScanPcs, StopPcs, PausePcs
  <2>2. /\ Step(t, j, job[j], Scan(tk, j, job[j], at))
        /\ UNCHANGED <<clock, registry, os>>
    BY DEF StopPollsAgain, tk, j
  <2> HIDE DEF at
  <2> QED
    BY <1>1, <1>7, <2>1, <2>2, StepKeepsTypes
<1>13. TermDeadline(t) => TypeOK'
  <2> SUFFICES ASSUME TermDeadline(t) PROVE TypeOK'
    OBVIOUS
  <2>1. "afterTerm" \in ScanPcs
    BY DEF ScanPcs, StopPcs, PausePcs
  <2>2. /\ Step(t, j, job[j], Scan(tk, j, job[j], "afterTerm"))
        /\ UNCHANGED <<clock, registry, os>>
    BY DEF TermDeadline, tk, j
  <2> QED
    BY <1>1, <1>7, <2>1, <2>2, StepKeepsTypes
<1>14. KillDeadline(t) => TypeOK'
  <2> SUFFICES ASSUME KillDeadline(t) PROVE TypeOK'
    OBVIOUS
  <2>1. /\ Step(t, j, [job[j] EXCEPT !.stopReason = "none"], Thrown)
        /\ UNCHANGED <<clock, registry, os>>
    BY DEF KillDeadline, j, tk
  <2> QED
    BY <1>1, <1>4, <1>5, <2>1, StepKeepsTypes
<1>15. StopAfterTerm(t) => TypeOK'
  <2> SUFFICES ASSUME StopAfterTerm(t) PROVE TypeOK'
    OBVIOUS
  <2>1. "kill" \in ScanPcs /\ "killWait" \in ScanPcs
    BY DEF ScanPcs, StopPcs, PausePcs
  <2>2. PICK v \in Inspected(tk) :
            \/ Step(t, j, Learned(job[j], v), Scan(tk, j, Learned(job[j], v), "kill"))
            \/ Step(t, j, Learned(job[j], v), Scan(tk, j, Learned(job[j], v), "killWait"))
            \/ Step(t, j, [Learned(job[j], v) EXCEPT !.stopReason = "none"], Thrown)
    BY DEF StopAfterTerm, tk, j
  <2>3. UNCHANGED <<clock, registry, os>>
    BY DEF StopAfterTerm
  <2> QED
    BY <1>1, <1>2, <1>3, <1>5, <1>7, <2>1, <2>2, <2>3, StepKeepsTypes
<1> QED
  BY <1>8, <1>9, <1>10, <1>11, <1>12, <1>13, <1>14, <1>15 DEF StopStep

LEMMA WaitEndsType == ASSUME TypeOK, NEW t \in Tasks, WaitEnds(t) PROVE TypeOK'
<1> DEFINE j == task[t].job
<1>1. /\ task[t] \in TaskRecord /\ j \in Jobs /\ job[j] \in JobRecord
      /\ os \in [Jobs -> GroupRecord]
  BY ResumedTypes DEF WaitEnds, Resumed
<1>2. Typed(job[j], Scan(task[t], j, job[j], "refresh"))
  BY <1>1, ScanTyped DEF ScanPcs, StopPcs, PausePcs
<1>3. Typed(job[j], IdleTask)
  BY <1>1, IdleTyped
<1>4. /\ \/ task' = [task EXCEPT ![t] = Scan(task[t], j, job[j], "refresh")]
         \/ task' = [task EXCEPT ![t] = IdleTask]
      /\ UNCHANGED <<clock, job, os>>
      /\ registry' \subseteq Jobs
  BY <1>1 DEF WaitEnds, Replied, TypeOK
<1>5. job' = [job EXCEPT ![j] = job[j]]
  BY <1>4 DEF TypeOK
<1> QED
  BY <1>1, <1>2, <1>3, <1>4, <1>5, StepKeepsTypes DEF Step, TypeOK

SweepStep(t) ==
    \/ \E j \in Jobs : SweepVisits(t, j)
    \/ SweepRefreshed(t) \/ ProbeSettles(t) \/ ProbeRecords(t)
    \/ ProbeTooSoon(t) \/ ProbeReaps(t) \/ SweepEnds(t)

ProbeStep(t) ==
    ProbeSettles(t) \/ ProbeRecords(t) \/ ProbeTooSoon(t) \/ ProbeReaps(t)

LEMMA ProbeStepType == ASSUME TypeOK, NEW t \in Tasks, ProbeStep(t) PROVE TypeOK'
<1> DEFINE tk == task[t]
           j  == tk.job
<1>1. /\ tk \in TaskRecord /\ j \in Jobs /\ job[j] \in JobRecord /\ clock \in Nat
      /\ os \in [Jobs -> GroupRecord] /\ registry \subseteq Jobs
      /\ UNCHANGED <<clock, registry, os>>
  BY ResumedTypes
  DEF TypeOK, ProbeStep, ProbeSettles, ProbeRecords, ProbeTooSoon, ProbeReaps, Resumed
<1> HIDE DEF tk, j
<1>2. ASSUME NEW r \in JobRecord PROVE Typed(r, Returned(tk))
  BY <1>1, ReturnedTyped
<1>3. ProbeSettles(t) => TypeOK'
  <2> SUFFICES ASSUME ProbeSettles(t) PROVE TypeOK'
    OBVIOUS
  <2>1. ASSUME NEW v PROVE /\ Learned(job[j], v) \in JobRecord
                           /\ FinalizeNaturalCompletion(Learned(job[j], v)) \in JobRecord
    BY <1>1, LearnedType, NaturalType
  <2>2. PICK v \in Inspected(tk) :
            \/ Step(t, j, Learned(job[j], v), Returned(tk))
            \/ Step(t, j, FinalizeNaturalCompletion(Learned(job[j], v)), Returned(tk))
    BY DEF ProbeSettles, tk, j
  <2> QED
    BY <1>1, <1>2, <2>1, <2>2, StepKeepsTypes
<1>4. ProbeRecords(t) => TypeOK'
  <2> SUFFICES ASSUME ProbeRecords(t) PROVE TypeOK'
    OBVIOUS
  <2>1. Stored(tk) \in Evidence
    BY <1>1 DEF Stored, Evidence, TaskRecord
  <2>2. [job[j] EXCEPT !.evidence = Stored(tk)] \in JobRecord
    BY <1>1, <2>1 DEF JobRecord, Evidence
  <2>3. Step(t, j, [job[j] EXCEPT !.evidence = Stored(tk)], Returned(tk))
    BY DEF ProbeRecords, tk, j
  <2> QED
    BY <1>1, <1>2, <2>2, <2>3, StepKeepsTypes
<1>5. ProbeTooSoon(t) => TypeOK'
  <2> SUFFICES ASSUME ProbeTooSoon(t) PROVE TypeOK'
    OBVIOUS
  <2>1. Step(t, j, job[j], Returned(tk))
    BY DEF ProbeTooSoon, tk, j
  <2> QED
    BY <1>1, <1>2, <2>1, StepKeepsTypes
<1>6. ProbeReaps(t) => TypeOK'
  <2> SUFFICES ASSUME ProbeReaps(t) PROVE TypeOK'
    OBVIOUS
  <2>1. Reason(tk) \in Reasons
    BY DEF Reason, Reasons
  <2>2. [job[j] EXCEPT !.stopReason = Reason(tk)] \in JobRecord
    BY <1>1, <2>1, StopReasonType
  <2>3. Typed([job[j] EXCEPT !.stopReason = Reason(tk)], Scan(tk, j, job[j], "before"))
    BY <1>1, <2>2, ScanTyped DEF ScanPcs, PausePcs, StopPcs
  <2>4. Typed(job[j], Thrown)
    BY <1>1, IdleTyped DEF Thrown
  <2>5. \/ Step(t, j, job[j], Thrown)
        \/ Step(t, j, job[j], Returned(tk))
        \/ Step(t, j, [job[j] EXCEPT !.stopReason = Reason(tk)], Scan(tk, j, job[j], "before"))
    BY DEF ProbeReaps, StopBegins, tk, j
  <2> QED
    BY <1>1, <1>2, <2>3, <2>4, <2>5, StepKeepsTypes
<1> QED
  BY <1>3, <1>4, <1>5, <1>6 DEF ProbeStep

LEMMA SweepStepType == ASSUME TypeOK, NEW t \in Tasks, SweepStep(t) PROVE TypeOK'
<1>1. ASSUME NEW j \in Jobs, SweepVisits(t, j) PROVE TypeOK'
  <2> DEFINE tk == [task[t] EXCEPT !.todo = @ \ {j}]
  <2>1. /\ tk \in TaskRecord /\ tk.pc = "loop"
        /\ job[j] \in JobRecord /\ os \in [Jobs -> GroupRecord]
    BY <1>1 DEF TypeOK, SweepVisits, Resumed, TaskRecord
  <2>2. /\ \/ task' = [task EXCEPT ![t] = tk]
           \/ task' = [task EXCEPT ![t] = Scan(tk, j, job[j], "refresh")]
           \/ task' = [task EXCEPT ![t] = Consider(tk, j, job[j])]
        /\ UNCHANGED <<clock, registry, job, os>>
    BY <1>1 DEF SweepVisits
  <2> HIDE DEF tk
  <2>3. Typed(job[j], tk)
    BY <2>1 DEF Typed
  <2>4. Typed(job[j], Scan(tk, j, job[j], "refresh"))
    BY <2>1, ScanTyped DEF ScanPcs, StopPcs, PausePcs
  <2>5. Typed(job[j], Consider(tk, j, job[j]))
    BY <2>1, ConsiderTyped
  <2>6. job' = [job EXCEPT ![j] = job[j]]
    BY <2>2 DEF TypeOK
  <2> QED
    BY <2>2, <2>3, <2>4, <2>5, <2>6, StepKeepsTypes DEF Step, TypeOK
<1>2. ASSUME SweepRefreshed(t) PROVE TypeOK'
  <2> DEFINE tk == task[t]
             j  == tk.job
  <2>1. /\ tk \in TaskRecord /\ j \in Jobs /\ job[j] \in JobRecord /\ clock \in Nat
        /\ os \in [Jobs -> GroupRecord] /\ registry \subseteq Jobs
        /\ UNCHANGED <<clock, registry, os>>
    BY <1>2, ResumedTypes DEF TypeOK, SweepRefreshed, Resumed
  <2>2. PICK v \in Inspected(tk) :
            Step(t, j, Refreshed(job[j], v), Consider(tk, j, Refreshed(job[j], v)))
    BY <1>2 DEF SweepRefreshed
  <2>3. Refreshed(job[j], v) \in JobRecord
    BY <2>1, RefreshedType
  <2> HIDE DEF tk, j
  <2> QED
    BY <2>1, <2>2, <2>3, ConsiderTyped, StepKeepsTypes
<1>3. ASSUME SweepEnds(t) PROVE TypeOK'
  BY <1>3, ConstantTypes DEF SweepEnds, TypeOK, IdleTask
<1> QED
  BY <1>1, <1>2, <1>3, ProbeStepType DEF SweepStep, ProbeStep

LEMMA InitType == ASSUME Init PROVE TypeOK
  BY ConstantTypes DEF Init, TypeOK, IdleTask

LEMMA NextType == ASSUME TypeOK, [Next]_vars PROVE TypeOK'
<1>1. ASSUME NEW t \in Tasks, Resumes(t) PROVE TypeOK'
  BY <1>1, WaitEndsType, ReturnsType, StopStepType, SweepStepType
  DEF Resumes, StopStep, SweepStep
<1>2. CASE UNCHANGED vars
  BY <1>2 DEF vars, TypeOK
<1> QED
  BY <1>1, <1>2, ToolCallsType, EventsType, OperatingSystemType DEF Next

\* Every reachable state has the types TypeOK lists; in particular a suspended
\* activation always works on a job the registry has created.
THEOREM TypeCorrect == Spec => []TypeOK
  BY InitType, NextType, PTL DEF Spec

=============================================================================
