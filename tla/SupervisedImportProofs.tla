----------------------- MODULE SupervisedImportProofs -----------------------
(***************************************************************************)
(* Theorems about the supervisor and the file-transfer backend together.   *)
(* A step of the composition is a step of Supervisor, so what was proved   *)
(* of it holds here.                                                       *)
(***************************************************************************)
EXTENDS SupervisedImport, SupervisorProofs

\* Importing is one of the ways in which a backend may leave the supervisor without an
\* answer.
THEOREM Import_IsSupervised == ImportSpec => Spec
<1>1. ImportInit => Init
  BY DEF ImportInit
<1>2. [ImportNext]_ivars => [Next]_svars
  <2>1. ImportBegins \/ ImportEnds \/ Breaks => Next
    BY FileBackendAssumption DEF ImportBegins, ImportEnds, Breaks, Next, ProcessStep
  <2>2. GoesOn \/ ImportTick => Next
    BY DEF GoesOn, ImportTick, Next, ProcessStep
  <2>3. UNCHANGED ivars => UNCHANGED svars
    BY DEF ivars
  <2> QED
    BY <2>1, <2>2, <2>3 DEF ImportNext
<1> QED
  BY <1>1, <1>2, PTL DEF ImportSpec, Spec

LEMMA StepIsSupervised ==
    ASSUME [ImportNext]_ivars
    PROVE  [Next]_svars
<1>1. ImportBegins \/ ImportEnds \/ Breaks => Next
  BY FileBackendAssumption DEF ImportBegins, ImportEnds, Breaks, Next, ProcessStep
<1>2. GoesOn \/ ImportTick => Next
  BY DEF GoesOn, ImportTick, Next, ProcessStep
<1>3. UNCHANGED ivars => UNCHANGED svars
  BY DEF ivars
<1> QED
  BY <1>1, <1>2, <1>3 DEF ImportNext

(***************************************************************************)
(* How long an import has kept the backend from answering.                 *)
(***************************************************************************)

\* With nothing broken, a backend that was healthy once is missing only while it imports.
Present(b) == b \in ready \/ (b = FileBackend /\ importing)

ImportTypes ==
    /\ importing \in BOOLEAN /\ broken \in BOOLEAN
    /\ span \in 0 .. Tolerable /\ longest \in 0 .. Tolerable
    /\ imports \in 0 .. 2

HistoryInv ==
    /\ span <= longest
    /\ imports = 0 => ~ importing /\ longest = 0
    /\ importing => FileBackend \notin ready

\* The probes of the second loop wait for the import only.
ProbesInv ==
    /\ main \notin {"start", "ended"} => alive = Processes
    /\ \A b \in Backends :
          (main = "probe" /\ seen[b] = "healthy") \/ phase = "monitor" => Present(b)
    /\ main = "probe" /\ phase = "monitor" =>
          /\ \A b \in Backends \ {FileBackend} :
                seen[b] # "unhealthy" /\ (timer < ProbeTimeout => seen[b] = "healthy")
          /\ seen[FileBackend] = "unhealthy" => timer = 0
          /\ seen[FileBackend] # "healthy" => span + timer >= ProbeTimeout
    /\ imports = 0 /\ main # "ended" => failures = 0

\* A single import has lasted for all the turns counted as failures.
SingleInv ==
    phase = "monitor" /\ imports = 1 =>
        /\ main = "check" /\ ~ stopRequested /\ importing => span >= Spent
        /\ main = "wait" /\ ~ stopRequested /\ importing => span + timer >= Spent
        /\ main = "probe" /\ seen[FileBackend] # "healthy" =>
              \/ span + timer >= Spent + ProbeTimeout
              \/ ~ importing /\ timer = ProbeTimeout /\ seen[FileBackend] = "pending"

SoundInv == ProbesInv /\ SingleInv /\ ShortImportsTolerated

ImportInv == ImportTypes /\ HistoryInv /\ (~ broken => SoundInv)

LEMMA TolerableIs ==
    /\ Turn \in Nat /\ Turn = ProbeInterval + ProbeTimeout
    /\ Tolerable \in Nat /\ Tolerable >= ProbeTimeout
<1>1. Turn \in Nat /\ Turn = ProbeInterval + ProbeTimeout
  BY Durations DEF Turn
<1>2. PICK m \in Nat : FailureThreshold = m + 1
  <2>1. FailureThreshold - 1 \in Nat /\ FailureThreshold = (FailureThreshold - 1) + 1
    BY Durations
  <2> QED
    BY <2>1
<1>3. Tolerable = m * Turn + ProbeTimeout /\ m * Turn \in Nat
  BY <1>1, <1>2, Durations, SMT DEF Tolerable
<1> QED
  BY <1>1, <1>3, Durations

LEMMA TolerableTurns == Tolerable = (FailureThreshold - 1) * Turn + ProbeTimeout
<1>1. PICK m \in Nat : FailureThreshold = m + 1
  <2>1. FailureThreshold - 1 \in Nat /\ FailureThreshold = (FailureThreshold - 1) + 1
    BY Durations
  <2> QED
    BY <2>1
<1>2. Tolerable = m * Turn + ProbeTimeout
  BY <1>1, TolerableIs, Durations, SMT DEF Tolerable
<1>3. FailureThreshold - 1 = m
  BY <1>1
<1> QED
  BY <1>2, <1>3

LEMMA SpentFits ==
    ASSUME BaseInv, main # "ended"
    PROVE  /\ Spent \in Nat /\ Spent + ProbeTimeout <= Tolerable
           /\ failures + 1 >= FailureThreshold => Spent + ProbeTimeout = Tolerable
<1>1. failures \in Nat /\ failures < FailureThreshold
  BY DEF BaseInv, TypeOK, LoopInv
<1>2. PICK k \in Nat : FailureThreshold - 1 = failures + k
  <2>1. FailureThreshold - 1 - failures \in Nat
        /\ FailureThreshold - 1 = failures + (FailureThreshold - 1 - failures)
    BY <1>1, Durations
  <2> QED
    BY <2>1
<1>3. (FailureThreshold - 1) * Turn = failures * Turn + k * Turn /\ k * Turn \in Nat
      /\ failures * Turn \in Nat
  BY <1>1, <1>2, TolerableIs, SMT
<1>4. failures + 1 >= FailureThreshold => k * Turn = 0
  BY <1>1, <1>2, TolerableIs, Durations, SMT
<1> QED
  BY <1>3, <1>4, TolerableIs, TolerableTurns, Durations DEF Spent

\* The history variables, in every step.
LEMMA HistoryInductive ==
    ASSUME BaseInv, ImportTypes, HistoryInv, [ImportNext]_ivars
    PROVE  ImportTypes' /\ HistoryInv'
<1> USE FileBackendAssumption, TolerableIs DEF ImportTypes, HistoryInv
<1>1. CASE ImportBegins
  <2>1. importing' \in BOOLEAN /\ FileBackend \notin ready'
    BY <1>1 DEF ImportBegins, Hangs, BaseInv, TypeOK
  <2>2. imports' \in 1 .. 2 /\ UNCHANGED <<span, longest, broken>>
    BY <1>1 DEF ImportBegins, Smaller
  <2> QED
    BY <2>1, <2>2
<1>2. CASE ImportEnds
  <2>1. importing' \in BOOLEAN /\ ~ importing'
    BY <1>2 DEF ImportEnds
  <2> QED
    BY <1>2, <2>1 DEF ImportEnds
<1>3. CASE Breaks
  <2>1. importing' \in BOOLEAN /\ broken' \in BOOLEAN /\ (importing' => importing)
    BY <1>3 DEF Breaks
  <2>2. ready' \subseteq ready
    BY <1>3 DEF Breaks, Dies, Hangs
  <2> QED
    BY <1>3, <2>1, <2>2 DEF Breaks
<1>4. CASE GoesOn
  <2>1. importing => FileBackend \notin ready'
    BY <1>4 DEF GoesOn, SupervisorStep, StartFails, Spawn, HandlersInstalled, StartupExpires,
       StopBegins, ProxyExited, ProbeBegins, ProbeTimesOut, ProbeFinds, ProbeHealthy,
       StartupProbeBad, Tolerated, FailsClosed, WaitEnds, StopEnds, GraceEnds, StopGivesUp,
       StopSignal, ProbeAnswered, ProbeRefused, Answers, Downloads, processVars
  <2> QED
    BY <1>4, <2>1 DEF GoesOn, importVars
<1>5. CASE ImportTick
  <2>1. span' \in 0 .. Tolerable /\ longest' \in 0 .. Tolerable /\ span' <= longest'
    BY <1>5 DEF ImportTick, Smaller
  <2>2. imports = 0 => longest' = 0
    BY <1>5 DEF ImportTick
  <2> QED
    BY <1>5, <2>1, <2>2 DEF ImportTick, Tick, Passes, processVars
<1>6. CASE UNCHANGED ivars
  BY <1>6 DEF ivars, importVars, svars, processVars
<1> QED
  BY <1>1, <1>2, <1>3, <1>4, <1>5, <1>6 DEF ImportNext

\* What the supervisor's own invariant says of the probe.
LEMMA ProbeFacts ==
    ASSUME BaseInv
    PROVE  /\ seen \in [Backends -> {"pending", "healthy", "unhealthy"}]
           /\ timer \in Nat /\ (main = "probe" => timer <= ProbeTimeout)
           /\ main \in {"start", "spawned"} => phase = "startup"
           /\ phase \in {"startup", "monitor"} /\ (phase = "startup" => failures = 0)
           /\ main # "ended" => returned = "no"
           /\ main \in {"term", "kill"} => stopRequested
           /\ failures \in Nat /\ alive \subseteq Processes
BY DEF BaseInv, TypeOK, LoopInv

\* In the second loop every backend is able, but for one that imports.
LEMMA OthersAble ==
    ASSUME BaseInv, ProbesInv, phase = "monitor", main # "ended",
           NEW b \in Backends, b # FileBackend \/ ~ importing
    PROVE  Able(b)
<1>1. alive = Processes
  BY ProbeFacts DEF ProbesInv
<1>2. b \in ready
  BY DEF ProbesInv, Present
<1> QED
  BY <1>1, <1>2 DEF Able, Processes

LEMMA SoundWhenImportBegins ==
    ASSUME BaseInv, ImportTypes, HistoryInv, SoundInv, ImportBegins
    PROVE  SoundInv'
<1>1. /\ UNCHANGED <<main, phase, failures, stopRequested, timer, seen, returned, alive>>
      /\ UNCHANGED <<span, longest>> /\ ready' = ready \ {FileBackend} /\ importing'
      /\ imports' \in Nat /\ (imports' = 1 => imports = 0) /\ imports' # 0
  BY DEF ImportBegins, Hangs, supervisorVars, Smaller, ImportTypes
<1>2. ProbesInv'
  BY <1>1 DEF SoundInv, ProbesInv, Present
<1>3. Spent' = Spent
  BY <1>1 DEF Spent, Turn
<1>4. imports = 0 /\ main # "ended" => Spent = 0
  BY TolerableIs, SMT DEF Spent, SoundInv, ProbesInv
<1>5. SingleInv'
  BY <1>1, <1>3, <1>4, ProbeFacts, FileBackendAssumption, Durations
     DEF SoundInv, SingleInv, ProbesInv, ImportTypes
<1>6. ShortImportsTolerated'
  <2> SUFFICES ASSUME (returned = "failed")', (phase = "monitor")', ~ broken'
               PROVE  (longest >= ProbeTimeout /\ imports # 1)'
    BY DEF ShortImportsTolerated
  <2>1. UNCHANGED broken
    BY DEF ImportBegins
  <2>2. longest >= ProbeTimeout
    BY <1>1, <2>1 DEF SoundInv, ShortImportsTolerated
  <2> QED
    BY <1>1, <2>2, Durations DEF HistoryInv
<1> QED
  BY <1>2, <1>5, <1>6 DEF SoundInv

LEMMA SoundWhenImportEnds ==
    ASSUME BaseInv, ImportTypes, HistoryInv, SoundInv, ImportEnds
    PROVE  SoundInv'
<1>1. /\ UNCHANGED <<main, phase, failures, stopRequested, timer, seen, returned, alive>>
      /\ UNCHANGED <<span, longest, imports, broken>>
      /\ ready' = ready \union {FileBackend} /\ ~ importing'
  BY DEF ImportEnds, Answers, supervisorVars
<1>2. ProbesInv'
  BY <1>1 DEF SoundInv, ProbesInv, Present
<1>3. Spent' = Spent
  BY <1>1 DEF Spent, Turn
<1>4. SingleInv'
  BY <1>1, <1>3 DEF SoundInv, SingleInv
<1>5. ShortImportsTolerated'
  BY <1>1 DEF SoundInv, ShortImportsTolerated
<1> QED
  BY <1>2, <1>4, <1>5 DEF SoundInv

LEMMA SoundWhenTimePasses ==
    ASSUME BaseInv, ImportTypes, HistoryInv, SoundInv, ImportTick
    PROVE  SoundInv'
<1> USE FileBackendAssumption, Durations, TolerableIs
<1>1. /\ UNCHANGED <<main, phase, failures, stopRequested, seen, returned, alive, ready>>
      /\ UNCHANGED <<importing, imports, broken>> /\ main # "ended"
  BY DEF ImportTick, Tick, Passes, processVars
<1>2. /\ main \notin {"start", "spawned", "check"}
      /\ main \in {"probe", "wait"} => timer > 0 /\ timer' = timer - 1
      /\ main = "probe" => \A b \in Backends : seen[b] = "pending" => ~ Able(b)
      /\ main = "probe" => \E b \in Backends : seen[b] = "pending"
  BY ProbeFacts DEF ImportTick, Tick, Passes, Urgent, Pending
<1>3. /\ importing => span' = Smaller(span + 1, Tolerable)
      /\ span \in Nat /\ span' \in Nat
  BY DEF ImportTick, Smaller, ImportTypes
\* In the second loop only the import is waited for.
<1>4. ASSUME main = "probe", phase = "monitor"
      PROVE  /\ importing /\ seen[FileBackend] = "pending"
             /\ \A b \in Backends \ {FileBackend} : seen[b] = "healthy"
  <2>1. \A b \in Backends : (b # FileBackend \/ ~ importing) => seen[b] # "pending"
    BY <1>1, <1>2, <1>4, OthersAble DEF SoundInv
  <2> QED
    BY <1>2, <1>4, <2>1, ProbeFacts DEF SoundInv, ProbesInv
<1>5. ProbesInv'
  <2>1. \A b \in Backends :
          ((main = "probe" /\ seen[b] = "healthy") \/ phase = "monitor" => Present(b))'
    BY <1>1 DEF SoundInv, ProbesInv, Present
  <2>2. ASSUME main = "probe", phase = "monitor"
        PROVE  span' + timer' >= ProbeTimeout
    BY <1>2, <1>3, <1>4, <2>2, ProbeFacts DEF SoundInv, ProbesInv, Smaller
  <2> QED
    BY <1>1, <1>4, <2>1, <2>2, ProbeFacts DEF SoundInv, ProbesInv
<1>6. Spent' = Spent /\ Spent \in Nat /\ Spent + ProbeTimeout <= Tolerable
  BY <1>1, SpentFits DEF Spent, Turn
<1>7. SingleInv'
  <2> SUFFICES ASSUME phase = "monitor", imports = 1
               PROVE  SingleInv'
    BY <1>1 DEF SingleInv
  <2>1. ASSUME main = "wait", ~ stopRequested, importing
        PROVE  span' + timer' >= Spent
    BY <1>2, <1>3, <1>6, <2>1, ProbeFacts DEF SoundInv, SingleInv, Smaller
  <2>2. ASSUME main = "probe" PROVE span' + timer' >= Spent + ProbeTimeout
    BY <1>2, <1>3, <1>4, <1>6, <2>2, ProbeFacts DEF SoundInv, SingleInv, Smaller
  <2> QED
    BY <1>1, <1>2, <1>6, <2>1, <2>2 DEF SingleInv
<1>8. ShortImportsTolerated'
  BY <1>1, ProbeFacts DEF ShortImportsTolerated
<1> QED
  BY <1>5, <1>7, <1>8 DEF SoundInv

\* A probe that fails has failed for the importing backend, at its end.
LEMMA BadProbeIsImport ==
    ASSUME BaseInv, HistoryInv, ImportTypes, ProbesInv, ProbeBad, phase = "monitor"
    PROVE  /\ main = "probe" /\ seen[FileBackend] = "unhealthy" /\ timer = 0
           /\ longest >= ProbeTimeout /\ imports # 0
<1>1. PICK b \in Backends : seen[b] = "unhealthy"
  BY ProbeFacts DEF ProbeBad, Healthy, Pending
<1>2. main = "probe" /\ seen[FileBackend] = "unhealthy"
  BY <1>1 DEF ProbeBad, ProbesInv
<1>3. timer = 0 /\ span + timer >= ProbeTimeout
  BY <1>2 DEF ProbesInv
<1> QED
  BY <1>2, <1>3, Durations DEF HistoryInv, ImportTypes

\* The steps of the supervisor that end it, or that follow the request of a stop.
LEMMA SoundWhenLeaving ==
    ASSUME BaseInv, ImportTypes, HistoryInv, SoundInv, UNCHANGED importVars, ~ broken,
           \/ StartFails \/ StartupExpires \/ StopBegins \/ ProxyExited \/ StopEnds
           \/ GraceEnds \/ StopGivesUp
    PROVE  SoundInv'
<1>1. /\ UNCHANGED <<importing, span, longest, imports, broken, alive, ready, phase, failures>>
      /\ main' \in {"ended", "term", "kill"}
      /\ main' # "ended" => main # "start" /\ main # "ended" /\ returned' = returned
  BY DEF StartFails, StartupExpires, StopBegins, ProxyExited, StopEnds, GraceEnds, StopGivesUp,
         Exit, InLoop, importVars, processVars
<1>2. ProbesInv'
  BY <1>1 DEF SoundInv, ProbesInv, Present
<1>3. SingleInv'
  BY <1>1 DEF SingleInv
<1>4. returned' = "failed" => phase' = "startup"
  <2>1. CASE StartFails \/ StartupExpires
    BY <2>1, ProbeFacts DEF StartFails, StartupExpires
  <2>2. CASE ProxyExited
    <3>1. Proxy \in alive
      BY <2>2, ProbeFacts DEF ProxyExited, InLoop, SoundInv, ProbesInv, Processes
    <3> QED
      BY <2>2, <3>1 DEF ProxyExited
  <2>3. CASE StopBegins \/ StopEnds \/ GraceEnds \/ StopGivesUp
    BY <2>3, ProbeFacts DEF StopBegins, StopEnds, GraceEnds, StopGivesUp, InLoop, Exit
  <2> QED
    BY <2>1, <2>2, <2>3
<1> QED
  BY <1>2, <1>3, <1>4 DEF SoundInv, ShortImportsTolerated

\* The steps that go on.
LEMMA SoundWhenGoingOn ==
    ASSUME BaseInv, ImportTypes, HistoryInv, SoundInv, UNCHANGED importVars, ~ broken,
           \/ Spawn \/ HandlersInstalled \/ ProbeBegins \/ ProbeHealthy \/ StartupProbeBad
           \/ Tolerated \/ WaitEnds
    PROVE  SoundInv'
<1> USE FileBackendAssumption, Durations, TolerableIs DEF importVars, processVars, historyVars
<1>1. main # "ended" /\ main' # "ended" /\ returned' = "no"
  BY ProbeFacts DEF Spawn, HandlersInstalled, ProbeBegins, ProbeHealthy, StartupProbeBad,
                    Tolerated, WaitEnds, ProbeBad, InLoop
<1>2. ShortImportsTolerated'
  BY <1>1 DEF ShortImportsTolerated
<1>3. Spent \in Nat /\ Spent + ProbeTimeout <= Tolerable /\ span \in Nat
  BY <1>1, SpentFits DEF ImportTypes
<1>4. CASE Spawn \/ HandlersInstalled
  <2>1. phase' = "startup" /\ main' \in {"spawned", "check"} /\ alive' = Processes
    BY <1>4, ProbeFacts DEF Spawn, HandlersInstalled, SoundInv, ProbesInv
  <2>2. ProbesInv'
    BY <1>4, <2>1 DEF Spawn, HandlersInstalled, SoundInv, ProbesInv
  <2> QED
    BY <1>2, <2>1, <2>2 DEF SoundInv, SingleInv
<1>5. CASE ProbeBegins
  <2>1. /\ main = "check" /\ main' = "probe" /\ timer' = ProbeTimeout /\ ~ stopRequested
        /\ \A b \in Backends : seen'[b] = "pending"
        /\ UNCHANGED <<phase, failures, stopRequested, alive, ready>>
    BY <1>5 DEF ProbeBegins, InLoop
  <2>2. ProbesInv'
    BY <1>3, <2>1 DEF SoundInv, ProbesInv, Present
  <2>3. SingleInv'
    <3>1. Spent' = Spent
      BY <2>1 DEF Spent, Turn
    <3> QED
      BY <1>3, <2>1, <3>1 DEF SoundInv, SingleInv
  <2> QED
    BY <1>2, <2>2, <2>3 DEF SoundInv
<1>6. CASE ProbeHealthy
  <2>1. /\ main = "probe" /\ main' \in {"check", "wait"} /\ timer' \in Nat /\ failures' = 0
        /\ \A b \in Backends : seen[b] = "healthy"
        /\ UNCHANGED <<alive, ready, stopRequested>>
    BY <1>6, ProbeFacts DEF ProbeHealthy, Healthy
  <2>2. ProbesInv'
    BY <2>1 DEF SoundInv, ProbesInv, Present
  <2>3. Spent' = 0
    BY <2>1, SpentIs
  <2>4. SingleInv'
    <3>1. UNCHANGED span
      OBVIOUS
    <3>2. \A m, n \in Nat : m >= 0 /\ m + n >= 0
      OBVIOUS
    <3>3. span \in Nat /\ timer' \in Nat
      BY <1>3, <2>1
    <3>4. span >= 0 /\ span + timer' >= 0
      BY <3>2, <3>3, Zenon
    <3> QED
      BY <2>1, <2>3, <3>1, <3>4 DEF SingleInv
  <2> QED
    BY <1>2, <2>2, <2>4 DEF SoundInv
<1>7. CASE StartupProbeBad
  <2>1. /\ main = "probe" /\ main' = "wait" /\ phase = "startup"
        /\ UNCHANGED <<phase, failures, alive, ready>>
    BY <1>7 DEF StartupProbeBad, ProbeBad
  <2> QED
    BY <1>2, <2>1 DEF SoundInv, ProbesInv, SingleInv
<1>8. CASE Tolerated
  <2>1. /\ main' = "wait" /\ timer' = ProbeInterval /\ failures' = failures + 1
        /\ phase = "monitor" /\ ProbeBad
        /\ UNCHANGED <<phase, stopRequested, alive, ready>>
    BY <1>8 DEF Tolerated
  <2>2. /\ main = "probe" /\ seen[FileBackend] = "unhealthy" /\ timer = 0 /\ imports # 0
    BY <2>1, BadProbeIsImport DEF SoundInv
  <2>3. ProbesInv'
    BY <2>1, <2>2 DEF SoundInv, ProbesInv, Present
  <2>4. Spent' = Spent + Turn
    BY <2>1, SpentIs
  <2>5. SingleInv'
    BY <1>3, <2>1, <2>2, <2>4 DEF SoundInv, SingleInv
  <2> QED
    BY <1>2, <2>3, <2>5 DEF SoundInv
<1>9. CASE WaitEnds
  <2>1. /\ main = "wait" /\ main' = "check" /\ (timer = 0 \/ stopRequested)
        /\ UNCHANGED <<phase, failures, stopRequested, alive, ready>>
    BY <1>9 DEF WaitEnds
  <2>2. ProbesInv'
    BY <2>1 DEF SoundInv, ProbesInv, Present
  <2>3. Spent' = Spent
    BY <2>1 DEF Spent, Turn
  <2>4. SingleInv'
    BY <1>3, <2>1, <2>3 DEF SoundInv, SingleInv
  <2> QED
    BY <1>2, <2>2, <2>4 DEF SoundInv
<1> QED
  BY <1>4, <1>5, <1>6, <1>7, <1>8, <1>9

LEMMA SoundWhenFailing ==
    ASSUME BaseInv, ImportTypes, HistoryInv, SoundInv, UNCHANGED importVars, ~ broken,
           FailsClosed
    PROVE  SoundInv'
<1>1. /\ main' = "ended" /\ phase = "monitor" /\ ProbeBad /\ failures + 1 >= FailureThreshold
      /\ UNCHANGED <<phase, importing, span, longest, imports, broken, alive, ready>>
  BY DEF FailsClosed, Exit, importVars
<1>2. /\ main = "probe" /\ seen[FileBackend] = "unhealthy" /\ timer = 0
      /\ longest >= ProbeTimeout /\ imports # 0
  BY <1>1, BadProbeIsImport DEF SoundInv
<1>3. imports = 1 => longest = Tolerable
  <2>1. Spent + ProbeTimeout = Tolerable
    BY <1>1, <1>2, SpentFits
  <2>2. imports = 1 => span + timer >= Tolerable
    BY <1>1, <1>2, <2>1 DEF SoundInv, SingleInv
  <2> QED
    BY <1>2, <2>2, TolerableIs DEF HistoryInv, ImportTypes
<1>4. ProbesInv'
  BY <1>1 DEF SoundInv, ProbesInv, Present
<1> QED
  BY <1>1, <1>2, <1>3, <1>4 DEF SoundInv, SingleInv, ShortImportsTolerated

\* An importing backend leaves a probe without an answer, and nobody else does.
LEMMA SoundWhenProbing ==
    ASSUME BaseInv, ImportTypes, HistoryInv, SoundInv, UNCHANGED importVars, ~ broken,
           NEW b \in Backends,
           \/ ProbeAnswered(b) \/ ProbeTimesOut(b)
           \/ ProbeRefused(b) /\ (Downloads(b) => Proxy \notin alive)
    PROVE  SoundInv'
<1> USE FileBackendAssumption, Durations DEF importVars
<1>1. /\ main = "probe" /\ seen[b] = "pending"
      /\ UNCHANGED <<main, phase, failures, stopRequested, timer, returned, alive, ready>>
      /\ UNCHANGED <<importing, span, longest, imports, broken>>
  BY DEF ProbeAnswered, ProbeTimesOut, ProbeRefused, ProbeFinds, Pending, processVars
<1>2. \E what \in {"healthy", "unhealthy"} : seen' = [seen EXCEPT ![b] = what]
  BY DEF ProbeAnswered, ProbeTimesOut, ProbeRefused, ProbeFinds
<1>3. /\ \A d \in Backends : d # b => seen'[d] = seen[d]
      /\ seen'[b] \in {"healthy", "unhealthy"}
  BY <1>2, ProbeFacts
<1>4. seen'[b] = "healthy" => b \in ready
  BY <1>1, <1>3, ProbeFacts DEF ProbeAnswered, ProbeTimesOut, ProbeRefused, ProbeFinds, Able
<1>5. ASSUME phase = "monitor", seen'[b] = "unhealthy"
      PROVE  b = FileBackend /\ timer = 0
  <2>1. alive = Processes
    BY <1>1 DEF SoundInv, ProbesInv
  <2>2. b # FileBackend \/ ~ importing => Able(b)
    BY <1>1, <1>5, OthersAble DEF SoundInv
  <2>3. ~ ProbeAnswered(b)
    BY <1>5, ProbeFacts DEF ProbeAnswered, ProbeFinds
  <2>4. ~ (ProbeRefused(b) /\ (Downloads(b) => Proxy \notin alive))
    BY <2>1, <2>2 DEF ProbeRefused, Downloads, Processes
  <2>5. timer = 0
    BY <2>3, <2>4 DEF ProbeTimesOut
  <2> QED
    BY <1>1, <1>5, <2>5 DEF SoundInv, ProbesInv
<1>6. ProbesInv'
  <2>1. \A d \in Backends :
          ((main = "probe" /\ seen[d] = "healthy") \/ phase = "monitor" => Present(d))'
    BY <1>1, <1>3, <1>4 DEF SoundInv, ProbesInv, Present
  <2> QED
    BY <1>1, <1>3, <1>5, <2>1 DEF SoundInv, ProbesInv
<1>7. Spent' = Spent
  BY <1>1 DEF Spent, Turn
<1>8. SingleInv'
  <2> SUFFICES ASSUME phase = "monitor", imports = 1, seen'[FileBackend] # "healthy"
               PROVE  \/ span + timer >= Spent + ProbeTimeout
                      \/ ~ importing /\ timer = ProbeTimeout /\ seen'[FileBackend] = "pending"
    BY <1>1, <1>7 DEF SingleInv
  <2>1. seen[FileBackend] # "healthy"
    BY <1>1, <1>3
  <2>2. CASE seen'[FileBackend] = seen[FileBackend]
    BY <1>1, <2>1, <2>2 DEF SoundInv, SingleInv
  <2>3. CASE seen'[FileBackend] # seen[FileBackend]
    BY <1>1, <1>3, <1>5, <2>1, <2>3 DEF SoundInv, SingleInv
  <2> QED
    BY <2>2, <2>3
<1>9. ShortImportsTolerated'
  BY <1>1, ProbeFacts DEF ShortImportsTolerated
<1> QED
  BY <1>6, <1>8, <1>9 DEF SoundInv

LEMMA SoundWhenElse ==
    ASSUME BaseInv, ImportTypes, HistoryInv, SoundInv, UNCHANGED importVars, ~ broken,
           \/ StopSignal
           \/ \E b \in Backends : Answers(b) /\ ~ Downloads(b)
           \/ UNCHANGED svars
    PROVE  SoundInv'
<1> USE FileBackendAssumption DEF importVars, svars, supervisorVars, processVars, historyVars
<1>1. /\ UNCHANGED <<phase, failures, seen, alive, importing, span, longest, imports, broken>>
      /\ ready \subseteq ready'
  BY DEF StopSignal, Answers
<1>2. Spent' = Spent
  BY <1>1 DEF Spent, Turn
<1>3. CASE UNCHANGED <<main, timer, stopRequested, returned>>
  <2>1. ProbesInv'
    BY <1>1, <1>3 DEF SoundInv, ProbesInv, Present
  <2>2. SingleInv'
    BY <1>1, <1>2, <1>3 DEF SoundInv, SingleInv
  <2> QED
    BY <1>1, <1>3, <2>1, <2>2 DEF SoundInv, ShortImportsTolerated
<1>4. CASE StopSignal
  <2>1. \/ main' = "ended" /\ returned' = "signalled"
        \/ UNCHANGED <<main, timer, returned>> /\ stopRequested'
    BY <1>4 DEF StopSignal, Exit
  <2>2. CASE main' = "ended" /\ returned' = "signalled"
    BY <1>1, <2>2 DEF SoundInv, ProbesInv, SingleInv, Present, ShortImportsTolerated
  <2>3. CASE UNCHANGED <<main, timer, returned>> /\ stopRequested'
    <3>1. ProbesInv'
      BY <1>1, <2>3 DEF SoundInv, ProbesInv, Present
    <3>2. SingleInv'
      BY <1>1, <1>2, <2>3 DEF SoundInv, SingleInv
    <3> QED
      BY <1>1, <2>3, <3>1, <3>2 DEF SoundInv, ShortImportsTolerated
  <2> QED
    BY <2>1, <2>2, <2>3
<1> QED
  BY <1>3, <1>4 DEF Answers

LEMMA ImportInductive ==
    ASSUME BaseInv, ImportInv, [ImportNext]_ivars
    PROVE  ImportInv'
<1>1. ImportTypes' /\ HistoryInv'
  BY HistoryInductive DEF ImportInv
<1> SUFFICES ASSUME ~ broken' PROVE SoundInv'
  BY <1>1 DEF ImportInv
<1>2. CASE ImportBegins
  BY <1>2, SoundWhenImportBegins DEF ImportInv, ImportBegins
<1>3. CASE ImportEnds
  BY <1>3, SoundWhenImportEnds DEF ImportInv, ImportEnds
<1>4. CASE Breaks
  BY <1>4 DEF Breaks
<1>5. CASE GoesOn
  <2>1. ImportTypes /\ HistoryInv /\ SoundInv /\ ~ broken /\ UNCHANGED importVars
    BY <1>5 DEF GoesOn, ImportInv, importVars
  <2> QED
    BY <1>5, <2>1, SoundWhenLeaving, SoundWhenGoingOn, SoundWhenFailing, SoundWhenProbing,
       SoundWhenElse DEF GoesOn, SupervisorStep
<1>6. CASE ImportTick
  BY <1>6, SoundWhenTimePasses DEF ImportInv, ImportTick
<1>7. CASE UNCHANGED ivars
  <2>1. ImportTypes /\ HistoryInv /\ SoundInv /\ ~ broken /\ UNCHANGED importVars
    BY <1>7 DEF ivars, ImportInv, importVars
  <2> QED
    BY <1>7, <2>1, SoundWhenElse DEF ivars
<1> QED
  BY <1>2, <1>3, <1>4, <1>5, <1>6, <1>7 DEF ImportNext

LEMMA ImportInvariant == ImportSpec => [](BaseInv /\ ImportInv)
<1>1. ImportInit => BaseInv /\ ImportInv
  <2>1. ImportInit => BaseInv
    BY BaseInit DEF ImportInit
  <2>2. ImportInit => importing \in BOOLEAN /\ broken \in BOOLEAN
    BY DEF ImportInit
  <2>4. ImportInit => ImportTypes /\ HistoryInv
    BY <2>2, TolerableIs DEF ImportInit, ImportTypes, HistoryInv
  <2>3. ImportInit => SoundInv
    BY DEF ImportInit, Init, SoundInv, ProbesInv, SingleInv, ShortImportsTolerated
  <2> QED
    BY <2>1, <2>3, <2>4 DEF ImportInv
<1>2. BaseInv /\ ImportInv /\ [ImportNext]_ivars => (BaseInv /\ ImportInv)'
  BY StepIsSupervised, BaseInductive, ImportInductive
<1> QED
  BY <1>1, <1>2, PTL DEF ImportSpec

THEOREM Import_TypeCorrect == ImportSpec => []ImportTypeOK
<1>1. BaseInv /\ ImportInv => ImportTypeOK
  BY DEF BaseInv, ImportInv, ImportTypes, ImportTypeOK
<1> QED
  BY <1>1, ImportInvariant, PTL

\* Short imports never end a workspace in which nothing else is wrong, and one import by
\* itself does not before it has lasted FailureThreshold probes.
THEOREM ShortImports_Tolerated == ImportSpec => []ShortImportsTolerated
<1>1. BaseInv /\ ImportInv => ShortImportsTolerated
  BY DEF ImportInv, SoundInv, ShortImportsTolerated
<1> QED
  BY <1>1, ImportInvariant, PTL

\* Whatever is imported, the supervisor keeps its bounds: an import that goes on for
\* ever is ended with the workspace within DetectionTime, and one under way delays
\* neither the end of startup nor a stop.
THEOREM Import_KeepsDeadlines ==
    ImportSpec => /\ []DetectedInTime
                  /\ []StartupEndsInTime
                  /\ []StopsInTime
                  /\ []StopReachesProxy
                  /\ []FailsOnlyAfterOutages
BY Import_IsSupervised, Detected_InTime, Startup_EndsInTime, Stops_InTime, Stop_ReachesProxy,
   Fails_OnlyAfterOutages, PTL

=============================================================================
