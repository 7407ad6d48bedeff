# haru-vps-mcp: verification project

TLA+ models, TLC runs and TLAPS proofs for the part of this repository that keeps state under concurrency and
failure: the managed-job registry of the shell backend, the workspace supervisor and its systemd unit, the
file-transfer child with its imports and exports, and the gateway's delegation of calls. Paths below are
relative to the repository's root; `mj` is `deploy/workspace/shell-exec-mcp-patch/managed-jobs.mjs`.

## 1. The system

A caller's MCP client talks to a *gateway* (`haru_mcp`), which delegates each call to one of several named
*backends*. The backends are stdio children of `mcp-proxy`; a *supervisor* starts the proxy, probes every
backend and ends the whole composition when one stays down; *systemd* starts it again. One of the backends
runs shell commands as *managed jobs*, another imports and exports files.

| component | state | operations | how it interacts | what is hard | what makes it correct |
|---|---|---|---|---|---|
| Managed job registry (`mj`) | a map of job records; per job the state, exit code, `stopReason`, `ownershipReleased`, hard timer, group watch, idle evidence | `start`, `wait`, `status`, `stop`, `releaseCompleted`, `reapOnce`, callbacks of `exit`, `error`, `data`, timers | called by the shell tools; observes the kernel through `/proc`; signals process groups | one event loop, many suspended activations; `/proc` is read across an `await`; numbers are reused; stops from three sources at once | no result before the last process has ended, no signal to a stranger, no job lost sight of, only idle jobs reaped, bounded registry |
| Shell tools (`bash.mjs`) | none of their own | `execute`, `get_job_status`, `stop_job` | call the registry | a job outlives the call that started it | a running job can always be found |
| Output collector (`mj:29-64`) | kept buffers, counters, the truncation flag | `append`, `text` | fed by the `data` callbacks | buffers straddle the limit | the beginning of the output, and an exact flag |
| Workspace supervisor (`workspace-supervisor.py`) | phase, consecutive failures, deadlines, the stop event | startup loop, monitor loop, `probe_all`, two ways to end the proxy | spawns `mcp-proxy`, probes through it, is started and stopped by systemd | a probe, a deadline and a stop race; backends hang, die and recover | detection, startup and stop are bounded; a healthy workspace is kept |
| Workspace unit (`haru-workspace.service.example`) | unit state, start counter | start, stop, restart on failure, start limit | owns the control group | a stop meets a failure; survivors meet successors | one composition at a time, stops stay stops |
| File import (`file_ingress_server.py`) | temporary file, destination, directory | `import_chatgpt_file` | downloads; other backends write the same directory; the supervisor may kill it | kills and power failures between link, unlink and the fsyncs; other writers | atomic, durable, never replacing without `overwrite` |
| File export (`file_ingress_server.py`, `server.py`) | none between calls; the caller keeps a link with a path and a size | `prepare_workspace_file_export`, the resource read | same child and directory as the imports | the size is read first, the bytes later, in several system calls | an export is whole and not beyond the limit; its link's size holds unless somebody wrote |
| Gateway delegation (`tools.py`) | none between calls | `delegate_backend_tool`, `delegate_backend_resource`, `workspace_backend_health`, the wrappers of single tools | a session per call through the proxy; limits of 3, 30 and 90 s | the backend goes on after a limit; a probe after a tool error meets another world | a reply means what it says, comes in time, and loses no job id |
| Gateway server (`server.py`) | none | registration of the tools, the export tool and resource | calls the delegation | - | which tools there are is part of Gateway and FileExport; the rest runs once, at start |
| Settings, verification and install scripts, tests, docs | - | - | - | - | not modelled; tests, comments and docs are read as statements about the program |

`PROJECT.json` lists the hazards line by line with the properties that cover them, and for those that none
covers yet, why.

## 2. Modules

    ManagedJobs ---- refines ----> JobLifecycle
      |  \- MCManagedJobs (runs)
      |- ManagedJobsProofs -> ManagedJobsSafetyProofs        (theorems)
    BoundedCollector -- MCBoundedCollector, BoundedCollectorProofs
    Supervisor -- SupervisorProofs
      |- SupervisedImport (with a backend that imports) -- MCSupervisor, SupervisedImportProofs
      \- WorkspaceService (with systemd) -- MCWorkspaceService, WorkspaceServiceProofs
    FileImport ---- refines ----> AtomicImport
      \- FileExport (imports, exports and other writers) -- MCFileImport, FileImportProofs
    Gateway ---- refines ----> RemoteCall
      \- MCGateway, GatewayProofs

A definition called `Mutant...` is not part of a model. It is the definition below it with one plausible bug,
and shows that the property named with it in `PROJECT.json` notices.

### ManagedJobs

The registry is single-threaded JavaScript, so the text between two awaits is one action. A *task* (constant
`Tasks`) is a suspended activation: a tool call, a callback or one sweep of the reaper; `pc` says at which
await it stands.

| variable | code |
|---|---|
| `registry` | the keys of `this.jobs` |
| `job` | the job objects. A closure keeps the object after `this.jobs.delete`, therefore records are not tied to `registry` |
| `os` | the kernel's process group of each job: live members, whether it got SIGKILL (`doomed`), whether a stranger with the same number was signalled (`hit`) |
| `task` | suspended activations with what their scan of `/proc` saw |
| `clock` | `Date.now()` |

The await in `inspectOwnedGroup` is the heart of the model. `Scan` notes the members alive when it begins
(`listed`); the resuming action chooses a verdict from `Inspected`: a member that lives through the scan is
found; one that ends or is born meanwhile is found or missed; nobody found means `gone` if the launcher's exit
has been reported and `unknown` before. `gone` sets `ownershipReleased` for ever, as the code does.

Each handler is an action or a chain of actions that ends at its awaits: `Execute`, `WaitEnds`,
`ExecuteReturns` (execute, `wait`, `releaseCompleted`); `StatusObserves`, `StatusRefreshes`, `StatusReturns`;
`Stop`, `HardTimerFires` and `ProbeReaps` all begin `stop()`, which goes on as `StopBefore`, `StopSignals`,
`StopEsrch`, `StopPolls`, `StopPollsAgain`, `TermDeadline`, `StopAfterTerm`, `KillDeadline`; `SweepBegins` to
`SweepEnds` are `reapOnce`. Between two polls a stop sleeps (`Paused`): it reads nothing, and the group may do
anything, fork above all.

A probe's sample is the members listed and the work they have done; `activityChanged` compares their number and
the sums of their counters, hence a group with as many other members may look changed or not (`MayLookQuiet`).
An exception is `Thrown`; it ends the whole sweep when the task is one, since nothing in the loop of `reapOnce`
catches it.

What the kernel does that no source line decides is in `Env`, so that every property can be checked with and
without it: `readdirFails`, `sweepsOverlap`, `forkInScan`, `reuseInScan` (a number is reused while a scan of it
is suspended) and `reuseUnseen` (it is reused before any scan found the group gone).

`JobLifecycle` is the promise to the caller of the tools, in two variables: results are final, are only given
after the last process of the group has ended, records expire only when final, and at most `MaxJobs` are kept.
`ManagedJobs` implements it under the mapping `phaseOf`, `Own`.

### BoundedCollector

`append` with bytes as elements of a set and buffers as short sequences; `stream`, all that arrived, is
history.

### Supervisor and WorkspaceService

`supervise()` as one task with a discrete clock. `main` is the place in the code, `phase` which of its two
loops. Time passes only when the event loop has nothing to run at once (`Urgent`), so deadlines are met to the
tick; what the proxy and the backends do (`Dies`, `Hangs`, `Answers`) is unrestricted. The probes of
`probe_all` end separately, in any order. Two ways to stop the proxy are kept apart as in the code:
`_terminate_proxy_group` (group SIGTERM, grace, SIGKILL, grace) and `_nudge_proxy_to_stop` (SIGTERM to the
proxy alone, the rest is left to systemd). `Group` says which processes are in the proxy's process group: both
extremes occur, depending on how a stdio child is started.

`WorkspaceService` EXTENDS it with what the unit file asks of systemd: KillMode, Restart, RestartSec,
TimeoutStopSec, StartLimitIntervalSec and StartLimitBurst. systemd is external; its final SIGKILL to the
control group is assumed to work. An operator's stop may come at any moment: while the supervisor runs, also
when it is ending already (`StopCommand`), while systemd ends what a failed supervisor left (`StopWhileEnding`),
and while the unit waits for its restart (`StopWaiting`).

### SupervisedImport

`import_chatgpt_file` is a plain function, and the MCP SDK (external, 1.x) calls those on the event loop:
while a download runs, the child answers nobody. SupervisedImport lets one backend of Supervisor do that
(`ImportBegins`, `ImportEnds`) and keeps apart whether anything else broke (`broken`). The module bounds no
download, as the code does not: the deadline of 60 s is only read between reads of a MiB
(`file_ingress_server.py:287`), each of which a slow sender can stretch.

Two consequences, with the shipped values (interval 1 s, probe timeout 2 s, threshold 2): a single import can end
a workspace in which nothing is wrong once it has lasted `Tolerable` = 5 s (`ShortImportsTolerated`),
and none goes on for more than `DetectionTime` = 8 s (`DetectedInTime`). Under supervision neither the 60 s
deadline nor the gateway's 90 s for transfers is ever reached.

### FileImport and FileExport

One call at a time (the tool is a plain function that the child runs to its end), other writers of the
directory beside it, and two kinds of loss between any two steps: the child is killed, or the power fails.
`dir`/`written` are the page cache, `diskDir`/`stable` the disk; a power failure keeps an arbitrary part of
what was not synced. A file is the call that wrote it and the number of chunks. Which URLs, addresses and
paths are accepted is one refusal (`ImportRefused`, `OpenFails`).

A response may announce its length or not (`announced`). `read()` returns no bytes at the end of the download
and just the same when the connection was cut (`ReadsEnd` is always possible), and the code can only tell the
two apart by an announced length (`Compares`). What the properties mean by all of an import is therefore
`All`: the announced length, or else everything that came (`received`).

FileExport adds the other two functions of the same child. `ExportPrepared` gives the caller a link with the
size of that moment; `ReadBegins`, `ReadOpens`, `ReadsChunk` and `ReadEnds` are the read of the resource,
which checks the path again, opens it and asks for one byte (here one chunk) more than the limit; `Exported`
is the gateway's last check of the size. Exports and imports exclude each other, other writers exclude nobody:
they may grow, shrink, replace or remove the file at any of these steps. `ExportSpec` composes both.

`AtomicImport` is the promise: the destination changes in one step, a success is on disk, an error or a lost
answer allows both outcomes. It is implemented for one destination with `Shown`, which maps a destination with
a missing part to a value the abstract specification does not know.

### Gateway

A call is connecting, calling, or probing after a tool error (`delegate_backend_tool`), or gathering the four
probes of `workspace_backend_health`. Each has what is left of its `fail_after` (`timer`); nothing is shared
between calls but the backends. `work` and `effect` are the request in the backend, which no time limit of the
gateway ever cancels: `Begins`, `Rejects`, `Finishes` happen before, during and long after the reply. An answer
that carries an error (`isError`) says little about `effect`: `stop()` throws after its signals (`mj:477`), an
import fails on the directory's fsync after publication (`file_ingress_server.py:348`), and of the external
filesystem server nothing is known (`ActsBeforeError`). Only `execute` throws before it does anything (a full
registry, a spawn that fails), and a resource is only read. An error may come as a result (`ToolFails`) or as
a JSON-RPC error of a live session (`RpcFails`).

`Classify` is `_classify_backend_exception` on what the code can tell apart: one exception or a group, and of
which kinds. Processes die, hang, recover, and the unit restarts all of them; `Busy` is the plain functions of
the file-transfer child again.

`RemoteCall` is the promise: *ok* means done once; *refused* (by the gateway itself, or the tool error of an
execute) never; *settled* (the tool error of anything else) over, done once or not at all, but not still to
come; any other reply means nothing. The gateway's own words for a tool error, "backend tool rejected the
request" (`haru_mcp/tools.py:123`), must hence not be read as *nothing happened*.
Time is as in Supervisor: what the event loop can do at once precedes a tick (`Urgent`).

## 3. Runs

| run | instance | shows |
|---|---|---|
| `job_ownership` | one job, one descendant, three activations, failing listings and overlapping sweeps | `ReleasedMeansGone`, `FinalHasExitStatus`, `NoForeignSignal`; `ForgottenOnlyByFailedStop`: a running job that nobody will look at any more is the work of a stop that failed; `ImplementsLifecycle` (refinement); `InductiveInv`, the strengthening the proofs use |
| `job_reaper` | two jobs in a registry for one, two activations, two clock units, lease, busy window and retention of one | `RegistryKeepsRunning`: a full registry refuses, a purge makes room, and no running job loses its record; `ReapOnlyIdle`: output, observation or another stop between the lease check and the stop saves the job |
| `job_liveness` | one job, one descendant, two activations | `SettlesUnlessAbandoned`, `HardTimeoutKills`; `StopReachesGroup`: however a stop ends, its group, children forked in the grace period included, is gone or was sent SIGKILL |
| `collector` | seven bytes in buffers of one to three, limit three | `KeepsBeginning`, `TruncationReported` |
| `supervisor` | two backends, of which one imports; startup 3, interval 1, probe timeout 2, threshold 2, grace 2 (interval, timeout and threshold as shipped) | `DetectedInTime` (8), `StartupEndsInTime`, `StopsInTime`, `FailsOnlyAfterOutages`, `StopReachesProxy`, `ShortImportsTolerated` (5) |
| `service` | two backends, short durations | `OneComposition`, `DeadBackendReplaced`, `StopCompletes` |
| `file_transfer` | two imports and any number of exports, limit of two chunks, one redirect, two losses | `NeverPartial`, `SuccessIsDurable`, `NoTempLeft`, `ErrorMeansUnpublished`, `NeverReplaces`, `ImplementsAtomicImport` (refinement), `ExportIsWhole`, `LinkSizeHolds` |
| `gateway` | two calls of any tools, errors before and after they acted, limits 3, 4 and 1, waits up to 2, one loss | `ImplementsRemoteCall` (refinement), `AnsweredInTime`, `WaitFitsBudget`, `ErrorsMaskedByOutageOnly`, `HealthIsAccurate` |

One run asks all that one instance can answer, so that compositions are checked with everything in them: the
supervisor's own properties with an import under way, the import's with exports beside it.

Four runs find a violation, each of a statement that the repository makes:

| run | statement | what happens |
|---|---|---|
| `fork_during_scan` | `mj:338` "Once no live member remains in that exact session/group, release ownership" | a member forks after `/proc` was listed and ends before its `stat` is read; nobody is found, ownership is released, the child lives on and neither status nor stop sees it |
| `number_reused_in_scan` | `mj:339` "a later numeric PGID reuse can never be signalled by this job" | `signalOwnedGroup` checks the release before its scan and not after; another activation releases meanwhile, the number is reused, SIGTERM goes to the new owner |
| `abandoned_stop` | `bash.mjs:17` "Completed/stopped job records expire automatically" | `signalOwnedGroup` throws on a zombie launcher; `stopReason` stays set and no later refresh accepts the natural completion |
| `restart_storm` | `docs/WORKSPACE-BACKENDS.md:186` "`StartLimit*` prevents an unbounded restart storm" | the proxy is up and no backend ever answers: each attempt takes the startup time and the wait before the restart, too slow for the limit's window, and the unit is started again for ever (shipped: 22 s per attempt, five of which are not within 30 s) |

Weaknesses that have no run of their own:

- *A stop that gives up.* A refresh that finds the group gone during a stop stands back for it (`mj:380`). When
  that stop's last poll had begun earlier and still saw the group alive, it reads its deadline, resets
  `stopReason` and throws (`mj:476`): a persistent job is reported running without a process until the next
  status or stop call. `ForgottenOnlyByFailedStop` and `SettlesUnlessAbandoned` except it, like `abandoned_stop`.
- *A cut download.* Without Content-Length the part that came before the connection broke is published as a
  success. Over TLS the sender's close_notify would tell the end from a cut; Python's `ssl` by default does not
  insist on it, and the code does not ask for it. `NeverPartial`, `SuccessIsDurable` and
  `ImplementsAtomicImport` hold of what was received, not of the sender's file.

Three more show when the named kind is added to `Env`:

- `readdirFails`, `HardTimeoutKills` and `StopReachesGroup`: the hard timer fires once, its stop refuses to act
  on one unreadable pass over `/proc` (`mj:454`), sends nothing, and nothing arms the timer again.
- `reuseUnseen`, `NoForeignSignal`: the group ends, its number goes to a new session leader before the next
  scan, and the scan, which compares session and group numbers only, takes the stranger for the job: it is
  reported alive, and signalled by a stop. `startTimeTicks`, which would tell the two apart, is collected
  (`mj:107`) but not compared with anything known of the launcher.
- `sweepsOverlap`, `ReapOnlyIdle` (instance of `job_reaper`): nothing keeps the interval at `mj:154` from
  starting a sweep beside one that still runs. One sweep samples a job, the job is touched, which forgets its
  evidence, and the sweep then stores the sample it took before; a second sweep, which looked at the lease
  before the touch, finds the sample unchanged and old enough and stops the job.
  `docs/WORKSPACE-BACKENDS.md:96` says that only jobs are reaped whose lack of output and observation
  establishes idleness. With the defaults (a sweep every 5 min, 64 jobs, two graces of 1 s each) sweeps do not
  overlap; `SHELL_EXEC_MCP_REAPER_SWEEP_MS` and `SHELL_EXEC_MCP_STOP_GRACE_MS` can make them. The theorem
  `Reaps_OnlyIdle` says that overlapping is the only way.

### Bounds, and why they are enough

- *Activations.* Every violation found needs two; the interesting three-way case (a stop, a refresh and a
  sweep on the same job) is in `job_ownership`. The proofs have no bound.
- *Jobs.* Jobs interact only through the registry's capacity and the order of a sweep. `job_reaper` has one job
  more than places, so that a registry is full, refuses, and makes room by expiry and release; the other runs
  have one job, and what holds of several is proved for any number.
- *Kids.* One descendant suffices for a group that outlives its launcher, for a birth during a scan, and for a
  child forked by a SIGTERM handler in the grace period. `job_reaper` has none: what the reaper looks at is the
  work of the group, which its launcher does.
- *Clock.* Two units allow lease and busy window of one to expire one after the other, and a record to expire
  while another job asks for its place; the other safety invariants do not read the clock, so `job_ownership`
  stops it.
- *Views.* `job_reaper` and `file_transfer` leave out of a state what no later step and no property reads: the
  record of a finished job that no activation holds, idle evidence and work of a group that no probe will look
  at; the lengths of a file that is nowhere any more. The comments in `MCManagedJobs` and `MCFileImport` say why.
- *`Horizon`.* History counters of the supervisor saturate at 9, one above the larger of the two bounds they
  are compared with, `DetectionTime` 8 and `StopTime` 2 + 2 + 2. With the shipped grace of 5 s `StopTime` is
  12 s, below the unit's TimeoutStopSec of 15 s; the theorem `Stops_InTime` covers those values. The shipped
  startup time of 20 s only lengthens a loop that three units already let run several times.
- *Durations of `service`.* Shipped values with two backends exceed what TLC can explore for liveness. The
  proportions kept are the ones the properties (of `restart_storm` too) depend on: `StartLimitBurst` starts that each last
  `StartupTimeout + RestartSec` do not fit into `StartLimitInterval` (2 x 3 > 3; shipped 5 x 22 > 30).
  TimeoutStopSec is deliberately *shorter* than the stop (2 < 3) so that systemd's SIGKILL happens; with the
  shipped 15 s, above a `StopTime` of 12 s, it never does (`Stop_NeverForced`, `Shipped_Unit`).
- *Durations of `gateway`.* The order of the shipped values is kept (probe 3 < wait 25 < call 30 < transfer 90
  s), and each limit is long enough for a reply, a late reply and a tool error with its probe.
- *Losses, redirects, chunks.* Two losses allow a power failure during the retry after a kill. Two chunks and
  the length one above them give an empty file, a file at the limit and one beyond it, for imports and
  exports. One loss per run of `gateway` is one death or hang at any moment of two calls, with the restart
  after it.
- *Symmetry* is over activations, jobs, backends or calls that no definition distinguishes, and is used in no
  run with a liveness property.
- *CHECK_DEADLOCK FALSE* only where the system ends: the collector has all its bytes, the supervisor or unit
  has stopped, every call of the gateway is answered and its work over.

### Fairness

`FairSpec` of ManagedJobs: the event loop resumes every activation whose I/O has completed (WF of `Resumes`),
a due timer and a reported exit get their turn (SF, because they compete for one of the bounded `Tasks`, which
node does not have), a grace period passes (SF of the deadlines: polling cannot go on for ever), the kernel
ends what got SIGKILL. Nothing is assumed of callers, output, forks or natural deaths. `FairServiceSpec`: the
supervisor's loop and systemd go on (WF); time passes and an able backend answers a probe (SF, as backends
cannot come and go infinitely often within an instant). Crashes, operators and the backends themselves are not
fair. The gateway needs no fairness: that a caller is answered is stated as a bound on time
(`AnsweredInTime`), which is safety, and stronger.

## 4. Proofs

The theorems hold for every number of jobs, activations, processes, backends, calls, chunks and losses, and
for every value of the durations and limits, under the ASSUMEs of the modules alone; the third column has what
else they need.

| theorem | statement | under |
|---|---|---|
| *ManagedJobsProofs, ManagedJobsSafetyProofs* | | |
| `TypeCorrect` | `Spec => []TypeOK` | |
| `WatchNeverLost` | `Spec => []WatchCovered` | |
| `Forgets_OnlyByFailedStop` | `Spec => ForgottenOnlyByFailedStop` | |
| `Results_Stand` | a final state and a release are never revised | |
| `FinalResultsComplete` | `Spec => []FinalHasExitStatus` | |
| `TimersEnd` | `Spec => []FinalHasNoTimers` | |
| `ReleasedGroupsAreGone` | `Spec => []ReleasedMeansGone` | no fork in a scan |
| `SignalsStayHome` | `Spec => []NoForeignSignal` | no number reused in a scan, or before the release |
| `RegistryBounded` | `Spec => []RegistryKeepsRunning` | |
| `InvariantHolds` | `Spec => []InductiveInv` | no fork in a scan, no reuse in one or before the release |
| `RegistryImplementsLifecycle` | `Spec => ImplementsLifecycle` | no fork in a scan |
| `Reaps_OnlyIdle` | `Spec => ReapOnlyIdle` | sweeps do not overlap |
| `Stop_ReachesGroup` | `Spec => StopReachesGroup` | `/proc` can be read, no fork in a scan |
| *BoundedCollectorProofs* | | |
| `CollectorTypeCorrect`, `CollectorKeepsBeginning`, `CollectorReportsTruncation` | the collector, for every limit and every way to cut the output | |
| *SupervisorProofs* | | |
| `TypeCorrect`, `Startup_EndsInTime`, `Stops_InTime`, `Stop_ReachesProxy`, `Fails_OnlyAfterOutages`, `Detected_InTime` | the supervisor's invariants | |
| *SupervisedImportProofs* | | |
| `Import_IsSupervised` | `ImportSpec => Spec`: all of the above holds with imports | |
| `Import_KeepsDeadlines` | the supervisor's properties, of `ImportSpec` | |
| `Import_TypeCorrect`, `ShortImports_Tolerated` | what an import may cost | |
| *WorkspaceServiceProofs* | | |
| `Service_TypeCorrect`, `One_Composition` | the unit and its supervisor | |
| `Service_KeepsDeadlines` | `ServiceSpec => [](StartupEndsInTime /\ DetectedInTime /\ StopsInTime /\ StopReachesProxy)` | |
| `Service_FailsOnlyAfterOutages` | a step by which the supervisor fails keeps `FailsOnlyAfterOutages` | |
| `Stop_NeverForced` | systemd's SIGKILL at TimeoutStopSec never comes | StopTime < TimeoutStopSec |
| `Limit_NeedsOtherEnd` | `ServiceSpec => []LimitNeedsOtherEnd`: the start limit bounds no restarts of a composition that merely never gets healthy | StartLimitInterval <= StartLimitBurst * (StartupTimeout + RestartSec) |
| `Shipped_Unit` | both of these | the shipped durations (`Shipped`) |
| *FileImportProofs* | | |
| `Import_TypeCorrect`, `Never_Partial`, `Success_IsDurable`, `No_TempLeft`, `Error_MeansUnpublished`, `Never_Replaces` | the imports | |
| `Import_ImplementsAtomic` | `Spec => ImplementsAtomicImport` | |
| `Export_KeepsImports`, `Export_KeepsPromises` | `ExportSpec => Spec`: all of the above holds with exports | |
| `Export_TypeCorrect`, `Export_IsWhole`, `Link_SizeHolds` | the exports | |
| *GatewayProofs* | | |
| `TypeCorrect`, `Answered_InTime`, `Wait_FitsBudget`, `ErrorsMasked_ByOutageOnly`, `Health_IsAccurate` | calls and health checks | |
| `Gateway_Implements` | `Spec => ImplementsRemoteCall` | |

The hypotheses on `Env` are no convenience of the proofs. Each of them is needed: the runs `fork_during_scan` and
`number_reused_in_scan`, and TLC with `sweepsOverlap`, `reuseUnseen` or `readdirFails` (above), violate the
property once the kind is allowed; `StopReachesGroup` fails with `forkInScan` too, as a stop that was told `gone`
by an incomplete scan ends without SIGKILL. The theorems say that nothing else can go wrong. In the same way
`Stop_NeverForced` needs the strict inequality: at TimeoutStopSec = StopTime the two deadlines fall together.

### The registry

Twenty-odd actions change a job record, nearly all of them as the end of an activation's step.
`ManagedJobsSafetyProofs` first shows that every such step is an instance of one predicate, `Effect(t, j)`: it
relates the record and the task before and after (a release needs a verdict `gone`; a final state needs a
release; a timer is armed only for a running job whose launcher has exited; a scan starts with the members
alive now), and `NextCases` says that a step of `Next` is an `Effect`, an execute, an observation, a turn of a
sweep or a step of the operating system. Each invariant is then proved over these few cases instead of over
every action:

1. `WatchCovered` is inductive beside `TypeOK`. Beside it `Effect` says of every step whether it takes a watch,
   a refresh or a stop away from a job that needs it, and `Forgets_OnlyByFailedStop` compares the job before
   and after: nothing but a refresh that leaves the job to a stop, or a stop that failed, ends `Attended`.
2. `RecordsConsistent /\ TasksConsistent`: a released job has its launcher's exit; a running job is in the
   registry; a task that skips its scan belongs to a released job. `FinalHasExitStatus` and `FinalHasNoTimers`
   follow, and with `Effect` that results and releases stand (`Results_Stand`).
3. `ScansComplete` adds to `ReleasedMeansGone` that the live members of a group under scan were all listed
   when the scan began. Without it `ReleasedMeansGone` is not inductive: a scan that had missed a member could
   say `gone`.
4. `ReuseUnseen` adds to `NoForeignSignal` that a reused number belongs to a released job that nobody is
   scanning. Without it a stop could hold a stale `alive` for it.
5. The registry's bound follows from 2 and from cardinalities.

The conjunction is `InductiveInv`; `job_ownership` has TLC check it as an invariant.

*The refinement* of JobLifecycle needs 2, 3 and 5, case by case: an execute is `Accept` with the records it
purged, an `Effect` is `Finish`, `Expire` or a stutter, an end of a process is `GroupEnds` if it was the last.
3 is what makes `Finish` possible: the group of a job that becomes final has no process left.

*Reaping* looks at other fields of the record, so it has a predicate of its own, `Leased`: a step leaves the
evidence of idleness alone, or forgets it, or is a probe that records. `LeaseInv` says that there is one
sweep, that its job is not persistent, and that while it waits for a probe either no sample is stored or the
lease it read before is still expired. The last part is the point: a touch moves the lease but forgets the
sample, and only the one sweep, which is waiting, could store another. `ProbeReaps` needs a sample, hence the
lease.

*Stopping.* `StopsEscalate` says what is known at the late awaits of a stop: the second grace period has begun
only after SIGKILL or a release, and a scan after ESRCH looks at a group that is gone. With `ScansComplete` any
verdict but `alive` is proof that nobody is left (`VerdictProves`; an `unknown` can then only come from the
launcher's exit not being reported yet), so every way out of a stop has the SIGKILL or the end of the group
behind it. `OthersNotLate` and `GroupKept` say that other activations and the kernel do not undo that: neither
a process nor a release comes back.

### The supervisor and the unit

The counters of the properties are history, so the invariants have to say where the time is spent: what has
passed plus what is left of the current await is within the bound. `LoopInv` does so for startup, `StopInv`
for a stop (at each of the four awaits it may interrupt or begin), `DetectInv` for a failing backend: after
`failures` bad rounds it has been down for at most the rest of the probe that still saw it healthy plus
`failures` turns of a wait and a probe. `OutageInv` relates the failures the supervisor counts to outages that
took place; it needs to know that a probe without any outage so far has no bad answer and is not yet late.

With imports, `ProbesInv` and `SingleInv` say that in a workspace in which nothing broke only the importing
backend leaves probes unanswered, and how long it must have imported for the failures counted: each of them
cost a whole probe.

In the service a composition may also end from outside (systemd's SIGKILL, a crash), and the next one starts
with fresh counters. `CompositionInv` is the conjunction of the invariants above, which every such step keeps;
only the failures counted (`Counted`) say nothing of a composition that a crash ended, so that
`Service_FailsOnlyAfterOutages` is about the steps by which the supervisor gives up itself. `InTime` says that
what the supervisor still needs for a stop is less than what is left of TimeoutStopSec; hence `Stop_NeverForced`.

A start of a composition re-establishes `BaseInv`, everything else the service does is a step of Supervisor or
leaves it alone. `Settled` is `OneComposition` made inductive: no process is left in any state of the unit
from which a start can follow. `LimitInv` accounts for the start limit like the deadlines above: what is left
of the window plus `n` full cycles is within the window's length, hence with too few starts left to fill it.

### Imports and exports

`CallInv` and `RunInv` say for each place in the function which of page cache, disk, name and directory have
the file, in particular that a file is whole and synced before it is named (`Whole`), that a call not yet run
has left nothing (`Fresh`), and that nothing is on disk under the target's name before the directory's fsync.
`OwedInv` is durability: a success is owed the file on both sides. Refinement and the five properties follow
without further induction. For exports, `LinkInv` ties the size in the link to the file an import has written,
`ReadInv` what was read to the size of the open file.

### The gateway

`TimeInv`: elapsed time plus what is left of the timer is the limit of the tool, or that and one probe.
`OutcomeInv` relates the request in the backend, what it did, whether it answered with an error, and what was
told; it excludes *done twice*, and an error of an operation that is not over (`ErrorOutcome`); the refinement
follows. `WaitInv`: elapsed time plus what is left of `wait_ms` is at most the backend's lateness
plus `MaxWait`; a timeout therefore needs a late backend. `ProbeInv`: a backend that has been able to answer
ever since the error came is probed at that very instant. `HealthInv`: what a probe found was so at some time
of the check.

### Only model-checked

The liveness properties (`SettlesUnlessAbandoned`, `HardTimeoutKills`, `DeadBackendReplaced`,
`StopCompletes`): liveness under fairness is outside what the prover handles. Every safety property that a
passing run checks is also a theorem.

## 5. Not modelled

- Registry: `close()` (only tests call it), the win32 and non-linux branches, an injected `activityReader` or
  inspector, a zero grace period, decoding output as UTF-8. A restart of the backend forgets every job;
  nothing in the code restores them.
- How the kernel chooses numbers: a free one may be given away at any time (`reuseUnseen`, `reuseInScan`, or
  after the release).
- Supervisor: parsing, logging, ExecStartPre, sandboxing.
- Import and export: which URLs, addresses and paths are trusted; an unlink that fails; tokens, base64 and mime types; how the 60 s deadline and slow reads divide the time of a download
  (SupervisedImport bounds it from outside).
- Gateway: arguments and results other than `wait_ms`, logging, the connect timeouts of httpx inside a session
  (they only end a call earlier), cancellation by the client, transport security; a live backend
  that answers `list_tools` of a probe with an error.
- `settings.py` and the rest of `server.py` are read once, in sequence, before the first call. The scripts
  that verify or install the deployment, and the tests, are not part of the running system.
- Hazards without a property, with their reasons in `PROJECT.json`: the order in which a sweep that throws
  leaves its jobs (`mj:512`), output left in the pipe at a job's end (`mj:408`), a group's number reused before
  any scan found the group gone (`mj:330`), a download cut without notice (`file_ingress_server.py:288`).

A consequence of the code that the models show and that a property states as it is: a stop that
arrives during the probe that reaches the threshold is overtaken by the failure, the supervisor ends with
status 1, and only the stop job keeps systemd from restarting (`StopCompletes`).

## 6. Plan

Done: every component with state of its own is modelled, checked and proved about: ManagedJobs with
JobLifecycle, BoundedCollector, Supervisor, SupervisedImport, WorkspaceService, FileImport and FileExport with
AtomicImport, Gateway with RemoteCall.

Left, in the order of what each would add:

1. The jobs of the gateway and the registry in one composition: which jobs a caller can still find after a
   `timeout`, and until when; and the theorem that joins `Gateway_Implements` and `RegistryImplementsLifecycle`.
2. A fair order of `reapOnce`'s snapshot, for `mj:512`: is every idle job reaped although stops of others keep
   throwing? As a bound on the number of sweeps it would be safety, and provable.
3. Which settings `settings.py` accepts, as a function of the environment.
