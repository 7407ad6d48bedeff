---------------------------- MODULE JobLifecycle ----------------------------
(***************************************************************************)
(* What the registry promises about a job to the caller of execute,        *)
(* get_job_status and stop_job, with no word on how it is kept: a job's    *)
(* result never changes once it is final, a final result is only given     *)
(* when every process of the job's own group has ended, a record expires   *)
(* only when final, and no more than MaxJobs records are kept.             *)
(***************************************************************************)
EXTENDS Naturals, FiniteSets

CONSTANTS Jobs, MaxJobs

VARIABLES
    phase,  \* where each job is in its life, as the tools report it
    alive   \* does a process of the job's own group exist?

lifecycleVars == <<phase, alive>>

Outcomes == {"completed", "stopped", "reaped", "failed"}
Phases   == {"absent", "running", "expired"} \cup Outcomes

Kept(p) == {j \in Jobs : p[j] \notin {"absent", "expired"}}

LifecycleInit ==
    /\ phase = [j \in Jobs |-> "absent"]
    /\ alive = [j \in Jobs |-> FALSE]

\* A purge deletes any set of final records, alone or to make room.
Purged(S) == [j \in Jobs |-> IF j \in S THEN "expired" ELSE phase[j]]

FinalRecords == {j \in Jobs : phase[j] \in Outcomes}

Accept(j) ==
    /\ phase[j] = "absent"
    /\ \E S \in SUBSET FinalRecords, outcome \in {"running", "failed"} :
          /\ phase' = [Purged(S) EXCEPT ![j] = outcome]
          /\ alive' = [alive EXCEPT ![j] = outcome = "running"]
    /\ Cardinality(Kept(phase')) <= MaxJobs

GroupEnds(j) ==
    /\ alive[j]
    /\ alive' = [alive EXCEPT ![j] = FALSE]
    /\ UNCHANGED phase

\* Finishing may release the record at once, when execute returns the result.
Finish(j) ==
    /\ phase[j] = "running"
    /\ ~alive[j]
    /\ \E outcome \in {"completed", "stopped", "reaped", "expired"} :
          phase' = [phase EXCEPT ![j] = outcome]
    /\ UNCHANGED alive

Expire ==
    /\ \E S \in SUBSET FinalRecords : phase' = Purged(S)
    /\ UNCHANGED alive

LifecycleNext ==
    \/ \E j \in Jobs : Accept(j) \/ GroupEnds(j) \/ Finish(j)
    \/ Expire

Lifecycle == LifecycleInit /\ [][LifecycleNext]_lifecycleVars

=============================================================================
