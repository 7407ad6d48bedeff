--------------------------- MODULE MCManagedJobs ---------------------------
(* Small instances of ManagedJobs for TLC. *)
EXTENDS ManagedJobs, TLC

\* Activations are interchangeable, and so are jobs; the runs with liveness
\* properties do not use it.
TaskSymmetry == Permutations(Tasks)
JobTaskSymmetry == Permutations(Jobs) \cup Permutations(Tasks)

\* What can still matter of a job to the run of the registry.  Nothing reads the record of a finished job that
\* no activation holds on to, except whether and since when it is in the registry,
\* and only probes, of jobs that are not persistent, read the activity of a group.
Settled(j) ==
    /\ job[j].state \in Final
    /\ \A t \in Tasks : task[t].job # j

Probed(j) ==
    \/ ~job[j].persistent /\ os[j].live # {}
    \/ \E t \in Tasks : task[t].pc = "probe" /\ task[t].job = j

Matters(j) ==
    IF Settled(j) THEN <<IF j \in registry THEN job[j].completedAt ELSE "forgotten">>
    ELSE IF Probed(j) THEN <<job[j], os[j]>>
    ELSE <<[job[j] EXCEPT !.evidence = NoEvidence], [os[j] EXCEPT !.work = 0]>>

View == <<clock, registry, task, [j \in Jobs |-> Matters(j)]>>

=============================================================================
