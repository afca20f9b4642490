------------------------------ MODULE JobTable ------------------------------
(***************************************************************************)
(* The SQL statements of internal/storage/jobs.go as operators on a table: *)
(* a function from task UUIDs to rows, in which a UUID that has no row is  *)
(* mapped to NoRow. SQLite runs each statement atomically (NewDB opens one *)
(* connection); two statements of one method are two steps of a caller.    *)
(***************************************************************************)
EXTENDS TaskStates, FiniteSets

RowState == {"none", "PENDING", "FAILED", "DONE"}
Row == [state: RowState, build: TaskState, repo: TaskState,
        stage: {"none", "build", "repo", "completed"}]

NoRow == [state |-> "none", build |-> "none", repo |-> "none", stage |-> "none"]

\* What SubmitPackage and RetryPipeline record: stage and task states unset.
NewRow == [state |-> "PENDING", build |-> "none", repo |-> "none", stage |-> "none"]

HasRow(jobs, u) == jobs[u].state # "none"

\* INSERT ... ON CONFLICT(task_uuid) DO UPDATE: the first statement of RecordJob.
InsertJob(jobs, u) == [jobs EXCEPT ![u] = NewRow]

\* The rows at most n of which are returned by ORDER BY submitted_at DESC LIMIT n.
GetRecentJobs(jobs, submittedAt, n) ==
  {u \in DOMAIN jobs :
     /\ HasRow(jobs, u)
     /\ Cardinality({v \in DOMAIN jobs : /\ HasRow(jobs, v)
                                         /\ submittedAt[v] > submittedAt[u]}) < n}

\* Mutant: ORDER BY without DESC keeps the oldest rows.
KeepOldestJobs(jobs, submittedAt, maxJobs) ==
  [u \in DOMAIN jobs |->
     IF HasRow(jobs, u) /\ Cardinality({v \in DOMAIN jobs :
          HasRow(jobs, v) /\ submittedAt[v] < submittedAt[u]}) < maxJobs
     THEN jobs[u] ELSE NoRow]

\* DELETE ... WHERE id NOT IN (the maxJobs most recent): RecordJob's second statement.
CleanupOldJobs(jobs, submittedAt, maxJobs) ==
  [u \in DOMAIN jobs |->
     IF u \in GetRecentJobs(jobs, submittedAt, maxJobs) THEN jobs[u] ELSE NoRow]

\* Mutant: UPDATE ... WHERE task_uuid alone.
UpdatableAlways(jobs, u) == HasRow(jobs, u)

\* UPDATE ... WHERE state NOT IN (terminal states): no row, no effect.
Updatable(jobs, u) == HasRow(jobs, u) /\ ~IsTerminalState(jobs[u].state)

UpdateJobStages(jobs, u, buildState, repoState) ==
  IF Updatable(jobs, u)
  THEN [jobs EXCEPT ![u] =
          [state |-> jobs[u].state, build |-> buildState, repo |-> repoState,
           stage |-> DeriveCurrentStage(buildState, repoState)]]
  ELSE jobs

UpdateJobState(jobs, u, state) ==
  IF Updatable(jobs, u) THEN [jobs EXCEPT ![u].state = state] ELSE jobs
=============================================================================
