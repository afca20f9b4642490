------------------------------ MODULE Pipeline ------------------------------
(***************************************************************************)
(* A package pipeline from the moment the chief has the submission's files *)
(* in place until its last task ends: the chief hands a chain of two tasks *)
(* (build, then repo) to machinery and records a row in SQLite; builder and *)
(* repo workers take the tasks from the one Redis list they share; status  *)
(* requests and dashboard renders read the task states back from Redis, and *)
(* a render persists a final state it derives.                             *)
(*                                                                         *)
(* The two tasks of a chain carry the same UUID (repository/machinery.go)  *)
(* and machinery keys a task's state by its UUID alone, so that a pipeline *)
(* has ONE backend entry, which both tasks write and both reads see.       *)
(***************************************************************************)
EXTENDS JobTable

CONSTANTS
  Pipelines,    \* task UUIDs, each given to one submission or retry
  Workers,      \* worker processes (builder, repo, iso)
  Registered,   \* the one task each worker process has registered
  Readers,      \* concurrent HTTP requests for a status or the dashboard
  MaxJobs,      \* storage.max_jobs, the rows the jobs table keeps
  RecentLimit,  \* the rows a render looks at (50 in buildJobViews)
  NoPipeline    \* not a task UUID

ASSUME PipelineAssumption ==
  /\ NoPipeline \notin Pipelines
  /\ Registered \in [Workers -> {"build", "repo", "iso"}]
  /\ MaxJobs \in Nat \ {0}
  /\ RecentLimit \in Nat \ {0}

Tasks == {"build", "repo"}

VARIABLES
  chief,        \* how far the submission's HTTP handler is
  submittedAt,  \* the timestamp in the submission, 0 before there is one
  clock,        \* time.Now of the chief, advanced by each submission
  backend,      \* machinery's result backend: Redis key <UUID> -> task state
  queue,        \* Redis list "irgsh": how many copies of each task it holds
  worker,       \* each worker's current message and how far it is with it
  jobs,         \* the jobs table
  reader,       \* the requests in flight that read states
  run,          \* history: what became of each task's function
  published,    \* history: pipelines whose build task was pushed
  lost          \* history: pipelines whose message died with a process or call

chiefVars  == <<chief, submittedAt, clock>>
brokerVars == <<backend, queue>>
history    == <<run, published, lost>>
vars == <<chiefVars, brokerVars, worker, jobs, reader, history>>

ChiefPhase  == {"new", "preparing", "pending", "sent", "inserted",
                "accepted", "rejected", "dropped"}
InFlight    == {"preparing", "pending", "sent", "inserted"}
WorkerPhase == {"idle", "foreign", "taken", "received", "running",
                "succeeded", "failed", "chaining", "publishing"}
ReaderPhase == {"idle", "readBuild", "readRepo", "answered", "stages", "state"}
RunState    == {"never", "running", "ok", "error", "killed"}

IdleWorker == [phase |-> "idle", task |-> "build", uuid |-> NoPipeline]
WorkerRecord == {IdleWorker} \cup
  [phase : WorkerPhase \ {"idle"}, task : Tasks, uuid : Pipelines]

IdleReader == [phase |-> "idle", kind |-> "status", uuid |-> NoPipeline,
               build |-> "none", repo |-> "none"]
ReaderRecord == {IdleReader} \cup
  [phase : ReaderPhase \ {"idle"}, kind : {"status", "render"}, uuid : Pipelines,
   build : TaskState, repo : TaskState]

\* f with its entry for task t of pipeline p set to v.
Cell(f, t, p, v) == [f EXCEPT ![t] = [@ EXCEPT ![p] = v]]

TypeOK ==
  /\ chief \in [Pipelines -> ChiefPhase]
  /\ submittedAt \in [Pipelines -> Nat]
  /\ clock \in Nat \ {0}
  /\ backend \in [Pipelines -> TaskState]
  /\ queue \in [Tasks -> [Pipelines -> Nat]]
  /\ worker \in [Workers -> WorkerRecord]
  /\ jobs \in [Pipelines -> Row]
  /\ reader \in [Readers -> ReaderRecord]
  /\ run \in [Tasks -> [Pipelines -> RunState]]
  /\ published \subseteq Pipelines
  /\ lost \subseteq Pipelines

Init ==
  /\ chief = [p \in Pipelines |-> "new"]
  /\ submittedAt = [p \in Pipelines |-> 0]
  /\ clock = 1
  /\ backend = [p \in Pipelines |-> "none"]
  /\ queue = [t \in Tasks |-> [p \in Pipelines |-> 0]]
  /\ worker = [w \in Workers |-> IdleWorker]
  /\ jobs = [p \in Pipelines |-> NoRow]
  /\ reader = [r \in Readers |-> IdleReader]
  /\ run = [t \in Tasks |-> [p \in Pipelines |-> "never"]]
  /\ published = {}
  /\ lost = {}

-----------------------------------------------------------------------------
(* Submission: SubmitPackage and RetryPipeline from their timestamp on.     *)

\* The handler names the pipeline and works on its files.
BeginSubmission(p) ==
  /\ chief[p] = "new"
  /\ chief' = [chief EXCEPT ![p] = "preparing"]
  /\ submittedAt' = [submittedAt EXCEPT ![p] = clock]
  /\ clock' = clock + 1
  /\ UNCHANGED <<brokerVars, worker, jobs, reader, history>>

\* One of the error returns before SendBuildChain.
RejectSubmission(p) ==
  /\ chief[p] = "preparing"
  /\ chief' = [chief EXCEPT ![p] = "rejected"]
  /\ UNCHANGED <<submittedAt, clock, brokerVars, worker, jobs, reader, history>>

\* SendChain, first half: SetStatePending for the chain's first task.
SetStatePending(p) ==
  /\ chief[p] = "preparing"
  /\ chief' = [chief EXCEPT ![p] = "pending"]
  /\ backend' = [backend EXCEPT ![p] = "PENDING"]
  /\ UNCHANGED <<submittedAt, clock, queue, worker, jobs, reader, history>>

\* Mutants: a push whose reply is lost is repeated; build and repo are sent as a
\* group instead of a chain.
PushTwice(p) ==
  /\ queue' = Cell(queue, "build", p, queue["build"][p] + 2)
  /\ published' = published \cup {p}

PushGroup(p) ==
  /\ queue' = Cell(Cell(queue, "build", p, 1), "repo", p, 1)
  /\ published' = published \cup {p}

PushBuild(p) ==
  /\ queue' = Cell(queue, "build", p, queue["build"][p] + 1)
  /\ published' = published \cup {p}

\* Mutant: an error of SendChain is not returned.
SwallowSendError(p) ==
  /\ chief[p] = "pending"
  /\ chief' = [chief EXCEPT ![p] = "sent"]
  /\ PushBuild(p) \/ UNCHANGED <<queue, published>>
  /\ UNCHANGED <<submittedAt, clock, backend, worker, jobs, reader, run, lost>>

\* SendChain, second half: the push of the build task. It may fail, or take
\* effect and have its reply lost: the handler answers 500 in both cases.
SendBuildChain(p) ==
  /\ chief[p] = "pending"
  /\ \/ /\ chief' = [chief EXCEPT ![p] = "sent"]
        /\ PushBuild(p)
     \/ /\ chief' = [chief EXCEPT ![p] = "rejected"]
        /\ PushBuild(p)
     \/ /\ chief' = [chief EXCEPT ![p] = "rejected"]
        /\ UNCHANGED <<queue, published>>
  /\ UNCHANGED <<submittedAt, clock, backend, worker, jobs, reader, run, lost>>

\* RecordJob: a failing INSERT is logged and the request still succeeds.
RecordJob(p) ==
  /\ chief[p] = "sent"
  /\ \/ /\ chief' = [chief EXCEPT ![p] = "inserted"]
        /\ jobs' = InsertJob(jobs, p)
     \/ /\ chief' = [chief EXCEPT ![p] = "accepted"]
        /\ UNCHANGED jobs
  /\ UNCHANGED <<submittedAt, clock, brokerVars, worker, reader, history>>

\* cleanupOldJobs, a statement of its own, whose failure is logged as well.
CleanupJobs(p) ==
  /\ chief[p] = "inserted"
  /\ chief' = [chief EXCEPT ![p] = "accepted"]
  /\ jobs' \in {jobs, CleanupOldJobs(jobs, submittedAt, MaxJobs)}
  /\ UNCHANGED <<submittedAt, clock, brokerVars, worker, reader, history>>

-----------------------------------------------------------------------------
(* Workers: machinery's consume loop and Worker.Process, concurrency 1.     *)

\* BLPOP: any idle worker gets any message; one whose task it has not
\* registered it pushes back.
Take(w, t, p) ==
  /\ worker[w].phase = "idle"
  /\ queue[t][p] > 0
  /\ queue' = Cell(queue, t, p, queue[t][p] - 1)
  /\ worker' = [worker EXCEPT ![w] =
       [phase |-> IF Registered[w] = t THEN "taken" ELSE "foreign",
        task |-> t, uuid |-> p]]
  /\ UNCHANGED <<chiefVars, backend, jobs, reader, history>>

Requeue(w) ==
  LET m == worker[w] IN
  /\ m.phase = "foreign"
  /\ queue' = Cell(queue, m.task, m.uuid, queue[m.task][m.uuid] + 1)
  /\ worker' = [worker EXCEPT ![w] = IdleWorker]
  /\ UNCHANGED <<chiefVars, backend, jobs, reader, history>>

SetStateReceived(w) ==
  /\ worker[w].phase = "taken"
  /\ backend' = [backend EXCEPT ![worker[w].uuid] = "RECEIVED"]
  /\ worker' = [worker EXCEPT ![w].phase = "received"]
  /\ UNCHANGED <<chiefVars, queue, jobs, reader, history>>

\* SetStateStarted, then the call of BuildWithMonitoring or RepoWithMonitoring.
StartTask(w) ==
  LET m == worker[w] IN
  /\ m.phase = "received"
  /\ backend' = [backend EXCEPT ![m.uuid] = "STARTED"]
  /\ run' = Cell(run, m.task, m.uuid, "running")
  /\ worker' = [worker EXCEPT ![w].phase = "running"]
  /\ UNCHANGED <<chiefVars, queue, jobs, reader, published, lost>>

\* Mutant: the named result err is shadowed, and an error returned as nil.
ShadowedError(w) ==
  LET m == worker[w] IN
  /\ m.phase = "running"
  /\ \E end \in {"ok", "error"} : run' = Cell(run, m.task, m.uuid, end)
  /\ worker' = [worker EXCEPT ![w].phase = "succeeded"]
  /\ UNCHANGED <<chiefVars, brokerVars, jobs, reader, published, lost>>

\* The task function returns, with an error (a panic counts) or without.
TaskReturns(w) ==
  LET m == worker[w] IN
  /\ m.phase = "running"
  /\ \/ /\ run' = Cell(run, m.task, m.uuid, "ok")
        /\ worker' = [worker EXCEPT ![w].phase = "succeeded"]
     \/ /\ run' = Cell(run, m.task, m.uuid, "error")
        /\ worker' = [worker EXCEPT ![w].phase = "failed"]
  /\ UNCHANGED <<chiefVars, brokerVars, jobs, reader, published, lost>>

\* Mutant: signatures carry a retry count, and a failed task is sent again.
RetryTask(w) ==
  LET m == worker[w] IN
  /\ m.phase = "failed"
  /\ backend' = [backend EXCEPT ![m.uuid] = "PENDING"]
  /\ queue' = Cell(queue, m.task, m.uuid, queue[m.task][m.uuid] + 1)
  /\ worker' = [worker EXCEPT ![w] = IdleWorker]
  /\ UNCHANGED <<chiefVars, jobs, reader, history>>

\* taskFailed: signatures carry no retry count and no error callback.
SetStateFailure(w) ==
  /\ worker[w].phase = "failed"
  /\ backend' = [backend EXCEPT ![worker[w].uuid] = "FAILURE"]
  /\ worker' = [worker EXCEPT ![w] = IdleWorker]
  /\ UNCHANGED <<chiefVars, queue, jobs, reader, history>>

\* taskSucceeded: the state is written before the success callback is sent.
SetStateSuccess(w) ==
  /\ worker[w].phase = "succeeded"
  /\ backend' = [backend EXCEPT ![worker[w].uuid] = "SUCCESS"]
  /\ worker' = [worker EXCEPT ![w] =
       IF worker[w].task = "build" THEN [@ EXCEPT !.phase = "chaining"] ELSE IdleWorker]
  /\ UNCHANGED <<chiefVars, queue, jobs, reader, history>>

\* SendTask of the OnSuccess signature: the repo task, under the same UUID.
ChainPending(w) ==
  /\ worker[w].phase = "chaining"
  /\ backend' = [backend EXCEPT ![worker[w].uuid] = "PENDING"]
  /\ worker' = [worker EXCEPT ![w].phase = "publishing"]
  /\ UNCHANGED <<chiefVars, queue, jobs, reader, history>>

\* Mutant: the chain is made of the build signature alone.
ChainForgotten(w) ==
  /\ worker[w].phase = "publishing"
  /\ worker' = [worker EXCEPT ![w] = IdleWorker]
  /\ UNCHANGED <<chiefVars, brokerVars, jobs, reader, history>>

\* The push of the chain's second signature.
ChainPublish(w) ==
  /\ worker[w].phase = "publishing"
  /\ queue' = Cell(queue, "repo", worker[w].uuid, queue["repo"][worker[w].uuid] + 1)
  /\ worker' = [worker EXCEPT ![w] = IdleWorker]
  /\ UNCHANGED <<chiefVars, backend, jobs, reader, history>>

\* The worker process dies, or a Redis call of Worker.Process fails: the
\* message it held is gone (it was popped, and nothing acknowledges it).
LoseMessage(w) ==
  LET m == worker[w] IN
  /\ m.phase # "idle"
  /\ worker' = [worker EXCEPT ![w] = IdleWorker]
  /\ lost' = lost \cup {m.uuid}
  /\ run' = IF m.phase = "running"
            THEN Cell(run, m.task, m.uuid, "killed") ELSE run
  /\ UNCHANGED <<chiefVars, brokerVars, jobs, reader, published>>

\* An entry expires an hour after its last write, whatever its task does.
ExpireState(p) ==
  /\ backend[p] # "none"
  /\ backend' = [backend EXCEPT ![p] = "none"]
  /\ UNCHANGED <<chiefVars, queue, worker, jobs, reader, history>>

-----------------------------------------------------------------------------
(* Readers: GET /api/v1/status and the dashboard. The two GetTaskState      *)
(* calls are two reads. A render goes over its snapshot of rows one by one; *)
(* a reader stands for its work on one of them, which may start long after  *)
(* the snapshot was taken, so that the row may have changed meanwhile.      *)

StartStatus(r, p) ==
  /\ reader[r].phase = "idle"
  /\ reader' = [reader EXCEPT ![r] = [IdleReader EXCEPT !.phase = "readBuild", !.uuid = p]]
  /\ UNCHANGED <<chiefVars, brokerVars, worker, jobs, history>>

StartRender(r, p) ==
  /\ reader[r].phase = "idle"
  /\ p \in GetRecentJobs(jobs, submittedAt, RecentLimit)
  /\ ~IsTerminalState(jobs[p].state)
  /\ reader' = [reader EXCEPT ![r] =
       [IdleReader EXCEPT !.phase = "readBuild", !.kind = "render", !.uuid = p]]
  /\ UNCHANGED <<chiefVars, brokerVars, worker, jobs, history>>

\* What a read of pipeline p's entry may answer: a failing GET reads as no entry.
GetTaskState(p) == {backend[p], "none"}

ReadBuildState(r, buildState) ==
  /\ reader[r].phase = "readBuild"
  /\ buildState \in GetTaskState(reader[r].uuid)
  /\ reader' = [reader EXCEPT ![r] = [@ EXCEPT !.build = buildState, !.phase = "readRepo"]]
  /\ UNCHANGED <<chiefVars, brokerVars, worker, jobs, history>>

\* The second read, and what BuildStatus or resolveJobStates derives: the
\* status is answered; a render stops unless the overall state is final.
ReadRepoState(r, repoState) ==
  LET q == reader[r] IN
  /\ q.phase = "readRepo"
  /\ repoState \in GetTaskState(q.uuid)
  /\ reader' = [reader EXCEPT ![r] =
       CASE q.kind = "status" -> [q EXCEPT !.repo = repoState, !.phase = "answered"]
         [] q.kind = "render" /\ IsTerminalState(OverallState(q.build, repoState))
                              -> [q EXCEPT !.repo = repoState, !.phase = "stages"]
         [] OTHER             -> IdleReader]
  /\ UNCHANGED <<chiefVars, brokerVars, worker, jobs, history>>

\* UpdateJobStages, then UpdateJobState: the errors of both are ignored.
PersistStages(r) ==
  LET q == reader[r] IN
  /\ q.phase = "stages"
  /\ reader' = [reader EXCEPT ![r] = [@ EXCEPT !.phase = "state"]]
  /\ jobs' \in {jobs, UpdateJobStages(jobs, q.uuid, q.build, q.repo)}
  /\ UNCHANGED <<chiefVars, brokerVars, worker, history>>

PersistState(r) ==
  LET q == reader[r] IN
  /\ q.phase = "state"
  /\ reader' = [reader EXCEPT ![r] = IdleReader]
  /\ jobs' \in {jobs, UpdateJobState(jobs, q.uuid, OverallState(q.build, q.repo))}
  /\ UNCHANGED <<chiefVars, brokerVars, worker, history>>

EndStatus(r) ==
  /\ reader[r].phase = "answered"
  /\ reader' = [reader EXCEPT ![r] = IdleReader]
  /\ UNCHANGED <<chiefVars, brokerVars, worker, jobs, history>>

\* The chief process dies with every request in flight; SQLite and Redis stay.
ChiefCrash ==
  /\ \/ \E p \in Pipelines : chief[p] \in InFlight
     \/ \E r \in Readers : reader[r].phase # "idle"
  /\ chief' = [p \in Pipelines |-> IF chief[p] \in InFlight THEN "dropped" ELSE chief[p]]
  /\ reader' = [r \in Readers |-> IdleReader]
  /\ UNCHANGED <<submittedAt, clock, brokerVars, worker, jobs, history>>

-----------------------------------------------------------------------------
SubmissionStep(p) ==
  BeginSubmission(p) \/ RejectSubmission(p) \/ SetStatePending(p)
    \/ SendBuildChain(p) \/ RecordJob(p) \/ CleanupJobs(p)

WorkerStep(w) ==
  \/ Requeue(w) \/ SetStateReceived(w) \/ StartTask(w) \/ TaskReturns(w)
  \/ SetStateFailure(w) \/ SetStateSuccess(w) \/ ChainPending(w) \/ ChainPublish(w)

ReaderStep(r) ==
  \/ \E state \in TaskState : ReadBuildState(r, state) \/ ReadRepoState(r, state)
  \/ PersistStages(r) \/ PersistState(r) \/ EndStatus(r)

Next ==
  \/ \E p \in Pipelines : SubmissionStep(p) \/ ExpireState(p)
  \/ \E w \in Workers : WorkerStep(w) \/ LoseMessage(w)
  \/ \E w \in Workers, t \in Tasks, p \in Pipelines : Take(w, t, p)
  \/ \E r \in Readers : ReaderStep(r)
  \/ \E r \in Readers, p \in Pipelines : StartStatus(r, p) \/ StartRender(r, p)
  \/ ChiefCrash

Spec == Init /\ [][Next]_vars

\* Task functions return and worker processes run. BLPOP serves waiting clients
\* in the order they asked, so the worker that registered a task gets to its
\* message even while others pop it and push it back.
WorkerFairness ==
  /\ \A w \in Workers : WF_vars(WorkerStep(w))
  /\ \A w \in Workers, t \in Tasks, p \in Pipelines :
       Registered[w] = t => SF_vars(Take(w, t, p))

\* Two workers that each pop the other's task could push both back and pop the
\* same ones again for ever, in step. Only timing prevents it; the fair
\* specifications assume that pops and push-backs of two workers do not overlap.
NoPingPong ==
  \A v, w \in Workers : worker'[v].phase = "foreign" /\ worker'[w].phase = "foreign" => v = w

NoExpiry == \A p \in Pipelines : ~ExpireState(p)

\* Neither workers nor handlers read an entry, so that expiry has no effect on
\* what FairSpec is used for; leaving it out keeps the state space small.
FairSpec == Init /\ [][Next /\ NoPingPong /\ NoExpiry]_vars /\ WorkerFairness

\* A request goes on; an open dashboard reloads every ten seconds; not every one
\* of its requests dies with the chief at the same point; Redis does not refuse one
\* of the two reads of every render, nor does the database refuse every write.
\* Entries do not expire in the meantime: that is a real assumption here.
DashboardFairness ==
  \A r \in Readers :
    /\ WF_vars(ReaderStep(r))
    /\ \A p \in Pipelines :
         LET Rendering == reader[r].kind = "render" /\ reader[r].uuid = p IN
         /\ SF_vars(StartRender(r, p))
         /\ SF_vars(Rendering /\ ReadBuildState(r, backend[p]))
         /\ SF_vars(/\ Rendering /\ reader[r].build = backend[p]
                    /\ ReadRepoState(r, backend[p]))
         /\ SF_vars(Rendering /\ PersistStages(r))
         /\ SF_vars(Rendering /\ PersistState(r) /\ jobs' # jobs)

WatchedSpec == FairSpec /\ DashboardFairness

-----------------------------------------------------------------------------
(* What became of a pipeline, by its tasks' functions.                      *)
Failed(p)   == \E t \in Tasks : run[t][p] = "error"
Built(p)    == run["build"][p] = "ok"
Injected(p) == run["repo"][p] = "ok"
Settled(p)  == Failed(p) \/ Injected(p)

Carriers(p) == {w \in Workers : worker[w].phase # "idle" /\ worker[w].uuid = p}
Queued(p)   == \E t \in Tasks : queue[t][p] > 0

\* A pipeline's message is in one place at most: one copy of one of its tasks in
\* Redis, or one worker holding it (messages popped and pushed back included).
OneMessage ==
  \A p \in Pipelines :
    /\ \A t \in Tasks : queue[t][p] <= 1
    /\ queue["build"][p] = 0 \/ queue["repo"][p] = 0
    /\ \A v, w \in Carriers(p) : v = w
    /\ Carriers(p) # {} => ~Queued(p)

\* A pipeline whose chain was sent either has reached its end, or still has its
\* message somewhere, or lost it to a crash or a failed call: popping, pushing
\* back and the hand-over from build to repo drop nothing by themselves.
NothingVanishes ==
  \A p \in published \ lost : Settled(p) \/ Queued(p) \/ Carriers(p) # {}

\* The repo task is queued, held or run only once the pipeline's own build
\* function has returned without an error.
RepoAfterBuild ==
  \A p \in Pipelines :
    \/ queue["repo"][p] > 0
    \/ run["repo"][p] # "never"
    \/ \E w \in Carriers(p) : worker[w].task = "repo"
    => Built(p)

\* A task function that has been started is never started again, and one that
\* ended keeps its end: no crash or retry makes machinery run a task twice.
RunOnce ==
  [][\A t \in Tasks, p \in Pipelines :
       /\ run[t][p] \notin {"never", "running"} => run'[t][p] = run[t][p]
       /\ run[t][p] = "running" => run'[t][p] # "never"]_vars

EntryMoves == {<<"PENDING", "RECEIVED">>, <<"RECEIVED", "STARTED">>,
               <<"STARTED", "SUCCESS">>, <<"STARTED", "FAILURE">>, <<"SUCCESS", "PENDING">>}

\* The one entry that both tasks of a pipeline write from several processes never goes
\* back: it takes the states of one task in their order, those of the repo task after
\* the build's success; and a pipeline that has ended is never in progress again, not
\* even after its entry expired.
EntryMovesOn ==
  [][\A p \in Pipelines : LET was == backend[p]
                              now == backend'[p] IN now # was =>
       /\ now = "none" \/ was = "none" \/ <<was, now>> \in EntryMoves
       /\ now \in InProgressState => ~Settled(p)]_vars

\* A row FAILED means that a task of the pipeline returned an error, a row DONE at
\* least that its build succeeded, although the two states each was derived from are
\* two reads of one entry that changes, expires and is written by both tasks.
RowIsTrue ==
  \A p \in Pipelines :
    /\ jobs[p].state = "FAILED" => Failed(p)
    /\ jobs[p].state = "DONE" => Built(p)

\* No render, however stale its reads, changes a row that is final: the guards
\* of both UPDATEs hold back late writers, and RecordJob meets no existing row.
FinalRowIsFrozen ==
  [][\A p \in Pipelines :
       IsTerminalState(jobs[p].state) => jobs'[p] \in {jobs[p], NoRow}]_vars

\* A row disappears only while MaxJobs rows submitted later remain.
EvictsOldestOnly ==
  [][\A p \in Pipelines :
       HasRow(jobs, p) /\ ~HasRow(jobs', p) =>
         Cardinality({v \in Pipelines : /\ HasRow(jobs', v)
                                        /\ submittedAt[v] > submittedAt[p]}) >= MaxJobs]_vars

Answer(r) == DeriveBuildPipelineState(reader[r].build, reader[r].repo)

\* What the status API answers from its two reads is true of the pipeline as far
\* as it goes: FAILED only if a task failed, REPO and DONE only if it was built.
AnswerIsTrue ==
  \A r \in Readers : reader[r].phase = "answered" =>
    /\ Answer(r) = "FAILED" => Failed(reader[r].uuid)
    /\ Answer(r) \in {"REPO", "DONE"} => Built(reader[r].uuid)

\* A pipeline the chief has accepted ends, unless its message is lost.
AcceptedSettles ==
  \A p \in Pipelines :
    chief[p] \in {"sent", "inserted", "accepted"} ~> Settled(p) \/ p \in lost

\* While a dashboard is open and no entry expires, the row of a pipeline becomes
\* final, unless it is evicted or the pipeline's message is lost.
RowBecomesFinal ==
  \A p \in Pipelines :
    HasRow(jobs, p) ~> \/ ~Updatable(jobs, p)
                       \/ p \in lost

\* domain/status.go: "When build succeeds and repo is in-progress, returns REPO".
\* Of a status request both of whose reads fall in the repo task's execution.
RepoProgressIsReported ==
  \A p \in Pipelines :
    run["repo"][p] = "running" => DeriveBuildPipelineState(backend[p], backend[p]) = "REPO"

\* A row says DONE when its repo task succeeded (storage/jobs.go: repo_state is
\* the "State of repo task"), not before.
DoneRowMeansInjected == \A p \in Pipelines : jobs[p].state = "DONE" => Injected(p)
-----------------------------------------------------------------------------
(* Refinement of AbstractPipeline.                                          *)
StageOf(p) ==
  CASE Injected(p)                                   -> "done"
    [] Failed(p) /\ ~Injected(p)                     -> "failed"
    [] p \in lost /\ ~Settled(p)                     -> "lost"
    [] p \notin lost /\ run["repo"][p] = "running"   -> "injecting"
    [] p \notin lost /\ Built(p) /\ run["repo"][p] = "never"   -> "built"
    [] p \notin lost /\ run["build"][p] = "running"  -> "building"
    [] p \notin lost /\ run["build"][p] = "never" /\ p \in published -> "queued"
    [] OTHER                                         -> "new"

Abstract == INSTANCE AbstractPipeline WITH stage <- [p \in Pipelines |-> StageOf(p)]

\* Every step of the chief, the workers and the readers is a step of the
\* abstract pipeline or leaves it alone.
ImplementsAbstractPipeline == Abstract!Spec
=============================================================================
