--------------------------- MODULE PipelineSafety ---------------------------
(***************************************************************************)
(* The safety theorems of Pipeline. Each property of Pipeline is one part  *)
(* of, or follows from, the inductive invariant IInv: where a pipeline's   *)
(* message may be is tied to what its task functions have done, and every  *)
(* state read from Redis, held by a request or stored in SQLite is tied to *)
(* what a task function returned.                                          *)
(***************************************************************************)
EXTENDS Pipeline, RecencyLemmas

-----------------------------------------------------------------------------
(* Operators and types.                                                     *)

\* What the chief derives from two task states is a state of the right kind,
\* and final only if one of the two reads saw a final state.
LEMMA DerivedStates ==
  ASSUME NEW b \in TaskState, NEW s \in TaskState
  PROVE  /\ DeriveCurrentStage(b, s) \in {"build", "repo", "completed"}
         /\ OverallState(b, s) \in {"PENDING", "FAILED", "DONE"}
         /\ OverallState(b, s) = "FAILED" => b = "FAILURE" \/ s = "FAILURE"
         /\ OverallState(b, s) = "DONE" => b = "SUCCESS"
         /\ DeriveBuildPipelineState(b, s) = "FAILED" => b = "FAILURE" \/ s = "FAILURE"
         /\ DeriveBuildPipelineState(b, s) \in {"REPO", "DONE"} => b = "SUCCESS"
  BY DEF DeriveCurrentStage, OverallState, DeriveBuildPipelineState, TaskState,
         InProgressState

\* The status API and the dashboard, each with a derivation of its own (domain/status.go,
\* resolveJobStates, DeriveCurrentStage), agree on which pairs of task states are final.
THEOREM DerivationsAgree ==
  \A b, s \in TaskState :
    /\ DeriveBuildPipelineState(b, s) = "FAILED" <=> OverallState(b, s) = "FAILED"
    /\ DeriveBuildPipelineState(b, s) = "DONE" <=> OverallState(b, s) = "DONE"
    /\ DeriveCurrentStage(b, s) = "completed" <=> OverallState(b, s) = "DONE"
  BY DEF DeriveCurrentStage, OverallState, DeriveBuildPipelineState, TaskState, InProgressState

\* RecordJob's first statement sets a row.
LEMMA InsertStatement ==
  ASSUME NEW table \in [Pipelines -> Row], NEW u \in Pipelines
  PROVE  /\ InsertJob(table, u) \in [Pipelines -> Row]
         /\ InsertJob(table, u)[u] = NewRow
         /\ \A p \in Pipelines : p # u => InsertJob(table, u)[p] = table[p]
  <1>1. NewRow \in Row
    BY DEF NewRow, Row, RowState, TaskState
  <1> QED
    BY <1>1 DEF InsertJob

\* Its second keeps or removes each row.
LEMMA CleanupStatement ==
  ASSUME NEW table \in [Pipelines -> Row], NEW at, NEW n
  PROVE  /\ CleanupOldJobs(table, at, n) \in [Pipelines -> Row]
         /\ \A p \in Pipelines : CleanupOldJobs(table, at, n)[p] \in {table[p], NoRow}
  <1>1. NoRow \in Row
    BY DEF NoRow, Row, RowState, TaskState
  <1> QED
    BY <1>1 DEF CleanupOldJobs

\* The UPDATE statements leave a table of rows; they touch no row but the one they
\* name, no row that is final, and create none.
LEMMA UpdateStatements ==
  ASSUME NEW table \in [Pipelines -> Row], NEW u \in Pipelines,
         NEW b \in TaskState, NEW s \in TaskState, NEW st \in {"PENDING", "FAILED", "DONE"}
  PROVE  /\ UpdateJobStages(table, u, b, s) \in [Pipelines -> Row]
         /\ UpdateJobState(table, u, st) \in [Pipelines -> Row]
         /\ \A p \in Pipelines :
              /\ UpdateJobStages(table, u, b, s)[p].state = table[p].state
              /\ UpdateJobState(table, u, st)[p].state \in {table[p].state, st}
              /\ p # u => UpdateJobState(table, u, st)[p] = table[p]
              /\ table[p].state = "none" => UpdateJobState(table, u, st)[p].state = "none"
              /\ IsTerminalState(table[p].state) =>
                   /\ UpdateJobState(table, u, st)[p] = table[p]
                   /\ UpdateJobStages(table, u, b, s)[p] = table[p]
  <1>1. table[u] \in Row
    OBVIOUS
  <1>2. [state |-> table[u].state, build |-> b, repo |-> s,
         stage |-> DeriveCurrentStage(b, s)] \in Row
    <2>1. DeriveCurrentStage(b, s) \in {"none", "build", "repo", "completed"}
      BY DerivedStates
    <2>2. table[u].state \in RowState
      BY <1>1 DEF Row
    <2> QED
      BY <2>1, <2>2 DEF Row
  <1>3. [table[u] EXCEPT !.state = st] \in Row
    BY <1>1 DEF Row, RowState
  <1>4. UpdateJobStages(table, u, b, s) \in [Pipelines -> Row]
    BY <1>2 DEF UpdateJobStages
  <1>5. UpdateJobState(table, u, st) \in [Pipelines -> Row]
    BY <1>3 DEF UpdateJobState
  <1>6. ASSUME NEW p \in Pipelines
         PROVE  /\ UpdateJobStages(table, u, b, s)[p].state = table[p].state
                /\ UpdateJobState(table, u, st)[p].state \in {table[p].state, st}
                /\ p # u => UpdateJobState(table, u, st)[p] = table[p]
                /\ table[p].state = "none" => UpdateJobState(table, u, st)[p].state = "none"
                /\ IsTerminalState(table[p].state) =>
                     /\ UpdateJobState(table, u, st)[p] = table[p]
                     /\ UpdateJobStages(table, u, b, s)[p] = table[p]
    BY <1>1, table[p] \in Row
       DEF UpdateJobStages, UpdateJobState, Updatable, HasRow, Row
  <1> QED
    BY <1>4, <1>5, <1>6

\* Setting one entry of a table of tasks and pipelines.
LEMMA CellUpdate ==
  ASSUME NEW S, NEW f \in [Tasks -> [Pipelines -> S]], NEW t \in Tasks,
         NEW p \in Pipelines, NEW v \in S
  PROVE  Cell(f, t, p, v) \in [Tasks -> [Pipelines -> S]]
  <1>1. f[t] \in [Pipelines -> S]
    OBVIOUS
  <1>2. [f[t] EXCEPT ![p] = v] \in [Pipelines -> S]
    BY <1>1
  <1> QED
    BY <1>1, <1>2 DEF Cell

\* What an update of queue, or of run, leaves in each of its entries.
LEMMA QueueUpdate ==
  ASSUME queue \in [Tasks -> [Pipelines -> Nat]], NEW t \in Tasks, NEW p \in Pipelines,
         NEW n \in Nat, queue' = Cell(queue, t, p, n)
  PROVE  \A u \in Tasks, q \in Pipelines :
           queue'[u][q] = IF u = t /\ q = p THEN n ELSE queue[u][q]
  BY queue[t] \in [Pipelines -> Nat] DEF Cell

LEMMA RunUpdate ==
  ASSUME run \in [Tasks -> [Pipelines -> RunState]], NEW t \in Tasks, NEW p \in Pipelines,
         NEW s \in RunState, run' = Cell(run, t, p, s)
  PROVE  \A u \in Tasks, q \in Pipelines :
           run'[u][q] = IF u = t /\ q = p THEN s ELSE run[u][q]
  BY run[t] \in [Pipelines -> RunState] DEF Cell

\* The records of workers and readers after a step.
LEMMA WorkerRecords ==
  /\ IdleWorker \in WorkerRecord
  /\ \A m \in WorkerRecord : m.phase # "idle" =>
       /\ m.uuid \in Pipelines
       /\ m.task \in Tasks
       /\ \A ph \in WorkerPhase \ {"idle"} : [m EXCEPT !.phase = ph] \in WorkerRecord
  /\ \A ph \in WorkerPhase \ {"idle"}, t \in Tasks, p \in Pipelines :
       [phase |-> ph, task |-> t, uuid |-> p] \in WorkerRecord
  BY DEF IdleWorker, WorkerRecord

LEMMA ReaderRecords ==
  /\ IdleReader \in ReaderRecord
  /\ \A q \in ReaderRecord : q.phase # "idle" =>
       /\ q.uuid \in Pipelines
       /\ q.build \in TaskState /\ q.repo \in TaskState
       /\ \A ph \in ReaderPhase \ {"idle"}, s \in TaskState :
            /\ [q EXCEPT !.phase = ph] \in ReaderRecord
            /\ [q EXCEPT !.repo = s, !.phase = ph] \in ReaderRecord
            /\ [q EXCEPT !.build = s, !.phase = ph] \in ReaderRecord
  /\ \A p \in Pipelines :
       /\ [IdleReader EXCEPT !.phase = "readBuild", !.uuid = p] \in ReaderRecord
       /\ [IdleReader EXCEPT !.phase = "readBuild", !.kind = "render", !.uuid = p]
             \in ReaderRecord
  <1>1. IdleReader \in ReaderRecord
    BY DEF ReaderRecord
  <1>2. \A q \in ReaderRecord : q.phase # "idle" =>
          q \in [phase : ReaderPhase \ {"idle"}, kind : {"status", "render"},
                 uuid : Pipelines, build : TaskState, repo : TaskState]
    BY DEF ReaderRecord, IdleReader
  <1>3. ASSUME NEW q \in [phase : ReaderPhase \ {"idle"}, kind : {"status", "render"},
                          uuid : Pipelines, build : TaskState, repo : TaskState],
               NEW ph \in ReaderPhase \ {"idle"}, NEW s \in TaskState
        PROVE  /\ [q EXCEPT !.phase = ph] \in ReaderRecord
               /\ [q EXCEPT !.repo = s, !.phase = ph] \in ReaderRecord
               /\ [q EXCEPT !.build = s, !.phase = ph] \in ReaderRecord
    BY DEF ReaderRecord
  <1>4. ASSUME NEW p \in Pipelines
        PROVE  /\ [IdleReader EXCEPT !.phase = "readBuild", !.uuid = p] \in ReaderRecord
               /\ [IdleReader EXCEPT !.phase = "readBuild", !.kind = "render", !.uuid = p]
                    \in ReaderRecord
    BY DEF ReaderRecord, IdleReader, ReaderPhase, TaskState
  <1> QED
    BY <1>1, <1>2, <1>3, <1>4

LEMMA TypeInit == Init => TypeOK
  <1> USE DEF TypeOK
  <1>1. NoRow \in Row
    BY DEF NoRow, Row, RowState, TaskState
  <1>2. ASSUME Init PROVE queue \in [Tasks -> [Pipelines -> Nat]]
    BY <1>2 DEF Init
  <1>3. ASSUME Init PROVE run \in [Tasks -> [Pipelines -> RunState]]
    BY <1>3 DEF Init, RunState
  <1>4. ASSUME Init PROVE worker \in [Workers -> WorkerRecord]
    BY <1>4, WorkerRecords DEF Init
  <1>5. ASSUME Init PROVE reader \in [Readers -> ReaderRecord]
    BY <1>5, ReaderRecords DEF Init
  <1> QED
    BY <1>1, <1>2, <1>3, <1>4, <1>5 DEF Init, ChiefPhase, TaskState

LEMMA TypeStep == TypeOK /\ [Next]_vars => TypeOK'
  <1> USE DEF TypeOK
  <1> SUFFICES ASSUME TypeOK, [Next]_vars PROVE TypeOK'
    OBVIOUS
  <1>1. ASSUME NEW p \in Pipelines, BeginSubmission(p) PROVE TypeOK'
    BY <1>1 DEF BeginSubmission, ChiefPhase, brokerVars, history
  <1>2. ASSUME NEW p \in Pipelines, RejectSubmission(p) \/ SetStatePending(p) PROVE TypeOK'
    BY <1>2 DEF RejectSubmission, SetStatePending, ChiefPhase, TaskState,
                InProgressState, brokerVars, history
  <1>3. ASSUME NEW p \in Pipelines, SendBuildChain(p) PROVE TypeOK'
    <2>1. Cell(queue, "build", p, queue["build"][p] + 1) \in [Tasks -> [Pipelines -> Nat]]
      <3>1. "build" \in Tasks
        BY DEF Tasks
      <3>2. queue["build"][p] + 1 \in Nat
        BY <3>1
      <3> QED
        BY <3>1, <3>2, CellUpdate
    <2> QED
      BY <1>3, <2>1 DEF SendBuildChain, PushBuild, ChiefPhase
  <1>4. ASSUME NEW p \in Pipelines, RecordJob(p) \/ CleanupJobs(p) PROVE TypeOK'
    <2>1. /\ InsertJob(jobs, p) \in [Pipelines -> Row]
          /\ CleanupOldJobs(jobs, submittedAt, MaxJobs) \in [Pipelines -> Row]
      BY InsertStatement, CleanupStatement
    <2> QED
      BY <1>4, <2>1 DEF RecordJob, CleanupJobs, ChiefPhase, brokerVars, history
  <1>5. ASSUME NEW w \in Workers, NEW t \in Tasks, NEW p \in Pipelines, Take(w, t, p)
        PROVE  TypeOK'
    <2>1. worker' \in [Workers -> WorkerRecord]
      BY <1>5, WorkerRecords DEF Take, WorkerPhase
    <2>2. queue' \in [Tasks -> [Pipelines -> Nat]]
      <3>1. queue[t][p] - 1 \in Nat
        BY <1>5 DEF Take
      <3> QED
        BY <1>5, <3>1, CellUpdate DEF Take
    <2> QED
      BY <1>5, <2>1, <2>2 DEF Take, chiefVars, history
  <1>6. ASSUME NEW w \in Workers, WorkerStep(w) \/ LoseMessage(w) PROVE TypeOK'
    <2>1. /\ worker[w] \in WorkerRecord
          /\ worker[w].phase # "idle"
          /\ worker[w].task \in Tasks
          /\ worker[w].uuid \in Pipelines
      <3>1. worker[w].phase # "idle"
        BY <1>6 DEF WorkerStep, LoseMessage, Requeue, SetStateReceived, StartTask,
                    TaskReturns, SetStateFailure, SetStateSuccess, ChainPending, ChainPublish
      <3> QED
        BY <3>1, WorkerRecords
    <2>2. worker' \in [Workers -> WorkerRecord]
      <3>1. \A ph \in WorkerPhase \ {"idle"} : [worker[w] EXCEPT !.phase = ph] \in WorkerRecord
        BY <2>1, WorkerRecords
      <3>2. \/ \E ph \in WorkerPhase \ {"idle"} :
                 worker' = [worker EXCEPT ![w] = [worker[w] EXCEPT !.phase = ph]]
            \/ worker' = [worker EXCEPT ![w] = IdleWorker]
        BY <1>6 DEF WorkerStep, LoseMessage, Requeue, SetStateReceived, StartTask,
                    TaskReturns, SetStateFailure, SetStateSuccess, ChainPending,
                    ChainPublish, WorkerPhase
      <3> QED
        BY <3>1, <3>2, WorkerRecords
    <2>3. backend' \in [Pipelines -> TaskState]
      BY <1>6 DEF WorkerStep, LoseMessage, Requeue, SetStateReceived, StartTask, TaskReturns,
                  SetStateFailure, SetStateSuccess, ChainPending, ChainPublish, TaskState,
                  InProgressState, brokerVars
    <2>4. queue' \in [Tasks -> [Pipelines -> Nat]]
      <3>1. \/ queue' = queue
            \/ \E t \in Tasks :
                 queue' = Cell(queue, t, worker[w].uuid, queue[t][worker[w].uuid] + 1)
        BY <1>6, <2>1 DEF WorkerStep, LoseMessage, Requeue, SetStateReceived, StartTask,
                    TaskReturns, SetStateFailure, SetStateSuccess, ChainPending,
                    ChainPublish, Tasks, brokerVars
      <3>2. ASSUME NEW t \in Tasks
            PROVE  Cell(queue, t, worker[w].uuid, queue[t][worker[w].uuid] + 1)
                     \in [Tasks -> [Pipelines -> Nat]]
        <4>1. queue[t][worker[w].uuid] + 1 \in Nat
          BY <2>1
        <4> QED
          BY <2>1, <4>1, CellUpdate
      <3> QED
        BY <3>1, <3>2
    <2>5. run' \in [Tasks -> [Pipelines -> RunState]]
      <3>1. \/ run' = run
            \/ \E s \in RunState : run' = Cell(run, worker[w].task, worker[w].uuid, s)
        BY <1>6 DEF WorkerStep, LoseMessage, Requeue, SetStateReceived, StartTask,
                    TaskReturns, SetStateFailure, SetStateSuccess, ChainPending,
                    ChainPublish, RunState, history
      <3>2. ASSUME NEW s \in RunState
            PROVE  Cell(run, worker[w].task, worker[w].uuid, s)
                     \in [Tasks -> [Pipelines -> RunState]]
        BY <2>1, CellUpdate
      <3> QED
        BY <3>1, <3>2
    <2>6. lost' \subseteq Pipelines
      BY <1>6, <2>1 DEF WorkerStep, LoseMessage, Requeue, SetStateReceived, StartTask,
                  TaskReturns, SetStateFailure, SetStateSuccess, ChainPending, ChainPublish,
                  history
    <2>7. UNCHANGED <<chiefVars, jobs, reader, published>>
      BY <1>6 DEF WorkerStep, LoseMessage, Requeue, SetStateReceived, StartTask, TaskReturns,
                  SetStateFailure, SetStateSuccess, ChainPending, ChainPublish, history
    <2> QED
      BY <2>2, <2>3, <2>4, <2>5, <2>6, <2>7 DEF chiefVars
  <1>7. ASSUME NEW p \in Pipelines, ExpireState(p) PROVE TypeOK'
    BY <1>7 DEF ExpireState, TaskState, chiefVars, history
  <1>8. ASSUME NEW r \in Readers, NEW p \in Pipelines, StartStatus(r, p) \/ StartRender(r, p)
        PROVE  TypeOK'
    BY <1>8, ReaderRecords DEF StartStatus, StartRender, chiefVars, brokerVars, history
  <1>9. ASSUME NEW r \in Readers,
               \/ \E state \in TaskState : ReadBuildState(r, state) \/ ReadRepoState(r, state)
               \/ EndStatus(r)
        PROVE  TypeOK'
    <2>1. /\ reader[r] \in ReaderRecord
          /\ reader[r].phase # "idle"
          /\ backend[reader[r].uuid] \in TaskState
      BY <1>9, ReaderRecords DEF ReadBuildState, ReadRepoState, EndStatus
    <2>2. \A ph \in ReaderPhase \ {"idle"} :
            /\ [reader[r] EXCEPT !.repo = backend[reader[r].uuid], !.phase = ph]
                  \in ReaderRecord
            /\ [reader[r] EXCEPT !.build = backend[reader[r].uuid], !.phase = ph]
                  \in ReaderRecord
      BY <2>1, ReaderRecords
    <2>3. \E q \in ReaderRecord : reader' = [reader EXCEPT ![r] = q]
      BY <1>9, <2>2, ReaderRecords DEF ReadBuildState, ReadRepoState, EndStatus, ReaderPhase
    <2> QED
      BY <1>9, <2>3 DEF ReadBuildState, ReadRepoState, EndStatus, chiefVars,
                        brokerVars, history
  <1>10. ASSUME NEW r \in Readers, PersistStages(r) \/ PersistState(r) PROVE TypeOK'
    <2>1. /\ reader[r] \in ReaderRecord
          /\ reader[r].phase # "idle"
          /\ reader[r].uuid \in Pipelines
          /\ reader[r].build \in TaskState /\ reader[r].repo \in TaskState
      BY <1>10, ReaderRecords DEF PersistStages, PersistState
    <2>2. OverallState(reader[r].build, reader[r].repo) \in {"PENDING", "FAILED", "DONE"}
      BY <2>1, DerivedStates
    <2>3. /\ UpdateJobStages(jobs, reader[r].uuid, reader[r].build, reader[r].repo)
               \in [Pipelines -> Row]
          /\ UpdateJobState(jobs, reader[r].uuid,
                OverallState(reader[r].build, reader[r].repo)) \in [Pipelines -> Row]
      <3>1. jobs \in [Pipelines -> Row]
        OBVIOUS
      <3> HIDE DEF TypeOK
      <3> QED
        BY <2>1, <2>2, <3>1, UpdateStatements
    <2>4. reader' \in [Readers -> ReaderRecord]
      <3>1. /\ [reader[r] EXCEPT !.phase = "state"] \in ReaderRecord
            /\ IdleReader \in ReaderRecord
        BY <2>1, ReaderRecords DEF ReaderPhase
      <3> QED
        BY <1>10, <3>1 DEF PersistStages, PersistState
    <2> QED
      BY <1>10, <2>3, <2>4 DEF PersistStages, PersistState, chiefVars, brokerVars, history
  <1>11. CASE ChiefCrash
    BY <1>11, ReaderRecords DEF ChiefCrash, ChiefPhase, brokerVars, history
  <1>12. CASE UNCHANGED vars
    BY <1>12 DEF vars, chiefVars, brokerVars, history
  <1> QED
    BY <1>1, <1>2, <1>3, <1>4, <1>5, <1>6, <1>7, <1>8, <1>9, <1>10, <1>11, <1>12
       DEF Next, SubmissionStep, ReaderStep

\* Every reachable state has the types TypeOK gives.
THEOREM TypeCorrect == Spec => []TypeOK
  BY TypeInit, TypeStep, PTL DEF Spec

-----------------------------------------------------------------------------
(* The inductive invariant.                                                 *)

\* Before its push a pipeline has no message; nor has it been run, or lost.
SentByChief ==
  /\ \A p \in Pipelines :
       /\ chief[p] \in {"new", "preparing", "pending"} => p \notin published
       /\ chief[p] \in {"sent", "inserted"} => p \in published
       /\ run["build"][p] # "never" => p \in published
       /\ run["repo"][p] # "never" => Built(p)
  /\ lost \subseteq published

\* A queued task was never started, and a repo task is queued after its build.
QueueMatchesRun ==
  \A p \in Pipelines :
    /\ queue["build"][p] > 0 => /\ p \in published
                                /\ run["build"][p] = "never"
                                /\ run["repo"][p] = "never"
    /\ queue["repo"][p] > 0 => Built(p) /\ run["repo"][p] = "never"

\* How far a worker is with its message is how far the task's function is.
MatchesRun(m) ==
  /\ m.uuid \in published
  /\ m.task = "build" => run["repo"][m.uuid] = "never"
  /\ m.task = "repo" => Built(m.uuid)
  /\ m.phase \in {"foreign", "taken", "received"} => run[m.task][m.uuid] = "never"
  /\ m.phase = "running" => run[m.task][m.uuid] = "running"
  /\ m.phase = "succeeded" => run[m.task][m.uuid] = "ok"
  /\ m.phase = "failed" => run[m.task][m.uuid] = "error"
  /\ m.phase \in {"chaining", "publishing"} => m.task = "build" /\ Built(m.uuid)

WorkerMatchesRun ==
  \A w \in Workers : worker[w].phase # "idle" => MatchesRun(worker[w])

\* Nothing takes up again a pipeline whose message is lost.
LostIsGone == \A p \in lost : ~Queued(p) /\ Carriers(p) = {}

MessageInv ==
  /\ SentByChief
  /\ QueueMatchesRun
  /\ WorkerMatchesRun
  /\ OneMessage
  /\ NothingVanishes
  /\ LostIsGone

\* A final task state, in Redis or read by a request, has its cause.
StatesAreTrue ==
  /\ \A p \in Pipelines :
       /\ backend[p] = "FAILURE" => Failed(p)
       /\ backend[p] = "SUCCESS" => Built(p)
  /\ \A r \in Readers :
       /\ "FAILURE" \in {reader[r].build, reader[r].repo} => Failed(reader[r].uuid)
       /\ "SUCCESS" \in {reader[r].build, reader[r].repo} => Built(reader[r].uuid)

\* What a pipeline's entry says, unless it expired, is where its message is.
MatchesEntry(m) ==
  /\ m.phase \in {"foreign", "taken", "publishing"} => backend[m.uuid] \in {"none", "PENDING"}
  /\ m.phase = "received" => backend[m.uuid] \in {"none", "RECEIVED"}
  /\ m.phase \in {"running", "succeeded", "failed"} => backend[m.uuid] \in {"none", "STARTED"}
  /\ m.phase = "chaining" => backend[m.uuid] \in {"none", "SUCCESS"}

EntryMatchesMessage ==
  /\ \A p \in Pipelines :
       /\ chief[p] \in {"new", "preparing"} => backend[p] = "none"
       /\ chief[p] = "pending" => backend[p] \in {"none", "PENDING"}
       /\ \A t \in Tasks : queue[t][p] > 0 => backend[p] \in {"none", "PENDING"}
  /\ \A w \in Workers : worker[w].phase # "idle" => MatchesEntry(worker[w])

\* A row is recorded only for a pipeline whose build task was pushed.
RowHasPipeline == \A p \in Pipelines : HasRow(jobs, p) => p \in published

\* A final row has its cause, and no row precedes its submission's push.
RowsAreTrue ==
  /\ RowIsTrue
  /\ RowHasPipeline
  /\ \A p \in Pipelines : chief[p] = "sent" => ~HasRow(jobs, p)

\* Submissions are finitely many, and no two have the same timestamp.
SubmissionsAreOrdered ==
  /\ \A p \in Pipelines : submittedAt[p] = 0 <=> chief[p] = "new"
  /\ \A p \in Pipelines : submittedAt[p] < clock
  /\ \A p, q \in Pipelines : submittedAt[p] = submittedAt[q] => p = q \/ submittedAt[p] = 0
  /\ IsFiniteSet({p \in Pipelines : submittedAt[p] # 0})

IInv ==
  /\ TypeOK /\ MessageInv /\ EntryMatchesMessage
  /\ StatesAreTrue /\ RowsAreTrue /\ SubmissionsAreOrdered
\* Neither do the steps that only move a handler forward break the invariant of
\* messages, nor those of readers or the expiry of an entry.
LEMMA HandlerKeepsMessages ==
  ASSUME TypeOK, MessageInv, UNCHANGED <<queue, worker, history>>,
         \A p \in Pipelines :
           /\ chief'[p] \in {"new", "preparing", "pending"} =>
                chief[p] \in {"new", "preparing", "pending"}
           /\ chief'[p] \in {"sent", "inserted"} => chief[p] \in {"sent", "inserted"}
  PROVE  MessageInv'
  <1> USE DEF MessageInv, history
  <1>1. SentByChief'
    BY DEF SentByChief, Built
  <1>2. QueueMatchesRun'
    BY DEF QueueMatchesRun, Built
  <1>3. WorkerMatchesRun'
    BY DEF WorkerMatchesRun, MatchesRun, Built
  <1>4. OneMessage'
    BY DEF OneMessage, Carriers, Queued
  <1>5. NothingVanishes'
    BY DEF NothingVanishes, Settled, Failed, Injected, Queued, Carriers
  <1>6. LostIsGone'
    BY DEF LostIsGone, Queued, Carriers
  <1> QED
    BY <1>1, <1>2, <1>3, <1>4, <1>5, <1>6

\* The worker that holds a pipeline's message holds its only one.
LEMMA OnlyHolder ==
  ASSUME TypeOK, MessageInv, NEW w \in Workers, NEW p \in Pipelines,
         worker[w].phase # "idle", worker[w].uuid = p
  PROVE  /\ MatchesRun(worker[w])
         /\ p \notin lost
         /\ \A u \in Tasks : queue[u][p] = 0
         /\ \A v \in Workers : v # w => worker[v].phase = "idle" \/ worker[v].uuid # p
  <1>1. w \in Carriers(p)
    BY DEF Carriers
  <1>2. MatchesRun(worker[w])
    BY DEF MessageInv, WorkerMatchesRun
  <1>3. p \notin lost
    BY <1>1 DEF MessageInv, LostIsGone
  <1>4. ~Queued(p)
    BY <1>1 DEF MessageInv, OneMessage
  <1>5. \A u \in Tasks : queue[u][p] = 0
    BY <1>4 DEF Queued, TypeOK
  <1>6. ASSUME NEW v \in Workers, v # w, worker[v].phase # "idle", worker[v].uuid = p
        PROVE  FALSE
    <2>1. v \in Carriers(p)
      BY <1>6 DEF Carriers
    <2> QED
      BY <1>1, <1>6, <2>1 DEF MessageInv, OneMessage
  <1> QED
    BY <1>2, <1>3, <1>5, <1>6

LEMMA PushKeepsMessages ==
  ASSUME TypeOK, MessageInv, NEW p \in Pipelines, SendBuildChain(p), PushBuild(p)
  PROVE  MessageInv'
  <1> USE DEF MessageInv, TypeOK
  <1>1. /\ "build" \in Tasks /\ "repo" \in Tasks
        /\ queue["build"][p] = 0 /\ queue["repo"][p] = 0
        /\ run["build"][p] = "never" /\ run["repo"][p] = "never"
        /\ p \notin published /\ p \notin lost
        /\ Carriers(p) = {}
    BY DEF SendBuildChain, SentByChief, QueueMatchesRun, WorkerMatchesRun, MatchesRun, Carriers, Tasks, Built
  <1>2. \A u \in Tasks, q \in Pipelines :
          queue'[u][q] = IF u = "build" /\ q = p THEN 1 ELSE queue[u][q]
    <2>1. queue' = Cell(queue, "build", p, 1) /\ queue \in [Tasks -> [Pipelines -> Nat]]
      BY <1>1 DEF PushBuild
    <2>2. "build" \in Tasks /\ p \in Pipelines /\ 1 \in Nat
      BY <1>1
    <2> HIDE DEF MessageInv, TypeOK
    <2> QED
      BY <2>1, <2>2, QueueUpdate
  <1>3. /\ published' = published \cup {p}
        /\ UNCHANGED <<worker, run, lost>>
        /\ chief'[p] \in {"sent", "rejected"}
        /\ \A q \in Pipelines : q # p => chief'[q] = chief[q]
    BY DEF SendBuildChain, PushBuild
  <1> USE DEF Tasks
  <1>4. SentByChief'
    BY <1>3 DEF SentByChief, Built
  <1>5. QueueMatchesRun'
    BY <1>1, <1>2, <1>3 DEF QueueMatchesRun, Built
  <1>6. WorkerMatchesRun'
    BY <1>3 DEF WorkerMatchesRun, MatchesRun, Built
  <1>7. OneMessage'
    BY <1>1, <1>2, <1>3 DEF OneMessage, Carriers, Queued
  <1>8. NothingVanishes'
    BY <1>1, <1>2, <1>3 DEF NothingVanishes, Settled, Failed, Injected, Queued, Carriers
  <1>9. LostIsGone'
    BY <1>1, <1>2, <1>3 DEF LostIsGone, TypeOK, Queued, Carriers
  <1> QED
    BY <1>4, <1>5, <1>6, <1>7, <1>8, <1>9

LEMMA TakeKeepsMessages ==
  ASSUME TypeOK, MessageInv, NEW w \in Workers, NEW t \in Tasks, NEW p \in Pipelines,
         Take(w, t, p)
  PROVE  MessageInv'
  <1> USE DEF MessageInv, TypeOK
  <1>1. /\ worker[w].phase = "idle" /\ queue[t][p] = 1
        /\ \A u \in Tasks : u # t => queue[u][p] = 0
        /\ Carriers(p) = {}
    BY DEF Take, OneMessage, Tasks, Queued
  <1>2. \A u \in Tasks, q \in Pipelines :
          queue'[u][q] = IF u = t /\ q = p THEN 0 ELSE queue[u][q]
    <2>1. queue' = Cell(queue, t, p, 0) /\ queue \in [Tasks -> [Pipelines -> Nat]] /\ 0 \in Nat
      BY <1>1 DEF Take
    <2> HIDE DEF MessageInv, TypeOK
    <2> QED
      BY <2>1, QueueUpdate, t \in Tasks, p \in Pipelines
  <1>3. /\ \A v \in Workers : v # w => worker'[v] = worker[v]
        /\ worker'[w].phase \in {"taken", "foreign"}
        /\ worker'[w].task = t
        /\ worker'[w].uuid = p
        /\ UNCHANGED <<chief, run, published, lost>>
    BY DEF Take, chiefVars, history
  <1> USE DEF Tasks
  <1>4. SentByChief'
    BY <1>3 DEF SentByChief, Built
  <1>5. QueueMatchesRun'
    BY <1>2, <1>3 DEF QueueMatchesRun, Built
  <1>6. WorkerMatchesRun'
    BY <1>1, <1>3 DEF WorkerMatchesRun, MatchesRun, Built, QueueMatchesRun, SentByChief
  <1>7. OneMessage'
    BY <1>1, <1>2, <1>3 DEF OneMessage, Carriers, Queued
  <1>8. NothingVanishes'
    BY <1>1, <1>2, <1>3 DEF NothingVanishes, Settled, Failed, Injected, Queued, Carriers
  <1>9. LostIsGone'
    BY <1>1, <1>2, <1>3 DEF LostIsGone, TypeOK, Queued, Carriers
  <1> QED
    BY <1>4, <1>5, <1>6, <1>7, <1>8, <1>9
LEMMA PushBackKeepsMessages ==
  ASSUME TypeOK, MessageInv, NEW w \in Workers, Requeue(w) \/ ChainPublish(w)
  PROVE  MessageInv'
  <1> USE DEF MessageInv, TypeOK
  <1>1. PICK t \in Tasks, p \in Pipelines :
          /\ worker[w].phase # "idle" /\ worker[w].uuid = p
          /\ queue' = Cell(queue, t, p, queue[t][p] + 1)
          /\ t = IF worker[w].phase = "publishing" THEN "repo" ELSE worker[w].task
          /\ worker[w].phase \in {"foreign", "publishing"}
    <2>1. worker[w].phase \in {"foreign", "publishing"} /\ worker[w] \in WorkerRecord
      BY DEF Requeue, ChainPublish
    <2>2. worker[w].task \in Tasks /\ worker[w].uuid \in Pipelines
      BY <2>1, WorkerRecords
    <2> QED
      BY <2>1, <2>2 DEF Requeue, ChainPublish, Tasks
  <1>2. /\ \A u \in Tasks : queue[u][p] = 0
        /\ \A v \in Workers : v # w => worker[v].phase = "idle" \/ worker[v].uuid # p
    BY <1>1 DEF OneMessage, Carriers, Queued
  <1>3. \A u \in Tasks, q \in Pipelines :
          queue'[u][q] = IF u = t /\ q = p THEN 1 ELSE queue[u][q]
    <2>1. queue' = Cell(queue, t, p, 1) /\ queue \in [Tasks -> [Pipelines -> Nat]]
      BY <1>1, <1>2
    <2> HIDE DEF MessageInv, TypeOK
    <2> QED
      BY <2>1, QueueUpdate
  <1>4. /\ \A v \in Workers : v # w => worker'[v] = worker[v]
        /\ worker'[w].phase = "idle"
        /\ UNCHANGED <<chief, run, published, lost>>
    BY DEF Requeue, ChainPublish, IdleWorker, chiefVars, history
  <1>5. /\ p \in published
        /\ t = "build" => run["build"][p] = "never" /\ run["repo"][p] = "never"
        /\ t = "repo" => Built(p) /\ run["repo"][p] = "never"
    BY <1>1 DEF WorkerMatchesRun, MatchesRun, Tasks
  <1> USE DEF Tasks
  <1>6. SentByChief'
    BY <1>4 DEF SentByChief, Built
  <1>7. QueueMatchesRun'
    BY <1>3, <1>4, <1>5 DEF QueueMatchesRun, Built
  <1>8. WorkerMatchesRun'
    BY <1>4 DEF WorkerMatchesRun, MatchesRun, Built
  <1>9. OneMessage'
    BY <1>2, <1>3, <1>4 DEF OneMessage, Carriers, Queued
  <1>10. NothingVanishes'
    <2>1. Queued(p)' /\ \A q \in Pipelines : q # p => Queued(q)' = Queued(q)
      BY <1>3 DEF Queued
    <2>2. \A q \in Pipelines : q # p => Carriers(q)' = Carriers(q)
      BY <1>1, <1>4 DEF Carriers
    <2>3. \A q \in Pipelines : Settled(q)' = Settled(q)
      BY <1>4 DEF Settled, Failed, Injected
    <2>4. published \subseteq Pipelines
      OBVIOUS
    <2>5. NothingVanishes
      OBVIOUS
    <2> HIDE DEF TypeOK, MessageInv
    <2> QED
      BY <1>4, <2>1, <2>2, <2>3, <2>4, <2>5 DEF NothingVanishes
  <1>11. LostIsGone'
    BY <1>1, <1>3, <1>4 DEF LostIsGone, Queued, Carriers
  <1> QED
    BY <1>6, <1>7, <1>8, <1>9, <1>10, <1>11

\* Steps that neither push nor start or end a task's function.
LEMMA StateWriteKeepsMessages ==
  ASSUME TypeOK, MessageInv, NEW w \in Workers,
         SetStateReceived(w) \/ SetStateFailure(w) \/ SetStateSuccess(w) \/ ChainPending(w)
  PROVE  MessageInv'
  <1> USE DEF MessageInv, TypeOK
  <1>1. /\ \A v \in Workers : v # w => worker'[v] = worker[v]
        /\ UNCHANGED <<chief, queue, run, published, lost>>
    BY DEF SetStateReceived, SetStateFailure, SetStateSuccess, ChainPending, chiefVars, history
  <1>2. /\ worker[w].phase # "idle" /\ worker[w] \in WorkerRecord
        /\ worker[w].uuid \in Pipelines /\ worker[w].task \in Tasks
    BY WorkerRecords DEF SetStateReceived, SetStateFailure, SetStateSuccess, ChainPending
  <1>3. \/ /\ worker'[w] = [worker[w] EXCEPT !.phase = worker'[w].phase]
           /\ \/ worker[w].phase = "taken" /\ worker'[w].phase = "received"
              \/ worker[w].phase = "chaining" /\ worker'[w].phase = "publishing"
              \/ /\ worker[w].phase = "succeeded" /\ worker'[w].phase = "chaining"
                 /\ worker[w].task = "build"
        \/ /\ worker'[w].phase = "idle"
           /\ Settled(worker[w].uuid)
    <2>1. worker[w] \in [phase : WorkerPhase \ {"idle"}, task : Tasks, uuid : Pipelines]
      BY <1>2 DEF WorkerRecord, IdleWorker
    <2>2. CASE SetStateReceived(w)
      BY <2>1, <2>2 DEF SetStateReceived
    <2>3. CASE SetStateFailure(w)
      BY <1>2, <2>3 DEF SetStateFailure, IdleWorker, WorkerMatchesRun, MatchesRun, Settled, Failed
    <2>4. CASE SetStateSuccess(w)
      BY <1>2, <2>1, <2>4 DEF SetStateSuccess, IdleWorker, WorkerMatchesRun, MatchesRun, Settled, Injected, Tasks
    <2>5. CASE ChainPending(w)
      BY <2>1, <2>5 DEF ChainPending
    <2> QED
      BY <2>2, <2>3, <2>4, <2>5
  <1>4. worker'[w].phase # "idle" =>
          worker'[w].uuid = worker[w].uuid /\ worker'[w].task = worker[w].task
    <2>1. worker[w] \in [phase : WorkerPhase \ {"idle"}, task : Tasks, uuid : Pipelines]
      BY <1>2 DEF WorkerRecord, IdleWorker
    <2> QED
      BY <1>3, <2>1
  <1>5. SentByChief'
    BY <1>1 DEF SentByChief, Built
  <1>6. QueueMatchesRun'
    BY <1>1 DEF QueueMatchesRun, Built
  <1>7. WorkerMatchesRun'
    BY <1>1, <1>2, <1>3, <1>4 DEF WorkerMatchesRun, MatchesRun, Built
  <1>8. ASSUME NEW p \in Pipelines
        PROVE  /\ Carriers(p)' \subseteq Carriers(p)
               /\ Carriers(p) # {} => Carriers(p)' # {} \/ Settled(p)
    <2>1. Carriers(p)' \subseteq Carriers(p)
      BY <1>1, <1>2, <1>4 DEF Carriers
    <2>2. ASSUME NEW v \in Carriers(p) PROVE v \in Carriers(p)' \/ Settled(p)
      BY <1>1, <1>3, <1>4, <2>2 DEF Carriers
    <2> QED
      BY <2>1, <2>2
  <1>9. OneMessage'
    BY <1>1, <1>8 DEF OneMessage, Queued
  <1>10. NothingVanishes'
    BY <1>1, <1>8 DEF NothingVanishes, Settled, Failed, Injected, Queued
  <1>11. LostIsGone'
    BY <1>1, <1>8 DEF LostIsGone, Queued
  <1> QED
    BY <1>5, <1>6, <1>7, <1>9, <1>10, <1>11
\* A task's function starts or ends, and its worker moves on.
LEMMA RunKeepsMessages ==
  ASSUME TypeOK, MessageInv, NEW w \in Workers, StartTask(w) \/ TaskReturns(w)
  PROVE  MessageInv'
  <1> USE DEF MessageInv, TypeOK
  <1>1. PICK t \in Tasks, p \in Pipelines, s \in RunState :
          /\ worker[w].task = t /\ worker[w].uuid = p
          /\ worker[w].phase = IF s = "running" THEN "received" ELSE "running"
          /\ worker'[w].task = t /\ worker'[w].uuid = p
          /\ run' = Cell(run, t, p, s)
          /\ s = "running" => worker'[w].phase = "running"
          /\ s = "ok" => worker'[w].phase = "succeeded"
          /\ s = "error" => worker'[w].phase = "failed"
          /\ s \in {"running", "ok", "error"}
    <2>1. worker[w].phase # "idle" /\ worker[w] \in WorkerRecord
      BY DEF StartTask, TaskReturns
    <2>2. worker[w] \in [phase : WorkerPhase \ {"idle"}, task : Tasks, uuid : Pipelines]
      BY <2>1 DEF WorkerRecord, IdleWorker
    <2>3. /\ worker[w].phase = "received" => StartTask(w)
          /\ worker[w].phase # "received" => TaskReturns(w)
          /\ worker[w].phase \in {"received", "running"}
      BY DEF StartTask, TaskReturns
    <2>4. ASSUME NEW ph \in WorkerPhase, worker' = [worker EXCEPT ![w].phase = ph]
          PROVE  /\ worker'[w].phase = ph
                 /\ worker'[w].task = worker[w].task /\ worker'[w].uuid = worker[w].uuid
      BY <2>2, <2>4
    <2>5. \E s \in {"running", "ok", "error"}, ph \in WorkerPhase :
            /\ worker[w].phase = IF s = "running" THEN "received" ELSE "running"
            /\ run' = Cell(run, worker[w].task, worker[w].uuid, s)
            /\ worker' = [worker EXCEPT ![w].phase = ph]
            /\ s = "running" => ph = "running"
            /\ s = "ok" => ph = "succeeded"
            /\ s = "error" => ph = "failed"
      BY <2>3 DEF StartTask, TaskReturns, WorkerPhase
    <2> HIDE DEF MessageInv, TypeOK
    <2> QED
      BY <2>2, <2>4, <2>5 DEF RunState
  <1>2. \A u \in Tasks, q \in Pipelines :
          run'[u][q] = IF u = t /\ q = p THEN s ELSE run[u][q]
    BY <1>1, RunUpdate
  <1>3. /\ \A v \in Workers : v # w => worker'[v] = worker[v]
        /\ UNCHANGED <<chief, queue, published, lost>>
    BY DEF StartTask, TaskReturns, chiefVars, brokerVars
  <1>4. /\ worker[w].phase # "idle" /\ worker'[w].phase # "idle"
        /\ run[t][p] = IF s = "running" THEN "never" ELSE "running"
        /\ p \in published
        /\ t = "build" => run["repo"][p] = "never"
        /\ t = "repo" => Built(p)
        /\ \A u \in Tasks : queue[u][p] = 0
        /\ \A v \in Workers : v # w => worker[v].phase = "idle" \/ worker[v].uuid # p
    <2>1. worker[w].phase # "idle" /\ worker'[w].phase # "idle"
      BY <1>1
    <2>2. /\ MatchesRun(worker[w])
          /\ \A u \in Tasks : queue[u][p] = 0
          /\ \A v \in Workers : v # w => worker[v].phase = "idle" \/ worker[v].uuid # p
      <3> HIDE DEF MessageInv, TypeOK
      <3> QED
        BY <1>1, <2>1, OnlyHolder
    <2> QED
      BY <1>1, <2>1, <2>2 DEF MatchesRun
  <1> USE DEF Tasks
  <1>5. SentByChief'
    BY <1>1, <1>2, <1>3, <1>4 DEF SentByChief, Built
  <1>6. QueueMatchesRun'
    BY <1>2, <1>3, <1>4 DEF QueueMatchesRun, Built
  <1>7. WorkerMatchesRun'
    <2> SUFFICES ASSUME NEW v \in Workers, worker'[v].phase # "idle"
                 PROVE  MatchesRun(worker[v])'
      BY DEF WorkerMatchesRun, MatchesRun
    <2>1. CASE v = w
      BY <1>1, <1>2, <1>3, <1>4, <2>1 DEF MatchesRun, Built
    <2>2. CASE v # w
      <3>1. /\ worker'[v] = worker[v] /\ worker[v].uuid # p
            /\ worker[v].task \in Tasks /\ worker[v].uuid \in Pipelines
        BY <1>3, <1>4, <2>2, WorkerRecords
      <3>2. \A u \in Tasks : run'[u][worker[v].uuid] = run[u][worker[v].uuid]
        BY <1>2, <3>1
      <3> QED
        BY <1>3, <3>1, <3>2 DEF WorkerMatchesRun, MatchesRun, Built
    <2> QED
      BY <2>1, <2>2
  <1>8. \A q \in Pipelines : Carriers(q)' = Carriers(q)
    BY <1>1, <1>3, <1>4 DEF Carriers
  <1>9. OneMessage'
    BY <1>3, <1>8 DEF OneMessage, Queued
  <1>10. NothingVanishes'
    BY <1>1, <1>2, <1>3, <1>4, <1>8
       DEF NothingVanishes, Settled, Failed, Injected, Queued
  <1>11. LostIsGone'
    BY <1>3, <1>8 DEF LostIsGone, Queued
  <1> QED
    BY <1>5, <1>6, <1>7, <1>9, <1>10, <1>11

LEMMA LossKeepsMessages ==
  ASSUME TypeOK, MessageInv, NEW w \in Workers, LoseMessage(w)
  PROVE  MessageInv'
  <1> USE DEF MessageInv, TypeOK
  <1>1. PICK t \in Tasks, p \in Pipelines :
          /\ worker[w].phase # "idle" /\ worker[w].task = t /\ worker[w].uuid = p
          /\ \A v \in Workers : v # w => worker'[v] = worker[v]
          /\ worker'[w].phase = "idle"
          /\ lost' = lost \cup {p}
          /\ UNCHANGED <<chief, queue, published>>
    <2>1. worker[w].phase # "idle" /\ worker[w].task \in Tasks /\ worker[w].uuid \in Pipelines
      BY WorkerRecords DEF LoseMessage
    <2> QED
      BY <2>1 DEF LoseMessage, IdleWorker, chiefVars, brokerVars
  <1>2. \A u \in Tasks, q \in Pipelines :
          run'[u][q] = IF u = t /\ q = p /\ worker[w].phase = "running"
                       THEN "killed" ELSE run[u][q]
    <2>1. CASE worker[w].phase = "running"
      <3>1. run' = Cell(run, t, p, "killed") /\ "killed" \in RunState
        BY <1>1, <2>1 DEF LoseMessage, RunState
      <3> QED
        BY <1>1, <2>1, <3>1, RunUpdate
    <2>2. CASE worker[w].phase # "running"
      BY <2>2 DEF LoseMessage
    <2> QED
      BY <2>1, <2>2
  <1>3. /\ worker[w].phase = "running" => run[t][p] = "running"
        /\ p \in published
        /\ t = "build" => run["repo"][p] = "never"
        /\ t = "repo" => Built(p)
        /\ \A u \in Tasks : queue[u][p] = 0
        /\ \A v \in Workers : v # w => worker[v].phase = "idle" \/ worker[v].uuid # p
    <2>1. /\ MatchesRun(worker[w])
          /\ \A u \in Tasks : queue[u][p] = 0
          /\ \A v \in Workers : v # w => worker[v].phase = "idle" \/ worker[v].uuid # p
      <3> HIDE DEF MessageInv, TypeOK
      <3> QED
        BY <1>1, OnlyHolder
    <2> QED
      BY <1>1, <2>1 DEF MatchesRun
  <1> USE DEF Tasks
  <1>4. SentByChief'
    BY <1>1, <1>2, <1>3 DEF SentByChief, Built
  <1>5. QueueMatchesRun'
    BY <1>1, <1>2, <1>3 DEF QueueMatchesRun, Built
  <1>6. WorkerMatchesRun'
    <2> SUFFICES ASSUME NEW v \in Workers, worker'[v].phase # "idle"
                 PROVE  MatchesRun(worker[v])'
      BY DEF WorkerMatchesRun, MatchesRun
    <2>1. /\ worker'[v] = worker[v] /\ worker[v].uuid # p
          /\ worker[v].task \in Tasks /\ worker[v].uuid \in Pipelines
      BY <1>1, <1>3, WorkerRecords
    <2>2. \A u \in Tasks : run'[u][worker[v].uuid] = run[u][worker[v].uuid]
      BY <1>2, <2>1
    <2> QED
      BY <1>1, <2>1, <2>2 DEF WorkerMatchesRun, MatchesRun, Built
  <1>7. \A q \in Pipelines : Carriers(q)' = Carriers(q) \ {w}
    BY <1>1 DEF Carriers
  <1>8. OneMessage'
    BY <1>1, <1>7 DEF OneMessage, Queued
  <1>9. \A q \in Pipelines : q # p => w \notin Carriers(q)
    BY <1>1 DEF Carriers
  <1>10. NothingVanishes'
    BY <1>1, <1>2, <1>3, <1>7, <1>9 DEF NothingVanishes, Settled, Failed, Injected, Queued
  <1>11. LostIsGone'
    <2>1. \A v \in Workers : worker'[v].phase = "idle" \/ worker'[v].uuid # p
      BY <1>1, <1>3
    <2>2. Carriers(p)' = {}
      BY <2>1 DEF Carriers
    <2>3. ~Queued(p)'
      BY <1>1, <1>3 DEF Queued
    <2>4. \A q \in lost : ~Queued(q)' /\ Carriers(q)' = {}
      BY <1>1, <1>7 DEF LostIsGone, Queued
    <2> QED
      BY <1>1, <2>2, <2>3, <2>4 DEF LostIsGone
  <1> QED
    BY <1>4, <1>5, <1>6, <1>8, <1>10, <1>11
LEMMA MessageStep == TypeOK /\ MessageInv /\ [Next]_vars => MessageInv'
  <1> SUFFICES ASSUME TypeOK, MessageInv, [Next]_vars PROVE MessageInv'
    OBVIOUS
  <1>1. ASSUME NEW p \in Pipelines, SubmissionStep(p) PROVE MessageInv'
    <2>1. CASE SendBuildChain(p) /\ PushBuild(p)
      BY <2>1, PushKeepsMessages
    <2>2. CASE ~(SendBuildChain(p) /\ PushBuild(p))
      <3>1. /\ UNCHANGED <<queue, worker, history>>
            /\ \A q \in Pipelines : q # p => chief'[q] = chief[q]
            /\ \/ chief[p] \in {"new", "preparing"} /\ chief'[p] \in {"preparing", "pending"}
               \/ chief[p] = "sent" /\ chief'[p] = "inserted"
               \/ chief'[p] \in {"rejected", "accepted"}
        BY <1>1, <2>2
           DEF SubmissionStep, BeginSubmission, RejectSubmission, SetStatePending,
               SendBuildChain, RecordJob, CleanupJobs, TypeOK, brokerVars, history
      <3> QED
        BY <3>1, HandlerKeepsMessages
    <2> QED
      BY <2>1, <2>2
  <1>2. ASSUME NEW w \in Workers, WorkerStep(w) \/ LoseMessage(w) PROVE MessageInv'
    BY <1>2, PushBackKeepsMessages, StateWriteKeepsMessages, RunKeepsMessages,
       LossKeepsMessages DEF WorkerStep
  <1>3. ASSUME NEW w \in Workers, NEW t \in Tasks, NEW p \in Pipelines, Take(w, t, p)
        PROVE  MessageInv'
    BY <1>3, TakeKeepsMessages
  <1>4. CASE \/ \E p \in Pipelines : ExpireState(p)
             \/ \E r \in Readers : ReaderStep(r)
             \/ \E r \in Readers, p \in Pipelines : StartStatus(r, p) \/ StartRender(r, p)
             \/ ChiefCrash
             \/ UNCHANGED vars
    <2>1. UNCHANGED <<queue, worker, history>>
      BY <1>4 DEF ExpireState, ReaderStep, ReadBuildState, ReadRepoState, PersistStages,
                  PersistState, EndStatus, StartStatus, StartRender, ChiefCrash, vars,
                  brokerVars
    <2>2. \A p \in Pipelines : chief'[p] \in {chief[p], "dropped"}
      BY <1>4 DEF ExpireState, ReaderStep, ReadBuildState, ReadRepoState, PersistStages,
                  PersistState, EndStatus, StartStatus, StartRender, ChiefCrash, vars,
                  chiefVars
    <2> QED
      BY <2>1, <2>2, HandlerKeepsMessages
  <1> QED
    BY <1>1, <1>2, <1>3, <1>4 DEF Next

\* A task's function goes from never to running and from running to its end.
LEMMA RunSteps ==
  ASSUME TypeOK, MessageInv, [Next]_vars, NEW t \in Tasks, NEW p \in Pipelines
  PROVE  \/ run'[t][p] = run[t][p]
         \/ run[t][p] = "never" /\ run'[t][p] = "running"
         \/ run[t][p] = "running" /\ run'[t][p] \in {"ok", "error", "killed"}
  <1>1. ASSUME NEW w \in Workers, StartTask(w) \/ TaskReturns(w) \/ LoseMessage(w)
        PROVE  \/ run'[t][p] = run[t][p]
               \/ run[t][p] = "never" /\ run'[t][p] = "running"
               \/ run[t][p] = "running" /\ run'[t][p] \in {"ok", "error", "killed"}
    <2>1. worker[w].task \in Tasks /\ worker[w].uuid \in Pipelines /\ MatchesRun(worker[w])
      BY <1>1, WorkerRecords
         DEF TypeOK, MessageInv, WorkerMatchesRun, StartTask, TaskReturns, LoseMessage
    <2>2. \/ run' = run
          \/ \E s \in RunState :
               /\ run' = Cell(run, worker[w].task, worker[w].uuid, s)
               /\ \/ worker[w].phase = "received" /\ s = "running"
                  \/ worker[w].phase = "running" /\ s \in {"ok", "error", "killed"}
      BY <1>1 DEF StartTask, TaskReturns, LoseMessage, RunState
    <2>3. ASSUME NEW s \in RunState, run' = Cell(run, worker[w].task, worker[w].uuid, s)
          PROVE  run'[t][p] = IF t = worker[w].task /\ p = worker[w].uuid THEN s ELSE run[t][p]
      BY <2>1, <2>3, RunUpdate DEF TypeOK
    <2> QED
      BY <2>1, <2>2, <2>3 DEF MatchesRun
  <1>2. CASE ~\E w \in Workers : StartTask(w) \/ TaskReturns(w) \/ LoseMessage(w)
    <2>1. UNCHANGED run
      BY <1>2 DEF Next, SubmissionStep, BeginSubmission, RejectSubmission, SetStatePending,
                  SendBuildChain, RecordJob, CleanupJobs, Take, WorkerStep, Requeue,
                  SetStateReceived, SetStateFailure, SetStateSuccess, ChainPending,
                  ChainPublish, ExpireState, ReaderStep, ReadBuildState, ReadRepoState,
                  PersistStages, PersistState, EndStatus, StartStatus, StartRender,
                  ChiefCrash, vars, history
    <2> QED
      BY <2>1
  <1> QED
    BY <1>1, <1>2
LEMMA CausesStay ==
  ASSUME TypeOK, MessageInv, [Next]_vars, NEW p \in Pipelines
  PROVE  (Failed(p) => Failed(p)') /\ (Built(p) => Built(p)')
  <1>1. \A t \in Tasks : run[t][p] \in {"ok", "error"} => run'[t][p] = run[t][p]
    BY RunSteps
  <1> QED
    BY <1>1 DEF Failed, Built, Tasks

\* A request's states are none, those it had, or just read.
LEMMA ReaderSteps ==
  ASSUME TypeOK, [Next]_vars, NEW r \in Readers
  PROVE  \/ reader'[r].build = "none" /\ reader'[r].repo = "none"
         \/ /\ reader'[r].uuid = reader[r].uuid /\ reader[r].uuid \in Pipelines
            /\ reader'[r].build \in {reader[r].build, backend[reader[r].uuid], "none"}
            /\ reader'[r].repo \in {reader[r].repo, backend[reader[r].uuid], "none"}
  <1> DEFINE None == reader'[r].build = "none" /\ reader'[r].repo = "none"
             Read == /\ reader'[r].uuid = reader[r].uuid /\ reader[r].uuid \in Pipelines
                     /\ reader'[r].build \in {reader[r].build, backend[reader[r].uuid], "none"}
                     /\ reader'[r].repo \in {reader[r].repo, backend[reader[r].uuid], "none"}
  <1>1. \/ reader[r] = IdleReader
        \/ reader[r] \in [phase : ReaderPhase \ {"idle"}, kind : {"status", "render"},
                           uuid : Pipelines, build : TaskState, repo : TaskState]
    BY DEF TypeOK, ReaderRecord
  <1>2. CASE reader'[r] = reader[r]
    BY <1>1, <1>2 DEF IdleReader
  <1>3. CASE reader'[r] = IdleReader
    BY <1>3 DEF IdleReader
  <1>4. ASSUME NEW s \in Readers, ReaderStep(s) PROVE None \/ Read
    <2>1. CASE s # r
      BY <1>2, <1>4, <2>1 DEF ReaderStep, ReadBuildState, ReadRepoState, PersistStages,
                              PersistState, EndStatus, TypeOK
    <2>2. CASE s = r /\ reader'[r] # IdleReader
      <3>1. reader[r] # IdleReader
        <4>1. \A state : ReadBuildState(r, state) \/ ReadRepoState(r, state) =>
                            reader[r].phase # "idle"
          BY DEF ReadBuildState, ReadRepoState
        <4>2. PersistStages(r) \/ PersistState(r) \/ EndStatus(r) => reader[r].phase # "idle"
          BY DEF PersistStages, PersistState, EndStatus
        <4> QED
          BY <1>4, <2>2, <4>1, <4>2 DEF ReaderStep, IdleReader
      <3>2. ASSUME NEW state \in TaskState, ReadBuildState(r, state) PROVE None \/ Read
        BY <1>1, <3>1, <3>2 DEF ReadBuildState, GetTaskState, TypeOK
      <3>3. ASSUME NEW state \in TaskState, ReadRepoState(r, state) PROVE None \/ Read
        BY <1>1, <2>2, <3>1, <3>3 DEF ReadRepoState, GetTaskState, TypeOK
      <3>4. CASE PersistStages(r) \/ PersistState(r) \/ EndStatus(r)
        BY <1>1, <2>2, <3>1, <3>4 DEF PersistStages, PersistState, EndStatus, TypeOK
      <3> QED
        BY <1>4, <2>2, <3>2, <3>3, <3>4 DEF ReaderStep
    <2> QED
      BY <1>3, <2>1, <2>2
  <1>5. ASSUME NEW s \in Readers, NEW p \in Pipelines, StartStatus(s, p) \/ StartRender(s, p)
        PROVE  None \/ Read
    <2>1. CASE s # r
      BY <1>2, <1>5, <2>1 DEF StartStatus, StartRender, TypeOK
    <2>2. CASE s = r
      <3>1. CASE StartStatus(r, p)
        BY <3>1 DEF StartStatus, TypeOK, IdleReader
      <3>2. CASE StartRender(r, p)
        BY <3>2 DEF StartRender, TypeOK, IdleReader
      <3> QED
        BY <1>5, <2>2, <3>1, <3>2
    <2> QED
      BY <2>1, <2>2
  <1>6. CASE ChiefCrash
    BY <1>3, <1>6 DEF ChiefCrash
  <1>7. CASE UNCHANGED reader
    BY <1>2, <1>7
  <1>8. \/ UNCHANGED reader \/ ChiefCrash
        \/ \E s \in Readers : ReaderStep(s)
        \/ \E s \in Readers, p \in Pipelines : StartStatus(s, p) \/ StartRender(s, p)
    BY DEF Next, SubmissionStep, BeginSubmission, RejectSubmission, SetStatePending,
           SendBuildChain, RecordJob, CleanupJobs, Take, WorkerStep, Requeue,
           SetStateReceived, StartTask, TaskReturns, SetStateFailure, SetStateSuccess,
           ChainPending, ChainPublish, LoseMessage, ExpireState, vars
  <1> QED
    BY <1>4, <1>5, <1>6, <1>7, <1>8

LEMMA StatesStep == TypeOK /\ MessageInv /\ StatesAreTrue /\ [Next]_vars => StatesAreTrue'
  <1> SUFFICES ASSUME TypeOK, MessageInv, StatesAreTrue, [Next]_vars PROVE StatesAreTrue'
    OBVIOUS
  <1>1. \A p \in Pipelines : (Failed(p) => Failed(p)') /\ (Built(p) => Built(p)')
    BY CausesStay
  <1>2. ASSUME NEW p \in Pipelines
        PROVE  /\ backend'[p] = "FAILURE" => Failed(p)
               /\ backend'[p] = "SUCCESS" => Built(p)
    <2>1. ASSUME NEW w \in Workers, SetStateFailure(w)
          PROVE  backend'[p] \in {backend[p], "FAILURE"} /\ (p # worker[w].uuid => backend'[p] = backend[p])
                 /\ Failed(worker[w].uuid)
      <3>1. worker[w].task \in Tasks /\ MatchesRun(worker[w])
        BY <2>1, WorkerRecords DEF SetStateFailure, TypeOK, MessageInv, WorkerMatchesRun
      <3> QED
        BY <2>1, <3>1 DEF SetStateFailure, MatchesRun, Failed, TypeOK
    <2>2. ASSUME NEW w \in Workers, SetStateSuccess(w)
          PROVE  backend'[p] \in {backend[p], "SUCCESS"} /\ (p # worker[w].uuid => backend'[p] = backend[p])
                 /\ Built(worker[w].uuid)
      <3>1. worker[w].task \in Tasks /\ MatchesRun(worker[w])
        BY <2>2, WorkerRecords DEF SetStateSuccess, TypeOK, MessageInv, WorkerMatchesRun
      <3> QED
        BY <2>2, <3>1 DEF SetStateSuccess, MatchesRun, Built, Tasks, TypeOK
    <2>3. CASE ~\E w \in Workers : SetStateFailure(w) \/ SetStateSuccess(w)
      <3>1. backend'[p] \in {backend[p], "none", "PENDING", "RECEIVED", "STARTED"}
        BY <2>3 DEF Next, SubmissionStep, BeginSubmission, RejectSubmission, SetStatePending,
                    SendBuildChain, RecordJob, CleanupJobs, Take, WorkerStep, Requeue,
                    SetStateReceived, StartTask, TaskReturns, ChainPending, ChainPublish,
                    LoseMessage, ExpireState, ReaderStep, ReadBuildState, ReadRepoState,
                    PersistStages, PersistState, EndStatus, StartStatus, StartRender,
                    ChiefCrash, vars, brokerVars, TypeOK
      <3> QED
        BY <3>1 DEF StatesAreTrue
    <2> QED
      BY <2>1, <2>2, <2>3 DEF StatesAreTrue
  <1>3. ASSUME NEW r \in Readers
        PROVE  /\ "FAILURE" \in {reader'[r].build, reader'[r].repo} => Failed(reader'[r].uuid)
               /\ "SUCCESS" \in {reader'[r].build, reader'[r].repo} => Built(reader'[r].uuid)
    <2>1. CASE reader'[r].build = "none" /\ reader'[r].repo = "none"
      BY <2>1
    <2>2. CASE /\ reader'[r].uuid = reader[r].uuid /\ reader[r].uuid \in Pipelines
               /\ reader'[r].build \in {reader[r].build, backend[reader[r].uuid], "none"}
               /\ reader'[r].repo \in {reader[r].repo, backend[reader[r].uuid], "none"}
      BY <2>2 DEF StatesAreTrue
    <2> QED
      BY <2>1, <2>2, ReaderSteps
  <1>4. ASSUME NEW r \in Readers, reader'[r].build # "none" \/ reader'[r].repo # "none"
        PROVE  reader'[r].uuid \in Pipelines
    BY <1>4, ReaderSteps
  <1> QED
    BY <1>1, <1>2, <1>3, <1>4 DEF StatesAreTrue, Failed, Built

LEMMA RowsStep ==
  TypeOK /\ MessageInv /\ StatesAreTrue /\ RowsAreTrue /\ [Next]_vars => RowsAreTrue'
  <1> SUFFICES ASSUME TypeOK, MessageInv, StatesAreTrue, RowsAreTrue, [Next]_vars
               PROVE  RowsAreTrue'
    OBVIOUS
  <1>1. ASSUME NEW p \in Pipelines
        PROVE  /\ jobs'[p].state = "FAILED" => Failed(p)
               /\ jobs'[p].state = "DONE" => Built(p)
               /\ HasRow(jobs', p) => HasRow(jobs, p) \/ (chief[p] = "sent" /\ chief'[p] # "sent")
    <2>1. ASSUME NEW u \in Pipelines, RecordJob(u) \/ CleanupJobs(u)
          PROVE  /\ jobs'[p] \in {jobs[p], NoRow, NewRow}
                 /\ jobs'[p] = NewRow => jobs[p] = NewRow \/ (chief[p] = "sent" /\ chief'[p] # "sent")
      <3>1. jobs \in [Pipelines -> Row] /\ chief \in [Pipelines -> ChiefPhase]
        BY DEF TypeOK
      <3>2. CASE RecordJob(u)
        <4>1. /\ InsertJob(jobs, u)[u] = NewRow
              /\ p # u => InsertJob(jobs, u)[p] = jobs[p]
          BY <3>1, InsertStatement
        <4> QED
          BY <3>1, <3>2, <4>1 DEF RecordJob
      <3>3. CASE CleanupJobs(u)
        <4>1. CleanupOldJobs(jobs, submittedAt, MaxJobs)[p] \in {jobs[p], NoRow}
          BY <3>1, CleanupStatement
        <4>2. NoRow # NewRow
          BY DEF NoRow, NewRow
        <4> QED
          BY <3>3, <4>1, <4>2 DEF CleanupJobs
      <3> QED
        BY <2>1, <3>2, <3>3
    <2>2. ASSUME NEW r \in Readers, PersistStages(r) \/ PersistState(r)
          PROVE  /\ jobs'[p].state = "FAILED" => Failed(p)
                 /\ jobs'[p].state = "DONE" => Built(p)
                 /\ HasRow(jobs', p) => HasRow(jobs, p)
      <3> DEFINE q == reader[r]
                 st == OverallState(q.build, q.repo)
      <3>1. /\ q.uuid \in Pipelines /\ q.build \in TaskState /\ q.repo \in TaskState
            /\ jobs \in [Pipelines -> Row]
        BY <2>2, ReaderRecords DEF PersistStages, PersistState, TypeOK
      <3>2. /\ st \in {"PENDING", "FAILED", "DONE"}
            /\ st = "FAILED" => Failed(q.uuid)
            /\ st = "DONE" => Built(q.uuid)
        BY <3>1, DerivedStates DEF StatesAreTrue
      <3>3. /\ jobs'[p].state = jobs[p].state \/ (p = q.uuid /\ jobs'[p].state = st)
            /\ jobs[p].state = "none" => jobs'[p].state = "none"
        <4>1. \/ jobs' = jobs
              \/ jobs' = UpdateJobStages(jobs, q.uuid, q.build, q.repo)
              \/ jobs' = UpdateJobState(jobs, q.uuid, st)
          BY <2>2 DEF PersistStages, PersistState
        <4> HIDE DEF q, st
        <4>2. UpdateJobStages(jobs, q.uuid, q.build, q.repo)[p].state = jobs[p].state
          BY <3>1, <3>2, UpdateStatements
        <4>3. /\ \/ UpdateJobState(jobs, q.uuid, st)[p].state = jobs[p].state
                 \/ p = q.uuid /\ UpdateJobState(jobs, q.uuid, st)[p].state = st
              /\ jobs[p].state = "none" => UpdateJobState(jobs, q.uuid, st)[p].state = "none"
          BY <3>1, <3>2, UpdateStatements
        <4> QED
          BY <4>1, <4>2, <4>3
      <3> QED
        BY <3>2, <3>3 DEF HasRow, RowsAreTrue, RowIsTrue
    <2>3. CASE /\ ~\E u \in Pipelines : RecordJob(u) \/ CleanupJobs(u)
               /\ ~\E r \in Readers : PersistStages(r) \/ PersistState(r)
      <3>1. UNCHANGED jobs
        BY <2>3 DEF Next, SubmissionStep, BeginSubmission, RejectSubmission, SetStatePending,
                    SendBuildChain, Take, WorkerStep, Requeue, SetStateReceived, StartTask,
                    TaskReturns, SetStateFailure, SetStateSuccess, ChainPending, ChainPublish,
                    LoseMessage, ExpireState, ReaderStep, ReadBuildState, ReadRepoState,
                    EndStatus, StartStatus, StartRender, ChiefCrash, vars
      <3> QED
        BY <3>1 DEF HasRow, RowsAreTrue, RowIsTrue
    <2>4. CASE \E u \in Pipelines : RecordJob(u) \/ CleanupJobs(u)
      BY <2>1, <2>4 DEF HasRow, NoRow, NewRow, RowsAreTrue, RowIsTrue
    <2>5. CASE \E r \in Readers : PersistStages(r) \/ PersistState(r)
      BY <2>2, <2>5
    <2> QED
      BY <2>3, <2>4, <2>5
  <1>2. ASSUME NEW p \in Pipelines, chief'[p] = "sent"
        PROVE  chief[p] = "sent" \/ chief[p] = "pending"
    BY <1>2 DEF Next, SubmissionStep, BeginSubmission, RejectSubmission, SetStatePending,
                SendBuildChain, RecordJob, CleanupJobs, Take, WorkerStep, Requeue,
                SetStateReceived, StartTask, TaskReturns, SetStateFailure, SetStateSuccess,
                ChainPending, ChainPublish, LoseMessage, ExpireState, ReaderStep,
                ReadBuildState, ReadRepoState, PersistStages, PersistState, EndStatus,
                StartStatus, StartRender, ChiefCrash, vars, chiefVars, TypeOK
  <1>3. published \subseteq published'
    BY DEF Next, SubmissionStep, BeginSubmission, RejectSubmission, SetStatePending,
           SendBuildChain, PushBuild, RecordJob, CleanupJobs, Take, WorkerStep, Requeue,
           SetStateReceived, StartTask, TaskReturns, SetStateFailure, SetStateSuccess,
           ChainPending, ChainPublish, LoseMessage, ExpireState, ReaderStep,
           ReadBuildState, ReadRepoState, PersistStages, PersistState, EndStatus,
           StartStatus, StartRender, ChiefCrash, vars, history
  <1>4. ASSUME NEW p \in Pipelines
        PROVE  (Failed(p) => Failed(p)') /\ (Built(p) => Built(p)')
    BY CausesStay
  <1>5. RowIsTrue'
    BY <1>1, <1>4 DEF RowIsTrue
  <1>6. ASSUME NEW p \in Pipelines, HasRow(jobs', p) PROVE p \in published' /\ chief'[p] # "sent"
    <2>1. p \in published
      BY <1>1, <1>6 DEF RowsAreTrue, RowHasPipeline, MessageInv, SentByChief
    <2>2. chief[p] # "pending"
      BY <2>1 DEF MessageInv, SentByChief
    <2> QED
      BY <1>1, <1>2, <1>3, <1>6, <2>1, <2>2 DEF RowsAreTrue
  <1> QED
    BY <1>5, <1>6 DEF RowsAreTrue, RowHasPipeline

LEMMA OrderStep ==
  TypeOK /\ SubmissionsAreOrdered /\ [Next]_vars => SubmissionsAreOrdered'
  <1> SUFFICES ASSUME TypeOK, SubmissionsAreOrdered, [Next]_vars
               PROVE  SubmissionsAreOrdered'
    OBVIOUS
  <1> DEFINE Stamped == {p \in Pipelines : submittedAt[p] # 0}
  <1>1. ASSUME NEW p \in Pipelines, BeginSubmission(p) PROVE SubmissionsAreOrdered'
    <2>1. /\ submittedAt' \in [Pipelines -> Nat] /\ chief' \in [Pipelines -> ChiefPhase]
          /\ submittedAt[p] = 0 /\ submittedAt'[p] = clock /\ chief'[p] = "preparing"
          /\ \A q \in Pipelines : q # p => /\ submittedAt'[q] = submittedAt[q]
                                          /\ chief'[q] = chief[q]
          /\ clock' = clock + 1 /\ clock \in Nat \ {0}
          /\ \A q \in Pipelines : submittedAt[q] \in Nat
      BY <1>1 DEF BeginSubmission, TypeOK, SubmissionsAreOrdered, ChiefPhase
    <2>2. Stamped' = Stamped \cup {p}
      BY <2>1
    <2>3. IsFiniteSet(Stamped')
      <3>1. IsFiniteSet(Stamped)
        BY DEF SubmissionsAreOrdered
      <3> HIDE DEF Stamped
      <3> QED
        BY <2>2, <3>1, FS_AddElement
    <2>4. \A q \in Pipelines : submittedAt'[q] = 0 <=> chief'[q] = "new"
      BY <2>1 DEF SubmissionsAreOrdered
    <2>5. \A q \in Pipelines : submittedAt'[q] < clock'
      BY <2>1 DEF SubmissionsAreOrdered
    <2>6. \A u, v \in Pipelines :
            submittedAt'[u] = submittedAt'[v] => u = v \/ submittedAt'[u] = 0
      BY <2>1 DEF SubmissionsAreOrdered
    <2> QED
      BY <2>3, <2>4, <2>5, <2>6 DEF SubmissionsAreOrdered
  <1>2. CASE ~\E p \in Pipelines : BeginSubmission(p)
    <2>1. /\ UNCHANGED <<submittedAt, clock>>
          /\ \A p \in Pipelines : chief'[p] = "new" <=> chief[p] = "new"
      BY <1>2 DEF Next, SubmissionStep, RejectSubmission, SetStatePending, SendBuildChain,
                  RecordJob, CleanupJobs, Take, WorkerStep, Requeue, SetStateReceived,
                  StartTask, TaskReturns, SetStateFailure, SetStateSuccess, ChainPending,
                  ChainPublish, LoseMessage, ExpireState, ReaderStep, ReadBuildState,
                  ReadRepoState, PersistStages, PersistState, EndStatus, StartStatus,
                  StartRender, ChiefCrash, InFlight, TypeOK, vars, chiefVars
    <2>2. Stamped' = Stamped
      BY <2>1
    <2> QED
      BY <2>1, <2>2 DEF SubmissionsAreOrdered
  <1> QED
    BY <1>1, <1>2

\* A write of pipeline p's entry by the one process that works on p leaves every other
\* pipeline's entry, queue and holder as they are.
LEMMA EntryWritten ==
  ASSUME TypeOK, MessageInv, EntryMatchesMessage, NEW w \in Workers, NEW p \in Pipelines,
         worker[w].phase # "idle", worker[w].uuid = p,
         \A v \in Workers : v # w => worker'[v] = worker[v],
         \A q \in Pipelines : q # p => backend'[q] = backend[q],
         UNCHANGED <<chief, queue>>,
         worker'[w].phase # "idle" => worker'[w].uuid = p /\ MatchesEntry(worker[w])'
  PROVE  EntryMatchesMessage'
  <1>1. /\ MatchesRun(worker[w])
        /\ \A u \in Tasks : queue[u][p] = 0
        /\ \A v \in Workers : v # w => worker[v].phase = "idle" \/ worker[v].uuid # p
    BY OnlyHolder
  <1>2. chief[p] \notin {"new", "preparing", "pending"}
    BY <1>1 DEF MatchesRun, MessageInv, SentByChief
  <1>3. ASSUME NEW v \in Workers, worker'[v].phase # "idle"
        PROVE  MatchesEntry(worker[v])'
    <2>1. CASE v = w
      BY <1>3, <2>1
    <2>2. CASE v # w
      <3>1. worker'[v] = worker[v] /\ worker[v].phase # "idle"
        BY <1>3, <2>2
      <3>2. worker[v].uuid \in Pipelines /\ worker[v].uuid # p
        BY <1>1, <2>2, <3>1, WorkerRecords DEF TypeOK
      <3>3. MatchesEntry(worker[v])
        BY <3>1 DEF EntryMatchesMessage
      <3> QED
        BY <3>1, <3>2, <3>3 DEF MatchesEntry
    <2> QED
      BY <2>1, <2>2
  <1>4. ASSUME NEW q \in Pipelines
        PROVE  /\ chief'[q] \in {"new", "preparing"} => backend'[q] = "none"
               /\ chief'[q] = "pending" => backend'[q] \in {"none", "PENDING"}
               /\ \A t \in Tasks : queue'[t][q] > 0 => backend'[q] \in {"none", "PENDING"}
    BY <1>1, <1>2 DEF EntryMatchesMessage
  <1> QED
    BY <1>3, <1>4 DEF EntryMatchesMessage

LEMMA EntryStep ==
  TypeOK /\ MessageInv /\ EntryMatchesMessage /\ [Next]_vars => EntryMatchesMessage'
  <1> SUFFICES ASSUME TypeOK, MessageInv, EntryMatchesMessage, [Next]_vars
               PROVE  EntryMatchesMessage'
    OBVIOUS
  <1>1. ASSUME NEW p \in Pipelines, SetStatePending(p) PROVE EntryMatchesMessage'
    <2>1. p \notin published
      BY <1>1 DEF SetStatePending, MessageInv, SentByChief
    <2>2. /\ \A w \in Workers : worker[w].phase # "idle" => worker[w].uuid # p
          /\ \A t \in Tasks : queue[t][p] = 0
      BY <2>1 DEF MessageInv, SentByChief, WorkerMatchesRun, MatchesRun, QueueMatchesRun,
                  Built, Tasks, TypeOK
    <2>3. /\ chief'[p] = "pending" /\ backend'[p] = "PENDING"
          /\ \A q \in Pipelines : q # p => chief'[q] = chief[q] /\ backend'[q] = backend[q]
          /\ UNCHANGED <<queue, worker>>
      BY <1>1 DEF SetStatePending, TypeOK
    <2>4. \A w \in Workers : worker[w].phase # "idle" => worker[w].uuid \in Pipelines
      BY WorkerRecords DEF TypeOK
    <2> QED
      BY <2>2, <2>3, <2>4 DEF EntryMatchesMessage, MatchesEntry
  <1>2. ASSUME NEW p \in Pipelines, SendBuildChain(p) PROVE EntryMatchesMessage'
    <2>1. /\ chief[p] = "pending" /\ chief'[p] \in {"sent", "rejected"}
          /\ \A q \in Pipelines : q # p => chief'[q] = chief[q]
          /\ UNCHANGED <<backend, worker>>
      BY <1>2 DEF SendBuildChain, TypeOK
    <2>2. \A t \in Tasks, q \in Pipelines : q # p => queue'[t][q] = queue[t][q]
      <3>1. CASE UNCHANGED queue
        BY <3>1
      <3>2. CASE PushBuild(p)
        <4>1. "build" \in Tasks /\ queue["build"][p] + 1 \in Nat
          BY DEF Tasks, TypeOK
        <4> QED
          BY <3>2, <4>1, QueueUpdate DEF PushBuild, TypeOK
      <3> QED
        BY <1>2, <3>1, <3>2 DEF SendBuildChain
    <2>3. backend[p] \in {"none", "PENDING"}
      BY <2>1 DEF EntryMatchesMessage
    <2>4. ASSUME NEW q \in Pipelines
          PROVE  /\ chief'[q] \in {"new", "preparing"} => backend'[q] = "none"
                 /\ chief'[q] = "pending" => backend'[q] \in {"none", "PENDING"}
                 /\ \A t \in Tasks : queue'[t][q] > 0 => backend'[q] \in {"none", "PENDING"}
      BY <2>1, <2>2, <2>3 DEF EntryMatchesMessage
    <2> QED
      BY <2>1, <2>4 DEF EntryMatchesMessage, MatchesEntry
  <1>3. ASSUME NEW w \in Workers, NEW t \in Tasks, NEW p \in Pipelines, Take(w, t, p)
        PROVE  EntryMatchesMessage'
    <2>1. \A u \in Tasks, q \in Pipelines : queue'[u][q] > 0 => queue[u][q] > 0
      <3>1. /\ queue[t][p] - 1 \in Nat /\ queue[t][p] > 0
            /\ queue' = Cell(queue, t, p, queue[t][p] - 1)
            /\ queue \in [Tasks -> [Pipelines -> Nat]]
        BY <1>3 DEF Take, TypeOK
      <3>2. \A u \in Tasks, q \in Pipelines :
              queue'[u][q] = IF u = t /\ q = p THEN queue[t][p] - 1 ELSE queue[u][q]
        BY <3>1, QueueUpdate
      <3> QED
        BY <3>1, <3>2
    <2>2. /\ worker'[w].phase \in {"taken", "foreign"} /\ worker'[w].uuid = p
          /\ \A v \in Workers : v # w => worker'[v] = worker[v]
          /\ UNCHANGED <<chief, backend>>
      BY <1>3 DEF Take, TypeOK, chiefVars
    <2>3. backend[p] \in {"none", "PENDING"}
      BY <1>3 DEF Take, EntryMatchesMessage
    <2> QED
      BY <2>1, <2>2, <2>3 DEF EntryMatchesMessage, MatchesEntry
  <1>4. ASSUME NEW w \in Workers, Requeue(w) \/ ChainPublish(w) PROVE EntryMatchesMessage'
    <2>1. PICK t \in Tasks, p \in Pipelines :
            /\ p = worker[w].uuid
            /\ queue' = Cell(queue, t, p, queue[t][p] + 1)
            /\ worker[w].phase \in {"foreign", "publishing"}
      <3>1. worker[w].uuid \in Pipelines /\ worker[w].task \in Tasks
        BY <1>4, WorkerRecords DEF Requeue, ChainPublish, TypeOK
      <3> QED
        BY <1>4, <3>1 DEF Requeue, ChainPublish, Tasks
    <2>2. backend[p] \in {"none", "PENDING"}
      BY <2>1 DEF EntryMatchesMessage, MatchesEntry
    <2>3. \A u \in Tasks, q \in Pipelines : q # p => queue'[u][q] = queue[u][q]
      <3>1. queue[t][p] + 1 \in Nat
        BY DEF TypeOK
      <3> QED
        BY <2>1, <3>1, QueueUpdate DEF TypeOK
    <2>4. /\ worker'[w].phase = "idle"
          /\ \A v \in Workers : v # w => worker'[v] = worker[v]
          /\ UNCHANGED <<chief, backend>>
      BY <1>4 DEF Requeue, ChainPublish, IdleWorker, TypeOK, chiefVars
    <2> QED
      BY <2>2, <2>3, <2>4 DEF EntryMatchesMessage, MatchesEntry
  <1>5. ASSUME NEW w \in Workers,
               \/ SetStateReceived(w) \/ StartTask(w) \/ TaskReturns(w) \/ SetStateFailure(w)
               \/ SetStateSuccess(w) \/ ChainPending(w) \/ LoseMessage(w)
        PROVE  EntryMatchesMessage'
    <2> DEFINE p == worker[w].uuid
    <2>1. worker[w].phase # "idle" /\ worker[w] \in WorkerRecord
      BY <1>5 DEF SetStateReceived, StartTask, TaskReturns, SetStateFailure, SetStateSuccess,
                  ChainPending, LoseMessage, TypeOK
    <2>2. /\ p \in Pipelines
          /\ worker[w] \in [phase : WorkerPhase \ {"idle"}, task : Tasks, uuid : Pipelines]
      BY <2>1, WorkerRecords DEF WorkerRecord, IdleWorker
    <2>3. /\ \A v \in Workers : v # w => worker'[v] = worker[v]
          /\ \A q \in Pipelines : q # p => backend'[q] = backend[q]
          /\ UNCHANGED <<chief, queue>>
      BY <1>5, <2>2 DEF SetStateReceived, StartTask, TaskReturns, SetStateFailure,
                  SetStateSuccess, ChainPending, LoseMessage, TypeOK, chiefVars, brokerVars
    <2>4. MatchesEntry(worker[w])
      BY <2>1 DEF EntryMatchesMessage
    <2>5. worker'[w].phase # "idle" => worker'[w].uuid = p /\ MatchesEntry(worker[w])'
      BY <1>5, <2>2, <2>4 DEF SetStateReceived, StartTask, TaskReturns, SetStateFailure,
                  SetStateSuccess, ChainPending, LoseMessage, IdleWorker, MatchesEntry,
                  TypeOK, brokerVars
    <2> HIDE DEF p
    <2> QED
      BY <2>1, <2>2, <2>3, <2>5, EntryWritten DEF p
  <1>6. ASSUME NEW p \in Pipelines, ExpireState(p) PROVE EntryMatchesMessage'
    <2>1. /\ \A q \in Pipelines : backend'[q] \in {backend[q], "none"}
          /\ UNCHANGED <<chief, queue, worker>>
      BY <1>6 DEF ExpireState, TypeOK, chiefVars
    <2>2. \A w \in Workers : worker[w].phase # "idle" => worker[w].uuid \in Pipelines
      BY WorkerRecords DEF TypeOK
    <2> QED
      BY <2>1, <2>2 DEF EntryMatchesMessage, MatchesEntry
  <1>7. CASE /\ ~\E p \in Pipelines : SetStatePending(p) \/ SendBuildChain(p) \/ ExpireState(p)
             /\ ~\E w \in Workers : WorkerStep(w) \/ LoseMessage(w)
             /\ ~\E w \in Workers, t \in Tasks, p \in Pipelines : Take(w, t, p)
    <2>1. /\ UNCHANGED <<brokerVars, worker>>
          /\ \A p \in Pipelines :
               /\ chief'[p] \in {"new", "preparing"} => chief[p] \in {"new", "preparing"}
               /\ chief'[p] = "pending" => chief[p] = "pending"
      BY <1>7 DEF Next, SubmissionStep, BeginSubmission, RejectSubmission, RecordJob,
                  CleanupJobs, ReaderStep, ReadBuildState, ReadRepoState, PersistStages,
                  PersistState, EndStatus, StartStatus, StartRender, ChiefCrash, InFlight,
                  TypeOK, vars, chiefVars
    <2> QED
      BY <2>1 DEF EntryMatchesMessage, MatchesEntry, brokerVars
  <1> QED
    BY <1>1, <1>2, <1>3, <1>4, <1>5, <1>6, <1>7 DEF WorkerStep

LEMMA Invariant == Spec => []IInv
  <1>1. Init => IInv
    <2> SUFFICES ASSUME Init PROVE IInv
      OBVIOUS
    <2>1. TypeOK
      BY TypeInit
    <2>2. MessageInv
      BY DEF Init, MessageInv, SentByChief, QueueMatchesRun, WorkerMatchesRun, OneMessage,
             NothingVanishes, LostIsGone, Carriers, Queued, IdleWorker, Tasks, Built
    <2>3. StatesAreTrue
      BY DEF Init, StatesAreTrue, IdleReader
    <2>4. RowsAreTrue
      BY DEF Init, RowsAreTrue, RowIsTrue, RowHasPipeline, HasRow,
             NoRow
    <2>5. SubmissionsAreOrdered
      <3>1. {p \in Pipelines : submittedAt[p] # 0} = {}
        BY DEF Init
      <3> QED
        BY <3>1, FS_EmptySet, 0 < 1 DEF Init, SubmissionsAreOrdered
    <2>6. EntryMatchesMessage
      BY DEF Init, EntryMatchesMessage, IdleWorker, Tasks
    <2> QED
      BY <2>1, <2>2, <2>3, <2>4, <2>5, <2>6 DEF IInv
  <1>2. IInv /\ [Next]_vars => IInv'
    BY TypeStep, MessageStep, EntryStep, StatesStep, RowsStep, OrderStep DEF IInv
  <1> QED
    BY <1>1, <1>2, PTL DEF Spec

-----------------------------------------------------------------------------
(* Where a pipeline's message is.                                           *)

\* Whatever the workers pop, push back and chain, a pipeline's message is never
\* in two places (the broker contract SendBuildChain relies on).
THEOREM MessageIsUnique == Spec => []OneMessage
  <1>1. IInv => OneMessage
    BY DEF IInv, MessageInv
  <1> QED
    BY <1>1, Invariant, PTL

\* A pipeline that was sent ends, or has its message somewhere, unless a crash
\* or a failed Redis call took it.
THEOREM NoMessageVanishes == Spec => []NothingVanishes
  <1>1. IInv => NothingVanishes
    BY DEF IInv, MessageInv
  <1> QED
    BY <1>1, Invariant, PTL

\* The repo task of a pipeline follows its own successful build.
THEOREM RepoFollowsBuild == Spec => []RepoAfterBuild
  <1>1. IInv => RepoAfterBuild
    BY DEF IInv, MessageInv, SentByChief, QueueMatchesRun, WorkerMatchesRun, MatchesRun,
           RepoAfterBuild, Carriers
  <1> QED
    BY <1>1, Invariant, PTL

\* No task function runs twice.
THEOREM TasksRunOnce == Spec => RunOnce
  <1>1. ASSUME IInv, [Next]_vars, NEW t \in Tasks, NEW p \in Pipelines
        PROVE  /\ run[t][p] \notin {"never", "running"} => run'[t][p] = run[t][p]
               /\ run[t][p] = "running" => run'[t][p] # "never"
    BY <1>1, RunSteps DEF IInv
  <1>2. IInv /\ [Next]_vars =>
          [\A t \in Tasks, p \in Pipelines :
             /\ run[t][p] \notin {"never", "running"} => run'[t][p] = run[t][p]
             /\ run[t][p] = "running" => run'[t][p] # "never"]_vars
    BY <1>1
  <1> QED
    BY <1>2, Invariant, PTL DEF Spec, RunOnce

-----------------------------------------------------------------------------
(* What the chief tells of a pipeline.                                      *)

\* The entry that a pipeline's tasks share only moves forward.
THEOREM EntryMovesForward == Spec => EntryMovesOn
  <1>1. ASSUME IInv, [Next]_vars, NEW p \in Pipelines, backend'[p] # backend[p]
        PROVE  /\ \/ backend'[p] = "none" \/ backend[p] = "none"
                  \/ <<backend[p], backend'[p]>> \in EntryMoves
               /\ backend'[p] \in InProgressState => ~Settled(p)
    <2> USE <1>1 DEF IInv
    <2>1. ASSUME NEW u \in Pipelines, SetStatePending(u) PROVE backend[p] = "none" /\ ~Settled(p)
      <3>1. p = u
        BY <2>1 DEF SetStatePending, TypeOK
      <3>2. backend[p] = "none" /\ p \notin published
        BY <2>1, <3>1 DEF SetStatePending, EntryMatchesMessage, MessageInv, SentByChief
      <3> QED
        BY <3>2 DEF MessageInv, SentByChief, Settled, Failed, Injected, Built, Tasks
    <2>2. ASSUME NEW w \in Workers, WorkerStep(w)
          PROVE  /\ \/ backend[p] = "none" \/ <<backend[p], backend'[p]>> \in EntryMoves
                 /\ backend'[p] \in InProgressState => ~Settled(p)
      <3>1. /\ worker[w].phase # "idle" /\ worker[w].uuid = p /\ worker[w].task \in Tasks
            /\ \/ worker[w].phase = "taken" /\ backend'[p] = "RECEIVED"
               \/ worker[w].phase = "received" /\ backend'[p] = "STARTED"
               \/ worker[w].phase = "failed" /\ backend'[p] = "FAILURE"
               \/ worker[w].phase = "succeeded" /\ backend'[p] = "SUCCESS"
               \/ worker[w].phase = "chaining" /\ backend'[p] = "PENDING"
        BY <2>2, WorkerRecords DEF WorkerStep, Requeue, SetStateReceived, StartTask,
              TaskReturns, SetStateFailure, SetStateSuccess, ChainPending, ChainPublish,
              TypeOK, brokerVars
      <3>2. MatchesRun(worker[w]) /\ MatchesEntry(worker[w])
        BY <3>1 DEF MessageInv, WorkerMatchesRun, EntryMatchesMessage
      <3>3. \/ backend[p] = "none" \/ <<backend[p], backend'[p]>> \in EntryMoves
        BY <3>1, <3>2 DEF MatchesEntry, EntryMoves
      <3>4. backend'[p] \in InProgressState => ~Settled(p)
        BY <3>1, <3>2 DEF MatchesRun, InProgressState, Settled, Failed, Injected, Built,
              Tasks, MessageInv, SentByChief
      <3> QED
        BY <3>3, <3>4
    <2>3. ASSUME NEW w \in Workers, LoseMessage(w) PROVE FALSE
      BY <2>3 DEF LoseMessage, brokerVars
    <2>4. ASSUME NEW u \in Pipelines, ExpireState(u) PROVE backend'[p] = "none"
      BY <2>4 DEF ExpireState, TypeOK
    <2>5. CASE /\ ~\E u \in Pipelines : SetStatePending(u) \/ ExpireState(u)
               /\ ~\E w \in Workers : WorkerStep(w)
      BY <2>5 DEF Next, SubmissionStep, BeginSubmission, RejectSubmission, SendBuildChain,
           RecordJob, CleanupJobs, Take, LoseMessage, ReaderStep, ReadBuildState,
           ReadRepoState, PersistStages, PersistState, EndStatus, StartStatus, StartRender,
           ChiefCrash, vars, brokerVars
    <2> QED
      BY <2>1, <2>2, <2>4, <2>5 DEF InProgressState
  <1>2. IInv /\ [Next]_vars =>
          [\A p \in Pipelines : LET was == backend[p]
                                   now == backend'[p] IN now # was =>
             /\ now = "none" \/ was = "none" \/ <<was, now>> \in EntryMoves
             /\ now \in InProgressState => ~Settled(p)]_vars
    BY <1>1
  <1> QED
    BY <1>2, Invariant, PTL DEF Spec, EntryMovesOn

\* A row FAILED in the jobs table has a task that returned an error, a row DONE a
\* successful build.
THEOREM RowsAreFaithful == Spec => []RowIsTrue
  <1>1. IInv => RowIsTrue
    BY DEF IInv, RowsAreTrue
  <1> QED
    BY <1>1, Invariant, PTL

\* What the status API answers is true of the pipeline as far as it goes.
THEOREM AnswersAreTrue == Spec => []AnswerIsTrue
  <1>1. IInv => AnswerIsTrue
    <2> SUFFICES ASSUME IInv, NEW r \in Readers, reader[r].phase = "answered"
                 PROVE  /\ Answer(r) = "FAILED" => Failed(reader[r].uuid)
                        /\ Answer(r) \in {"REPO", "DONE"} => Built(reader[r].uuid)
      BY DEF AnswerIsTrue
    <2>1. reader[r].build \in TaskState /\ reader[r].repo \in TaskState
      BY ReaderRecords DEF IInv, TypeOK
    <2> QED
      BY <2>1, DerivedStates DEF Answer, IInv, StatesAreTrue
  <1> QED
    BY <1>1, Invariant, PTL

\* A final row keeps all its columns until it is evicted.
THEOREM FinalRowsAreFrozen == Spec => FinalRowIsFrozen
  <1>1. ASSUME IInv, [Next]_vars, NEW p \in Pipelines, IsTerminalState(jobs[p].state)
        PROVE  jobs'[p] \in {jobs[p], NoRow}
    <2> USE <1>1 DEF IInv
    <2>1. jobs \in [Pipelines -> Row]
      BY DEF TypeOK
    <2>2. ASSUME NEW u \in Pipelines, RecordJob(u) PROVE jobs'[p] = jobs[p]
      <3>1. ~HasRow(jobs, u)
        BY <2>2 DEF RecordJob, RowsAreTrue
      <3>2. p # u
        BY <1>1, <3>1 DEF HasRow, IsTerminalState
      <3> QED
        BY <2>1, <2>2, <3>2, InsertStatement DEF RecordJob
    <2>3. ASSUME NEW u \in Pipelines, CleanupJobs(u) PROVE jobs'[p] \in {jobs[p], NoRow}
      <3>1. CleanupOldJobs(jobs, submittedAt, MaxJobs)[p] \in {jobs[p], NoRow}
        BY <2>1, CleanupStatement
      <3> QED
        BY <2>3, <3>1 DEF CleanupJobs
    <2>4. ASSUME NEW r \in Readers, PersistStages(r) \/ PersistState(r)
          PROVE  jobs'[p] = jobs[p]
      <3> DEFINE q == reader[r]
                 st == OverallState(q.build, q.repo)
      <3>1. q.uuid \in Pipelines /\ q.build \in TaskState /\ q.repo \in TaskState
        BY <2>4, ReaderRecords DEF PersistStages, PersistState, TypeOK
      <3>2. st \in {"PENDING", "FAILED", "DONE"}
        BY <3>1, DerivedStates
      <3>3. \/ jobs' = jobs
            \/ jobs' = UpdateJobStages(jobs, q.uuid, q.build, q.repo)
            \/ jobs' = UpdateJobState(jobs, q.uuid, st)
        BY <2>4 DEF PersistStages, PersistState
      <3> HIDE DEF q, st
      <3>4. /\ UpdateJobStages(jobs, q.uuid, q.build, q.repo)[p] = jobs[p]
            /\ UpdateJobState(jobs, q.uuid, st)[p] = jobs[p]
        BY <1>1, <2>1, <3>1, <3>2, UpdateStatements
      <3> QED
        BY <3>3, <3>4
    <2>5. CASE /\ ~\E u \in Pipelines : RecordJob(u) \/ CleanupJobs(u)
               /\ ~\E r \in Readers : PersistStages(r) \/ PersistState(r)
      <3>1. UNCHANGED jobs
        BY <1>1, <2>5 DEF Next, SubmissionStep, BeginSubmission, RejectSubmission,
                    SetStatePending, SendBuildChain, Take, WorkerStep, Requeue,
                    SetStateReceived, StartTask, TaskReturns, SetStateFailure,
                    SetStateSuccess, ChainPending, ChainPublish, LoseMessage, ExpireState,
                    ReaderStep, ReadBuildState, ReadRepoState, EndStatus, StartStatus,
                    StartRender, ChiefCrash, vars
      <3> QED
        BY <3>1
    <2> QED
      BY <2>2, <2>3, <2>4, <2>5
  <1>2. IInv /\ [Next]_vars =>
          [\A p \in Pipelines :
             IsTerminalState(jobs[p].state) => jobs'[p] \in {jobs[p], NoRow}]_vars
    BY <1>1
  <1> QED
    BY <1>2, Invariant, PTL DEF Spec, FinalRowIsFrozen

-----------------------------------------------------------------------------
(* What the trimming of the jobs table removes.                             *)

Rows(table) == {p \in Pipelines : HasRow(table, p)}

\* Of a table whose rows are all submitted the cleanup keeps the newest rows: a row
\* goes only with MaxJobs later ones left, and what remains are no more than that.
LEMMA CleanupKeepsNewest ==
  ASSUME IInv
  PROVE  LET table == CleanupOldJobs(jobs, submittedAt, MaxJobs) IN
         /\ Rows(table) \subseteq Rows(jobs)
         /\ IsFiniteSet(Rows(table)) /\ Cardinality(Rows(table)) <= MaxJobs
         /\ \A p \in Rows(jobs) \ Rows(table) :
              Cardinality({v \in Pipelines : /\ HasRow(table, v)
                                             /\ submittedAt[v] > submittedAt[p]}) >= MaxJobs
  <1> DEFINE table == CleanupOldJobs(jobs, submittedAt, MaxJobs)
             N     == MostRecent(Rows(jobs), submittedAt, MaxJobs)
  <1>1. /\ jobs \in [Pipelines -> Row] /\ submittedAt \in [Pipelines -> Nat]
        /\ MaxJobs \in Nat
    BY PipelineAssumption DEF IInv, TypeOK
  <1>2. IsFiniteSet(Rows(jobs)) /\ \A p \in Rows(jobs) : submittedAt[p] # 0
    <2>1. \A p \in Rows(jobs) : submittedAt[p] # 0
      BY DEF Rows, IInv, RowsAreTrue, RowHasPipeline, MessageInv, SentByChief,
             SubmissionsAreOrdered
    <2>2. Rows(jobs) \subseteq {p \in Pipelines : submittedAt[p] # 0}
      BY <2>1 DEF Rows
    <2> QED
      BY <2>1, <2>2, FS_Subset DEF IInv, SubmissionsAreOrdered
  <1>3. \A u \in Rows(jobs) :
          Later(Rows(jobs), submittedAt, u)
            = {v \in Pipelines : HasRow(jobs, v) /\ submittedAt[v] > submittedAt[u]}
    BY DEF Later, Rows
  <1>4. GetRecentJobs(jobs, submittedAt, MaxJobs) = N
    BY <1>1, <1>3 DEF GetRecentJobs, MostRecent, Rows
  <1>5. Rows(table) = N
    BY <1>1, <1>4 DEF Rows, CleanupOldJobs, HasRow, NoRow, MostRecent
  <1>6. N \subseteq Rows(jobs) /\ IsFiniteSet(N)
    BY <1>2, FS_Subset DEF MostRecent
  <1>7. /\ \A v \in Rows(jobs) : submittedAt[v] \in Nat
        /\ \A u, v \in Rows(jobs) : submittedAt[u] = submittedAt[v] => u = v
    BY <1>1, <1>2 DEF Rows, IInv, SubmissionsAreOrdered
  <1>8. Cardinality(N) <= MaxJobs
    BY <1>1, <1>2, <1>7, NewestAreFew
  <1>9. ASSUME NEW p \in Rows(jobs) \ Rows(table)
        PROVE  Cardinality({v \in Pipelines : /\ HasRow(table, v)
                                              /\ submittedAt[v] > submittedAt[p]}) >= MaxJobs
    <2>1. Cardinality(Later(N, submittedAt, p)) >= MaxJobs
      BY <1>1, <1>2, <1>5, <1>7, <1>9, NewestAreMany
    <2>2. {v \in Pipelines : HasRow(table, v) /\ submittedAt[v] > submittedAt[p]}
            = Later(N, submittedAt, p)
      <3> HIDE DEF table, N
      <3> QED
        BY <1>5 DEF Rows, Later
    <2> QED
      BY <2>1, <2>2
  <1> QED
    BY <1>5, <1>6, <1>8, <1>9

\* No other step removes a row: all but CleanupJobs set a row's columns or insert one.
LEMMA OnlyCleanupRemoves ==
  ASSUME IInv, [Next]_vars, NEW p \in Pipelines, HasRow(jobs, p), ~HasRow(jobs', p)
  PROVE  /\ jobs' = CleanupOldJobs(jobs, submittedAt, MaxJobs)
         /\ UNCHANGED submittedAt
  <1> USE DEF IInv
  <1>1. jobs \in [Pipelines -> Row]
    BY DEF TypeOK
  <1>2. ASSUME NEW u \in Pipelines, RecordJob(u) PROVE FALSE
    BY <1>1, <1>2, InsertStatement DEF RecordJob, HasRow, NewRow
  <1>3. ASSUME NEW u \in Pipelines, CleanupJobs(u)
        PROVE  /\ jobs' = CleanupOldJobs(jobs, submittedAt, MaxJobs)
               /\ UNCHANGED submittedAt
    BY <1>3 DEF CleanupJobs
  <1>4. ASSUME NEW r \in Readers, PersistStages(r) \/ PersistState(r) PROVE FALSE
    <2> DEFINE q == reader[r]
               st == OverallState(q.build, q.repo)
    <2>1. q.uuid \in Pipelines /\ q.build \in TaskState /\ q.repo \in TaskState
      BY <1>4, ReaderRecords DEF PersistStages, PersistState, TypeOK
    <2>2. st \in {"PENDING", "FAILED", "DONE"}
      BY <2>1, DerivedStates
    <2>3. \/ jobs' = jobs
          \/ jobs' = UpdateJobStages(jobs, q.uuid, q.build, q.repo)
          \/ jobs' = UpdateJobState(jobs, q.uuid, st)
      BY <1>4 DEF PersistStages, PersistState
    <2> HIDE DEF q, st
    <2>4. /\ UpdateJobStages(jobs, q.uuid, q.build, q.repo)[p].state = jobs[p].state
          /\ UpdateJobState(jobs, q.uuid, st)[p].state \in {jobs[p].state, st}
      BY <1>1, <2>1, <2>2, UpdateStatements
    <2> QED
      BY <2>2, <2>3, <2>4 DEF HasRow
  <1>5. CASE /\ ~\E u \in Pipelines : RecordJob(u) \/ CleanupJobs(u)
             /\ ~\E r \in Readers : PersistStages(r) \/ PersistState(r)
    <2>1. UNCHANGED jobs
      BY <1>5 DEF Next, SubmissionStep, BeginSubmission, RejectSubmission, SetStatePending,
                  SendBuildChain, Take, WorkerStep, Requeue, SetStateReceived, StartTask,
                  TaskReturns, SetStateFailure, SetStateSuccess, ChainPending, ChainPublish,
                  LoseMessage, ExpireState, ReaderStep, ReadBuildState, ReadRepoState,
                  EndStatus, StartStatus, StartRender, ChiefCrash, vars
    <2> QED
      BY <2>1
  <1> QED
    BY <1>2, <1>3, <1>4, <1>5

\* A row disappears only while MaxJobs rows submitted later remain: whatever order
\* concurrent submissions insert their rows in and trim the table in, the DELETE of
\* one of them removes nothing newer than what it keeps.
THEOREM EvictsOldest == Spec => EvictsOldestOnly
  <1>1. ASSUME IInv, [Next]_vars, NEW p \in Pipelines, HasRow(jobs, p), ~HasRow(jobs', p)
        PROVE  Cardinality({v \in Pipelines : /\ HasRow(jobs', v)
                                              /\ submittedAt[v] > submittedAt[p]}) >= MaxJobs
    <2> DEFINE table == CleanupOldJobs(jobs, submittedAt, MaxJobs)
    <2>1. jobs' = table
      BY <1>1, OnlyCleanupRemoves
    <2>2. p \in Rows(jobs) \ Rows(table)
      BY <1>1, <2>1 DEF Rows
    <2>3. Cardinality({v \in Pipelines : /\ HasRow(table, v)
                                         /\ submittedAt[v] > submittedAt[p]}) >= MaxJobs
      BY <1>1, <2>2, CleanupKeepsNewest
    <2> QED
      BY <2>1, <2>3
  <1>2. IInv /\ [Next]_vars =>
          [\A p \in Pipelines :
             HasRow(jobs, p) /\ ~HasRow(jobs', p) =>
               Cardinality({v \in Pipelines : /\ HasRow(jobs', v)
                                              /\ submittedAt[v] > submittedAt[p]}) >= MaxJobs]_vars
    BY <1>1
  <1> QED
    BY <1>2, Invariant, PTL DEF Spec, EvictsOldestOnly

\* A step that removes rows leaves exactly MaxJobs of them (storage.max_jobs): the
\* table neither grows past it after a trim, nor loses a row more than it has to.
TrimsToMaxJobs ==
  [][\A p \in Pipelines :
       HasRow(jobs, p) /\ ~HasRow(jobs', p) => Cardinality(Rows(jobs')) = MaxJobs]_vars

THEOREM TrimmedToMaxJobs == Spec => TrimsToMaxJobs
  <1>1. ASSUME IInv, [Next]_vars, NEW p \in Pipelines, HasRow(jobs, p), ~HasRow(jobs', p)
        PROVE  Cardinality(Rows(jobs')) = MaxJobs
    <2> DEFINE table == CleanupOldJobs(jobs, submittedAt, MaxJobs)
               after == {v \in Pipelines : HasRow(table, v) /\ submittedAt[v] > submittedAt[p]}
    <2>1. jobs' = table
      BY <1>1, OnlyCleanupRemoves
    <2>2. p \in Rows(jobs) \ Rows(table)
      BY <1>1, <2>1 DEF Rows
    <2>3. /\ Cardinality(after) >= MaxJobs
          /\ IsFiniteSet(Rows(table)) /\ Cardinality(Rows(table)) <= MaxJobs
      BY <1>1, <2>2, CleanupKeepsNewest
    <2>4. after \subseteq Rows(table)
      BY DEF Rows
    <2>5. /\ Cardinality(after) <= Cardinality(Rows(table))
          /\ Cardinality(after) \in Nat /\ Cardinality(Rows(table)) \in Nat
      <3> HIDE DEF table, after
      <3> QED
        BY <2>3, <2>4, FS_Subset, FS_CardinalityType
    <2>6. Cardinality(Rows(table)) = MaxJobs
      BY <2>3, <2>5, PipelineAssumption
    <2> QED
      BY <2>1, <2>6 DEF Rows
  <1>2. IInv /\ [Next]_vars =>
          [\A p \in Pipelines :
             HasRow(jobs, p) /\ ~HasRow(jobs', p) => Cardinality(Rows(jobs')) = MaxJobs]_vars
    BY <1>1
  <1> QED
    BY <1>2, Invariant, PTL DEF Spec, TrimsToMaxJobs
=============================================================================
