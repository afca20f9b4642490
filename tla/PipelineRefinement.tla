------------------------- MODULE PipelineRefinement -------------------------
(***************************************************************************)
(* Pipeline implements AbstractPipeline under the mapping StageOf: every   *)
(* step moves at most one pipeline, along one of the abstract moves.       *)
(***************************************************************************)
EXTENDS PipelineSafety

\* A pipeline's stage depends on nothing but its own history.
LEMMA StageUnchanged ==
  ASSUME NEW p \in Pipelines,
         \A t \in Tasks : run'[t][p] = run[t][p],
         p \in published' <=> p \in published,
         p \in lost' <=> p \in lost
  PROVE  StageOf(p)' = StageOf(p)
  BY DEF StageOf, Injected, Failed, Settled, Built, Tasks

\* Moving one pipeline moves the mapped variable at that pipeline.
LEMMA OneMoves ==
  ASSUME NEW p \in Pipelines, NEW from, NEW to, StageOf(p) \in from, StageOf(p)' = to,
         \A q \in Pipelines : q # p => StageOf(q)' = StageOf(q)
  PROVE  Abstract!Move(p, from, to)
  BY DEF Abstract!Move

LEMMA PushMoves ==
  ASSUME IInv, NEW p \in Pipelines, SendBuildChain(p), PushBuild(p)
  PROVE  Abstract!Send(p)
  <1>1. /\ run["build"][p] = "never" /\ run["repo"][p] = "never"
        /\ p \notin published /\ p \notin lost
        /\ published' = published \cup {p}
        /\ UNCHANGED <<run, lost>>
    BY DEF IInv, MessageInv, SentByChief, SendBuildChain, PushBuild, Built
  <1>2. StageOf(p) = "new" /\ StageOf(p)' = "queued"
    BY <1>1 DEF StageOf, Injected, Failed, Settled, Built, Tasks
  <1>3. \A q \in Pipelines : q # p => StageOf(q)' = StageOf(q)
    BY <1>1, StageUnchanged
  <1> QED
    BY <1>2, <1>3, OneMoves DEF Abstract!Send

LEMMA RunMoves ==
  ASSUME IInv, NEW w \in Workers, StartTask(w) \/ TaskReturns(w)
  PROVE  Abstract!Next
  <1>1. PICK t \in Tasks, p \in Pipelines :
          /\ worker[w].task = t /\ worker[w].uuid = p
          /\ worker[w].phase \in {"received", "running"}
          /\ UNCHANGED <<published, lost>>
    BY WorkerRecords DEF StartTask, TaskReturns, IInv, TypeOK
  <1>2. MatchesRun(worker[w]) /\ p \notin lost
    BY <1>1, OnlyHolder DEF IInv
  <1>3. PICK s \in {"running", "ok", "error"} :
          /\ run' = Cell(run, t, p, s)
          /\ worker[w].phase = IF s = "running" THEN "received" ELSE "running"
    BY <1>1 DEF StartTask, TaskReturns
  <1>4. /\ p \in published
        /\ run[t][p] = IF s = "running" THEN "never" ELSE "running"
        /\ t = "build" => run["repo"][p] = "never"
        /\ t = "repo" => run["build"][p] = "ok"
    BY <1>1, <1>2, <1>3 DEF MatchesRun, Built
  <1>5. \A u \in Tasks, q \in Pipelines :
          run'[u][q] = IF u = t /\ q = p THEN s ELSE run[u][q]
    BY <1>1, <1>3, RunUpdate DEF RunState, IInv, TypeOK
  <1>6. \A q \in Pipelines : q # p => StageOf(q)' = StageOf(q)
    BY <1>1, <1>5, StageUnchanged
  <1>7. /\ t = "build" /\ s = "running" => StageOf(p) = "queued" /\ StageOf(p)' = "building"
        /\ t = "build" /\ s = "ok" => StageOf(p) = "building" /\ StageOf(p)' = "built"
        /\ t = "build" /\ s = "error" => StageOf(p) = "building" /\ StageOf(p)' = "failed"
        /\ t = "repo" /\ s = "running" => StageOf(p) = "built" /\ StageOf(p)' = "injecting"
        /\ t = "repo" /\ s = "ok" => StageOf(p) = "injecting" /\ StageOf(p)' = "done"
        /\ t = "repo" /\ s = "error" => StageOf(p) = "injecting" /\ StageOf(p)' = "failed"
    <2>1. /\ t = "build" => run'["build"][p] = s /\ run'["repo"][p] = "never"
          /\ t = "repo" => run'["repo"][p] = s /\ run'["build"][p] = "ok"
          /\ p \notin lost'
      BY <1>1, <1>2, <1>4, <1>5 DEF Tasks
    <2>2. CASE t = "build"
      BY <1>1, <1>2, <1>4, <2>1, <2>2 DEF StageOf, Injected, Failed, Settled, Built, Tasks
    <2>3. CASE t = "repo"
      BY <1>1, <1>2, <1>4, <2>1, <2>3 DEF StageOf, Injected, Failed, Settled, Built, Tasks
    <2> QED
      BY <1>1, <2>2, <2>3 DEF Tasks
  <1>8. ASSUME NEW from, NEW to, StageOf(p) \in from, StageOf(p)' = to
        PROVE  Abstract!Move(p, from, to)
    BY <1>1, <1>6, <1>8, OneMoves
  <1>9. \/ Abstract!StartBuild(p) \/ Abstract!FinishBuild(p) \/ Abstract!StartRepo(p)
        \/ Abstract!FinishRepo(p) \/ Abstract!Fail(p)
    <2>1. CASE t = "build"
      BY <1>7, <1>8, <2>1
         DEF Abstract!StartBuild, Abstract!FinishBuild, Abstract!Fail
    <2>2. CASE t = "repo"
      BY <1>7, <1>8, <2>2
         DEF Abstract!StartRepo, Abstract!FinishRepo, Abstract!Fail
    <2> QED
      BY <1>1, <2>1, <2>2 DEF Tasks
  <1> QED
    BY <1>1, <1>9 DEF Abstract!Next

LEMMA LossMoves ==
  ASSUME IInv, NEW w \in Workers, LoseMessage(w)
  PROVE  Abstract!Next \/ (\A q \in Pipelines : StageOf(q)' = StageOf(q))
  <1>1. PICK t \in Tasks, p \in Pipelines :
          /\ worker[w].task = t /\ worker[w].uuid = p
          /\ worker[w].phase # "idle"
          /\ lost' = lost \cup {p}
          /\ UNCHANGED published
    BY WorkerRecords DEF LoseMessage, IInv, TypeOK
  <1>2. MatchesRun(worker[w]) /\ p \notin lost
    BY <1>1, OnlyHolder DEF IInv
  <1>3. \A u \in Tasks, q \in Pipelines :
          run'[u][q] = IF u = t /\ q = p /\ worker[w].phase = "running"
                       THEN "killed" ELSE run[u][q]
    <2>1. CASE worker[w].phase = "running"
      <3>1. run' = Cell(run, t, p, "killed") /\ "killed" \in RunState
        BY <1>1, <2>1 DEF LoseMessage, RunState
      <3> QED
        BY <1>1, <2>1, <3>1, RunUpdate DEF IInv, TypeOK
    <2>2. CASE worker[w].phase # "running"
      BY <2>2 DEF LoseMessage
    <2> QED
      BY <2>1, <2>2
  <1>4. /\ p \in published
        /\ worker[w].phase = "running" => run[t][p] = "running"
        /\ worker[w].phase \in {"foreign", "taken", "received"} => run[t][p] = "never"
        /\ worker[w].phase = "succeeded" => run[t][p] = "ok"
        /\ worker[w].phase = "failed" => run[t][p] = "error"
        /\ worker[w].phase \in {"chaining", "publishing"} => t = "build" /\ run[t][p] = "ok"
        /\ worker[w].phase \in WorkerPhase
        /\ t = "build" => run["repo"][p] = "never"
        /\ t = "repo" => run["build"][p] = "ok"
    <2>1. worker[w].phase \in WorkerPhase
      BY DEF IInv, TypeOK, WorkerRecord, WorkerPhase, IdleWorker
    <2> QED
      BY <1>1, <1>2, <2>1 DEF MatchesRun, Built
  <1>5. \A q \in Pipelines : q # p => StageOf(q)' = StageOf(q)
    BY <1>1, <1>3, StageUnchanged
  <1>6. \/ StageOf(p)' = StageOf(p)
        \/ /\ StageOf(p) \in {"queued", "building", "built", "injecting"}
           /\ StageOf(p)' = "lost"
    <2> DEFINE s == IF worker[w].phase = "running" THEN "killed" ELSE run[t][p]
    <2>1. /\ run'[t][p] = s
          /\ t = "build" => run'["repo"][p] = "never"
          /\ t = "repo" => run'["build"][p] = "ok"
          /\ p \in lost' /\ p \in published'
          /\ run[t][p] \in {"never", "running", "ok", "error"}
      BY <1>1, <1>3, <1>4 DEF Tasks, WorkerPhase
    <2>2. CASE t = "build"
      BY <1>2, <1>4, <2>1, <2>2 DEF StageOf, Injected, Failed, Settled, Built, Tasks
    <2>3. CASE t = "repo"
      BY <1>2, <1>4, <2>1, <2>3 DEF StageOf, Injected, Failed, Settled, Built, Tasks
    <2> QED
      BY <1>1, <2>2, <2>3 DEF Tasks
  <1>7. CASE StageOf(p)' = StageOf(p)
    <2> SUFFICES ASSUME NEW q \in Pipelines PROVE StageOf(q)' = StageOf(q)
      OBVIOUS
    <2> QED
      BY <1>5, <1>7, q = p \/ q # p
  <1>8. CASE /\ StageOf(p) \in Abstract!Unfinished
             /\ StageOf(p)' = "lost"
    <2>1. Abstract!Move(p, Abstract!Unfinished, "lost")
      BY <1>1, <1>5, <1>8, OneMoves
    <2> QED
      BY <1>1, <2>1 DEF Abstract!Next, Abstract!Lose
  <1> QED
    BY <1>6, <1>7, <1>8 DEF Abstract!Unfinished

\* The chief, the workers and the readers together keep the promise that
\* AbstractPipeline makes to whoever submits a package.
THEOREM Refinement == Spec => ImplementsAbstractPipeline
  <1>1. Init => Abstract!Init
    BY DEF Init, Abstract!Init, StageOf, Injected, Failed, Settled, Built, Tasks
  <1>2. IInv /\ [Next]_vars => [Abstract!Next]_([p \in Pipelines |-> StageOf(p)])
    <2> SUFFICES ASSUME IInv, [Next]_vars
                 PROVE  Abstract!Next \/ UNCHANGED [p \in Pipelines |-> StageOf(p)]
      OBVIOUS
    <2>1. CASE \E p \in Pipelines : SendBuildChain(p) /\ PushBuild(p)
      BY <2>1, PushMoves DEF Abstract!Next
    <2>2. CASE \E w \in Workers : StartTask(w) \/ TaskReturns(w)
      BY <2>2, RunMoves
    <2>3. CASE \E w \in Workers : LoseMessage(w)
      BY <2>3, LossMoves
    <2>4. CASE /\ ~\E p \in Pipelines : SendBuildChain(p) /\ PushBuild(p)
               /\ ~\E w \in Workers : StartTask(w) \/ TaskReturns(w) \/ LoseMessage(w)
      <3>1. UNCHANGED history
        BY <2>4 DEF Next, SubmissionStep, BeginSubmission, RejectSubmission, SetStatePending,
                    SendBuildChain, RecordJob, CleanupJobs, Take, WorkerStep, Requeue,
                    SetStateReceived, SetStateFailure, SetStateSuccess, ChainPending,
                    ChainPublish, ExpireState, ReaderStep, ReadBuildState, ReadRepoState,
                    PersistStages, PersistState, EndStatus, StartStatus, StartRender,
                    ChiefCrash, vars, history
      <3> QED
        BY <3>1, StageUnchanged DEF history
    <2> QED
      BY <2>1, <2>2, <2>3, <2>4
  <1> QED
    BY <1>1, <1>2, Invariant, PTL DEF Spec, ImplementsAbstractPipeline, Abstract!Spec
=============================================================================
