--------------------------- MODULE ArtifactsProofs --------------------------
(***************************************************************************)
(* Theorems about Artifacts for every set of pipelines and uploads.         *)
(***************************************************************************)
EXTENDS Artifacts, TLAPS

\* What a step may write into a file or a request.
LEMMA Values ==
  /\ NoFile \in File
  /\ \A u \in Uploads : Whole(u) \in File /\ Part(u) \in File
  /\ \A f \in File : f # NoFile => f.of \in Uploads
  /\ \A r \in Request : r.phase \notin {"new", "copying", "partial"} =>
       \A ph \in Copied : [r EXCEPT !.phase = ph] \in Request
  /\ \A r \in Request : r.phase # "new" => \A ph \in {"rejected", "dropped"} :
       [r EXCEPT !.phase = ph] \in Request
  /\ \A r \in Request : r.phase \in SubmitPhase =>
       r.from \in Uploads /\ \A ph \in SubmitPhase : [r EXCEPT !.phase = ph] \in Request
  /\ \A r \in Request : r.phase \in RetryPhase =>
       r.from \in Pipelines /\ \A ph \in RetryPhase : [r EXCEPT !.phase = ph] \in Request
  <1>1. /\ NoFile \in File
        /\ \A u \in Uploads : Whole(u) \in File /\ Part(u) \in File
        /\ \A f \in File : f # NoFile => f.of \in Uploads
    BY DEF File, NoFile, Whole, Part
  <1>2. ASSUME NEW r \in Request, r.phase # "new"
        PROVE  \/ r \in [phase : SubmitPhase \cup Copied, from : Uploads]
               \/ r \in [phase : RetryPhase \cup Copied, from : Pipelines]
    BY <1>2 DEF Request, NoRequest
  <1>3. ASSUME NEW r \in [phase : SubmitPhase \cup Copied, from : Uploads]
        PROVE  /\ r.from \in Uploads
               /\ \A ph \in SubmitPhase \cup Copied : [r EXCEPT !.phase = ph] \in Request
    BY DEF Request
  <1>4. ASSUME NEW r \in [phase : RetryPhase \cup Copied, from : Pipelines]
        PROVE  /\ r.from \in Pipelines
               /\ \A ph \in RetryPhase \cup Copied : [r EXCEPT !.phase = ph] \in Request
    BY DEF Request
  <1>5. /\ "new" \notin SubmitPhase \cup RetryPhase \cup Copied
        /\ SubmitPhase \cap RetryPhase = {} /\ SubmitPhase \cap Copied = {}
        /\ RetryPhase \cap Copied = {} /\ {"rejected", "dropped"} \subseteq Copied
    BY DEF SubmitPhase, RetryPhase, Copied
  <1> QED
    BY <1>1, <1>2, <1>3, <1>4, <1>5

LEMMA TypeInit == Init => TypeOK
  BY Values DEF Init, TypeOK, UploadPhase, TaskPhase, PostPhase, Request,
                Life!Init, Life!Stage, Life!Unfinished

\* An answer moves one request to a phase of its own kind.
LEMMA AnswerType ==
  ASSUME TypeOK, NEW p \in Pipelines, NEW from, NEW to, Answer(p, from, to),
         \/ from \in SubmitPhase /\ to \in SubmitPhase \cup {"ready"}
         \/ from \in RetryPhase /\ to \in RetryPhase
         \/ from = "copied" /\ to = "ready"
         \/ from = "ready" /\ to \in {"sent", "rejected"}
         \/ from = "sent" /\ to = "accepted"
         \/ from \in InFlight /\ to = "rejected"
  PROVE  request' \in [Pipelines -> Request]
  <1>1. request[p] \in Request /\ request[p].phase = from
    BY DEF TypeOK, Answer
  <1>2. [request[p] EXCEPT !.phase = to] \in Request
    BY <1>1, Values DEF SubmitPhase, RetryPhase, Copied, InFlight
  <1>3. request' = [request EXCEPT ![p] = [request[p] EXCEPT !.phase = to]]
    BY DEF Answer
  <1> QED
    BY <1>2, <1>3 DEF TypeOK

LEMMA UploadType ==
  ASSUME TypeOK, NEW u \in Uploads, UploadStep(u)
  PROVE  TypeOK'
  <1>1. UNCHANGED <<requestVars, stage, workVars, storeVars>>
    BY DEF UploadStep, WriteToken, VerifyToken, CreateBlob, ReceiveBlob, UploadMoves
  <1>2. upload' \in [Uploads -> UploadPhase]
    BY DEF UploadStep, WriteToken, VerifyToken, CreateBlob, ReceiveBlob, UploadMoves,
           TypeOK, UploadPhase
  <1>3. token' \subseteq Uploads
    BY DEF UploadStep, WriteToken, VerifyToken, CreateBlob, ReceiveBlob, TypeOK
  <1>4. blob' \in [Uploads -> File]
    BY Values DEF UploadStep, WriteToken, VerifyToken, CreateBlob, ReceiveBlob, TypeOK
  <1> QED
    BY <1>1, <1>2, <1>3, <1>4 DEF TypeOK, requestVars, workVars, storeVars

LEMMA RequestType ==
  ASSUME TypeOK, NEW p \in Pipelines, RequestStep(p)
  PROVE  TypeOK'
  <1>1. request' \in [Pipelines -> Request]
    BY AnswerType DEF RequestStep, MoveTarball, ExtractSubmission, MoveToken,
       VerifySignedSubmission, OpenCopy, CopyTarball, CopyDir, SendBuildChain, RecordJob,
       Reject, SubmitPhase, RetryPhase, InFlight
  <1>2. /\ request[p] \in Request
        /\ request[p].phase \in SubmitPhase => Source(p) \in Uploads
        /\ request[p].phase \in RetryPhase => Source(p) \in Pipelines
    BY Values DEF TypeOK, Source
  <1>3. tarball' \in [Pipelines -> File]
    <2>1. CASE MoveTarball(p)
      BY <1>2, <2>1 DEF MoveTarball, MoveFile, Answer, SubmitPhase, TypeOK
    <2>2. CASE OpenCopy(p)
      BY <1>2, <2>2, Values DEF OpenCopy, RetryPhase, TypeOK
    <2>3. CASE CopyTarball(p)
      BY <1>2, <2>3 DEF CopyTarball, Answer, RetryPhase, TypeOK
    <2> QED
      BY <2>1, <2>2, <2>3 DEF RequestStep, ExtractSubmission, MoveToken,
         VerifySignedSubmission, CopyDir, SendBuildChain, RecordJob, Reject, TypeOK
  <1>4. dir' \in [Pipelines -> File]
    <2>1. CASE CopyDir(p)
      BY <1>2, <2>1 DEF CopyDir, Answer, RetryPhase, TypeOK
    <2> QED
      BY <2>1 DEF RequestStep, MoveTarball, OpenCopy, CopyTarball, ExtractSubmission,
         MoveToken, VerifySignedSubmission, SendBuildChain, RecordJob, Reject, TypeOK
  <1>5. blob' \in [Uploads -> File] /\ token' \subseteq Uploads
    BY Values DEF RequestStep, MoveTarball, MoveFile, OpenCopy, CopyTarball,
       ExtractSubmission, MoveToken, VerifySignedSubmission, CopyDir, SendBuildChain,
       RecordJob, Reject, TypeOK, uploadVars
  <1>6. stage' \in [Pipelines -> Life!Stage]
    BY DEF RequestStep, MoveTarball, ExtractSubmission, MoveToken,
       VerifySignedSubmission, OpenCopy, CopyTarball, CopyDir, SendBuildChain, RecordJob,
       Reject, Life!Send, Life!Move, Life!Stage, Life!Unfinished, TypeOK
  <1>7. recorded' \subseteq Pipelines /\ UNCHANGED <<upload, described, workVars, storeVars>>
    BY DEF RequestStep, MoveTarball, ExtractSubmission, MoveToken,
       VerifySignedSubmission, OpenCopy, CopyTarball, CopyDir, SendBuildChain, RecordJob,
       Reject, TypeOK, uploadVars
  <1> QED
    BY <1>1, <1>3, <1>4, <1>5, <1>6, <1>7 DEF TypeOK, workVars, storeVars

LEMMA TaskType ==
  ASSUME TypeOK, NEW p \in Pipelines, TaskStep(p) \/ OpenArtifact(p) \/ WriteArtifact(p),
         post[p] \in {"open", "writing"} => work[p] # NoFile
  PROVE  TypeOK'
  <1>1. UNCHANGED <<uploadVars, requestVars>>
    BY DEF TaskStep, StartBuild, FetchSubmission, UnpackSubmission, BuildPackage,
       PostArtifact, FinishBuild, FailTask, LoseTask, StartRepo, FetchArtifact, FinishRepo,
       BuildMoves, EndsTask, OpenArtifact, WriteArtifact
  <1>2. task' \in [Pipelines -> TaskPhase] /\ post' \in [Pipelines -> PostPhase]
    BY DEF TaskStep, StartBuild, FetchSubmission, UnpackSubmission, BuildPackage,
       PostArtifact, FinishBuild, FailTask, LoseTask, StartRepo, FetchArtifact, FinishRepo,
       BuildMoves, EndsTask, OpenArtifact, WriteArtifact, TypeOK, TaskPhase, PostPhase,
       workVars, storeVars
  <1>3. stage' \in [Pipelines -> Life!Stage]
    BY DEF TaskStep, StartBuild, FetchSubmission, UnpackSubmission, BuildPackage,
       PostArtifact, FinishBuild, FailTask, LoseTask, StartRepo, FetchArtifact, FinishRepo,
       BuildMoves, OpenArtifact, WriteArtifact, TypeOK, Life!StartBuild, Life!FinishBuild,
       Life!StartRepo, Life!FinishRepo, Life!Fail, Life!Lose, Life!Move, Life!Stage,
       Life!Unfinished
  <1>4. work' \in [Pipelines -> File] /\ injected' \in [Pipelines -> File]
    BY DEF TaskStep, StartBuild, FetchSubmission, UnpackSubmission, BuildPackage,
       PostArtifact, FinishBuild, FailTask, LoseTask, StartRepo, FetchArtifact, FinishRepo,
       BuildMoves, EndsTask, OpenArtifact, WriteArtifact, TypeOK, workVars
  <1>5. artifact' \in [Pipelines -> File]
    <2>1. CASE OpenArtifact(p) \/ WriteArtifact(p)
      <3>1. Part(work[p].of) \in File /\ Whole(work[p].of) \in File
        BY <2>1, Values DEF OpenArtifact, WriteArtifact, TypeOK
      <3> QED
        BY <2>1, <3>1, Values DEF OpenArtifact, WriteArtifact, TypeOK
    <2>2. CASE TaskStep(p)
      BY <2>2 DEF TaskStep, StartBuild, FetchSubmission, UnpackSubmission, BuildPackage,
         PostArtifact, FinishBuild, FailTask, LoseTask, StartRepo, FetchArtifact,
         FinishRepo, BuildMoves, EndsTask, TypeOK, storeVars
    <2> QED
      BY <2>1, <2>2
  <1> QED
    BY <1>1, <1>2, <1>3, <1>4, <1>5 DEF TypeOK, uploadVars, requestVars

\* The remaining actions.
LEMMA OtherType ==
  ASSUME TypeOK,
         \/ \E p \in Pipelines, u \in Uploads : BeginSubmission(p, u)
         \/ \E p, old \in Pipelines : BeginRetry(p, old)
         \/ \E p \in Pipelines : EvictJob(p)
         \/ ChiefCrash
         \/ UNCHANGED vars
  PROVE  TypeOK'
  <1>1. ASSUME NEW p \in Pipelines, NEW u \in Uploads, BeginSubmission(p, u) PROVE TypeOK'
    <2>1. [phase |-> "made", from |-> u] \in Request
      BY DEF Request, SubmitPhase
    <2> QED
      BY <1>1, <2>1 DEF BeginSubmission, TypeOK, uploadVars, workVars, storeVars
  <1>2. ASSUME NEW p \in Pipelines, NEW old \in Pipelines, BeginRetry(p, old) PROVE TypeOK'
    <2>1. [phase |-> "copying", from |-> old] \in Request
      BY DEF Request, RetryPhase
    <2> QED
      BY <1>2, <2>1 DEF BeginRetry, TypeOK, uploadVars, workVars, storeVars
  <1>3. ASSUME NEW p \in Pipelines, EvictJob(p) PROVE TypeOK'
    BY <1>3 DEF EvictJob, TypeOK, uploadVars, workVars, storeVars
  <1>4. CASE ChiefCrash
    <2>1. \A p \in Pipelines : request[p].phase \in InFlight =>
            [request[p] EXCEPT !.phase = "dropped"] \in Request
      BY Values DEF TypeOK, InFlight, SubmitPhase, RetryPhase
    <2>2. request' \in [Pipelines -> Request]
      BY <1>4, <2>1 DEF ChiefCrash, TypeOK
    <2> QED
      BY <1>4, <2>2 DEF ChiefCrash, TypeOK, UploadPhase, PostPhase, workVars
  <1>5. CASE UNCHANGED vars
    BY <1>5 DEF vars, TypeOK, uploadVars, requestVars, workVars, storeVars
  <1> QED
    BY <1>1, <1>2, <1>3, <1>4, <1>5

-----------------------------------------------------------------------------
\* An uploaded tarball is its own upload's, and whole once its id is given out.
BlobInv ==
  \A u \in Uploads : upload[u] = "stored" => blob[u] \in {NoFile, Whole(u)}

\* What a request has established at each of its phases.
RequestInv ==
  \A p \in Pipelines :
    /\ request[p] = NoRequest =>
         tarball[p] = NoFile /\ described[p] = NoUpload /\ stage[p] = "new"
    /\ request[p] # NoRequest => described[p] \in Uploads
    /\ Source(p) \in Uploads =>
         /\ upload[Source(p)] = "stored" /\ described[p] = Source(p)
         /\ tarball[p] # NoFile => blob[Source(p)] = NoFile
    /\ request[p].phase \in RetryPhase =>
         stage[Source(p)] # "new" /\ described[p] = described[Source(p)]
    /\ request[p].phase \in {"moved", "extracted", "tokened"} =>
         tarball[p] = Whole(described[p])
    /\ request[p].phase \in {"extracted", "tokened"} => dir[p] = tarball[p]
    /\ request[p].phase \in {"copied", "ready"} =>
         described[p] \in Signed /\ tarball[p] = Whole(described[p])
    /\ request[p].phase \in {"sent", "accepted"} \/ p \in recorded => stage[p] # "new"
    /\ stage[p] # "new" => request[p].phase \in {"sent", "accepted", "rejected", "dropped"}

\* What a task, and the chief's handler of its artifact, has established.
TaskInv ==
  \A p \in Pipelines :
    /\ stage[p] = "building" /\ task[p] # "started" => work[p] = Whole(described[p])
    /\ stage[p] = "building" /\ task[p] # "posting" => post[p] = "none"
    /\ stage[p] = "building" => task[p] # "idle"
    /\ stage[p] \in {"new", "queued"} => post[p] = "none"
    /\ stage[p] \in {"built", "injecting", "done"} => post[p] \in {"stored", "refused"}
    /\ post[p] \in {"open", "writing"} => work[p] = Whole(described[p])
    /\ artifact[p].whole => post[p] = "stored" /\ artifact[p] = Whole(described[p])
    /\ stage[p] = "injecting" /\ task[p] = "unpacked" => work[p] = Whole(described[p])
    /\ stage[p] = "done" => injected[p] = Whole(described[p])

IInv == TypeOK /\ BlobInv /\ RequestInv /\ SentIsVerified /\ TaskInv
LEMMA FileFacts ==
  \A u \in Uploads :
    /\ Whole(u) # NoFile /\ Whole(u).whole /\ Whole(u).of = u
    /\ Part(u) # NoFile /\ ~Part(u).whole /\ Part(u).of = u
    /\ ~NoFile.whole
  BY UploadAssumption DEF Whole, Part, NoFile

\* No request of phase "new" but the empty one, and no empty one of another phase.
LEMMA PhaseFacts ==
  \A r \in Request : /\ r = NoRequest <=> r.phase = "new"
                     /\ r = NoRequest => r.from \notin Uploads
                     /\ r # NoRequest => r.from \in Uploads \cup Pipelines
                     /\ r.phase \in SubmitPhase => r.from \in Uploads
                     /\ r.phase \in RetryPhase => r.from \in Pipelines /\ r.from \notin Uploads
  BY UploadAssumption DEF Request, NoRequest, SubmitPhase, RetryPhase, Copied

LEMMA InitInv == Init => IInv
  <1> SUFFICES ASSUME Init PROVE IInv
    OBVIOUS
  <1>1. TypeOK
    BY TypeInit
  <1>2. BlobInv /\ SentIsVerified
    BY DEF Init, Life!Init, BlobInv, SentIsVerified
  <1>3. RequestInv
    BY UploadAssumption DEF Init, Life!Init, RequestInv, NoRequest, Source, RetryPhase
  <1>4. TaskInv
    BY DEF Init, Life!Init, TaskInv, NoFile
  <1> QED
    BY <1>1, <1>2, <1>3, <1>4 DEF IInv

\* An upload's handler touches nothing a pipeline was given.
LEMMA UploadKeeps ==
  ASSUME IInv, NEW u \in Uploads, UploadStep(u)
  PROVE  IInv'
  <1>1. /\ upload[u] # "stored"
        /\ UNCHANGED <<requestVars, stage, workVars, storeVars>>
        /\ \A v \in Uploads : v # u => upload'[v] = upload[v] /\ blob'[v] = blob[v]
        /\ upload'[u] = "stored" => blob'[u] = Whole(u)
    BY DEF UploadStep, WriteToken, VerifyToken, CreateBlob, ReceiveBlob, UploadMoves,
           IInv, TypeOK
  <1>2. TypeOK'
    BY UploadType DEF IInv
  <1>3. BlobInv'
    BY <1>1 DEF IInv, BlobInv
  <1>4. RequestInv' /\ SentIsVerified'
    BY <1>1 DEF IInv, RequestInv, SentIsVerified, Source, requestVars
  <1>5. TaskInv'
    BY <1>1 DEF IInv, TaskInv, requestVars, workVars, storeVars
  <1> QED
    BY <1>2, <1>3, <1>4, <1>5 DEF IInv

\* Steps that leave alone what a pipeline is, in the eyes of its tasks.
LEMMA TaskInvFrame ==
  ASSUME IInv, UNCHANGED <<task, work, injected, post, artifact>>,
         \A p \in Pipelines :
           /\ stage'[p] = stage[p] \/ (stage[p] = "new" /\ stage'[p] = "queued")
           /\ described'[p] = described[p] \/ request[p] = NoRequest
  PROVE  TaskInv'
  <1> SUFFICES ASSUME NEW p \in Pipelines
               PROVE  TaskInv!(p)'
    BY DEF TaskInv
  <1>1. request[p] = NoRequest => stage[p] = "new" /\ post[p] = "none" /\ ~artifact[p].whole
    BY DEF IInv, RequestInv, TaskInv
  <1> QED
    BY <1>1 DEF IInv, TaskInv

LEMMA BeginKeeps ==
  ASSUME IInv, NEW p \in Pipelines, NEW from,
         \/ from \in Uploads /\ BeginSubmission(p, from)
         \/ from \in Pipelines /\ BeginRetry(p, from)
  PROVE  IInv'
  <1>1. TypeOK'
    BY OtherType DEF IInv
  <1>2. /\ request[p] = NoRequest /\ tarball[p] = NoFile /\ stage[p] = "new"
        /\ UNCHANGED <<uploadVars, tarball, dir, recorded, stage, workVars, storeVars>>
        /\ \A q \in Pipelines : q # p => /\ request'[q] = request[q]
                                       /\ described'[q] = described[q]
    BY DEF BeginSubmission, BeginRetry, IInv, RequestInv, TypeOK
  <1>3. BlobInv' /\ SentIsVerified'
    BY <1>2 DEF IInv, BlobInv, SentIsVerified, uploadVars
  <1>4. TaskInv'
    <2>1. UNCHANGED <<task, work, injected, post, artifact>>
      BY <1>2 DEF workVars, storeVars
    <2>2. \A q \in Pipelines :
            /\ stage'[q] = stage[q] \/ (stage[q] = "new" /\ stage'[q] = "queued")
            /\ described'[q] = described[q] \/ request[q] = NoRequest
      BY <1>2
    <2> QED
      BY <2>1, <2>2, TaskInvFrame
  <1>5. \A q \in Pipelines : stage[q] # "new" => described'[q] = described[q]
    BY <1>2
  <1>6. ASSUME NEW q \in Pipelines, q # p PROVE RequestInv!(q)'
    <2>1. request[q].phase \in RetryPhase => Source(q) \in Pipelines
      BY PhaseFacts DEF IInv, TypeOK, Source
    <2> QED
      BY <1>2, <1>5, <1>6, <2>1 DEF IInv, RequestInv, Source, uploadVars
  <1>7. RequestInv!(p)'
    <2>1. CASE from \in Uploads /\ BeginSubmission(p, from)
      <3>1. request'[p] = [phase |-> "made", from |-> from] /\ described'[p] = from
            /\ upload[from] = "stored"
        BY <2>1 DEF BeginSubmission, IInv, TypeOK
      <3> QED
        BY <1>2, <2>1, <3>1 DEF IInv, RequestInv, Source, uploadVars, NoRequest, RetryPhase
    <2>2. CASE from \in Pipelines /\ BeginRetry(p, from)
      <3>1. /\ request'[p] = [phase |-> "copying", from |-> from]
            /\ described'[p] = described[from]
            /\ stage[from] # "new" /\ described[from] \in Uploads /\ from # p
        BY <1>2, <2>2 DEF BeginRetry, IInv, TypeOK, RequestInv
      <3> QED
        BY <1>2, <1>5, <2>2, <3>1, UploadAssumption
           DEF IInv, RequestInv, Source, NoRequest, RetryPhase
    <2> QED
      BY <2>1, <2>2
  <1>8. RequestInv'
    BY <1>6, <1>7 DEF RequestInv
  <1> QED
    BY <1>1, <1>3, <1>4, <1>8 DEF IInv

\* A step of p's request that leaves the queue and what others use alone.
LEMMA RequestFrame ==
  ASSUME IInv, NEW p \in Pipelines, stage[p] = "new",
         TypeOK', BlobInv', RequestInv!(p)',
         UNCHANGED <<upload, described, recorded, stage, workVars, storeVars>>,
         \A q \in Pipelines : q # p =>
           /\ request'[q] = request[q] /\ tarball'[q] = tarball[q] /\ dir'[q] = dir[q],
         \A u \in Uploads : blob'[u] \in {blob[u], NoFile}
  PROVE  IInv'
  <1>1. SentIsVerified'
    BY DEF IInv, SentIsVerified
  <1>2. TaskInv'
    <2>1. UNCHANGED <<task, work, injected, post, artifact>>
      BY DEF workVars, storeVars
    <2>2. \A q \in Pipelines :
            /\ stage'[q] = stage[q] \/ (stage[q] = "new" /\ stage'[q] = "queued")
            /\ described'[q] = described[q] \/ request[q] = NoRequest
      OBVIOUS
    <2> QED
      BY <2>1, <2>2, TaskInvFrame
  <1>3. ASSUME NEW q \in Pipelines, q # p PROVE RequestInv!(q)'
    BY <1>3 DEF IInv, RequestInv, Source
  <1>4. RequestInv'
    BY <1>3 DEF RequestInv
  <1> QED
    BY <1>1, <1>2, <1>4 DEF IInv

\* What an answer does to the requests.
LEMMA AnswerFacts ==
  ASSUME TypeOK, NEW p \in Pipelines, request[p] # NoRequest, NEW from, NEW to,
         Answer(p, from, to)
  PROVE  /\ request[p].phase = from /\ request'[p].phase = to
         /\ request'[p].from = request[p].from
         /\ \A q \in Pipelines : q # p => request'[q] = request[q]
  <1>1. request \in [Pipelines -> Request] /\ request' = [request EXCEPT ![p].phase = to]
    BY DEF Answer, TypeOK
  <1>2. request[p] \in [phase : SubmitPhase \cup RetryPhase \cup Copied,
                        from : Uploads \cup Pipelines]
    BY <1>1 DEF Request
  <1> QED
    BY <1>1, <1>2 DEF Answer

\* The file operations of SubmitPackage and RetryPipeline, and their error returns.
LEMMA RequestKeeps ==
  ASSUME IInv, NEW p \in Pipelines,
         \/ MoveTarball(p) \/ ExtractSubmission(p) \/ MoveToken(p)
         \/ VerifySignedSubmission(p) \/ OpenCopy(p) \/ CopyTarball(p) \/ CopyDir(p)
         \/ \E ph \in InFlight \ {"sent"} : Reject(p, ph)
  PROVE  IInv'
  <1>1. TypeOK'
    BY RequestType DEF IInv, RequestStep
  <1>2. PICK from, to : from \in InFlight \ {"sent"} /\ Answer(p, from, to)
    BY DEF MoveTarball, ExtractSubmission, MoveToken, VerifySignedSubmission, OpenCopy,
           CopyTarball, CopyDir, Reject, InFlight, SubmitPhase, RetryPhase
  <1>3. /\ request[p].phase = from /\ request'[p].phase = to
        /\ request'[p].from = request[p].from
        /\ request[p] # NoRequest /\ stage[p] = "new"
        /\ \A q \in Pipelines : q # p => request'[q] = request[q]
    <2>1. request[p].phase = from
      BY <1>2 DEF Answer
    <2>2. request[p] # NoRequest /\ stage[p] = "new"
      BY <1>2, <2>1 DEF IInv, RequestInv, NoRequest, InFlight, SubmitPhase, RetryPhase
    <2> QED
      BY <1>2, <2>2, AnswerFacts DEF IInv
  <1>3a. \A a, b : Answer(p, a, b) => request[p].phase = a /\ request'[p].phase = b
    BY <1>3, AnswerFacts DEF IInv
  <1>4. /\ UNCHANGED <<upload, described, recorded, stage, task, work, injected, post, artifact>>
        /\ \A q \in Pipelines : q # p => tarball'[q] = tarball[q] /\ dir'[q] = dir[q]
    BY DEF MoveTarball, MoveFile, ExtractSubmission, MoveToken, VerifySignedSubmission,
           OpenCopy, CopyTarball, CopyDir, Reject, uploadVars, workVars, storeVars, IInv,
           TypeOK
  <1>5. \A u \in Uploads : blob'[u] \in {blob[u], NoFile}
    BY DEF MoveTarball, MoveFile, ExtractSubmission, MoveToken, VerifySignedSubmission,
           OpenCopy, CopyTarball, CopyDir, Reject, uploadVars, IInv, TypeOK
  <1>6. BlobInv'
    BY <1>4, <1>5 DEF IInv, BlobInv
  <1>7. /\ described[p] \in Uploads
        /\ request[p].from \in Uploads =>
             described[p] = request[p].from /\ upload[request[p].from] = "stored"
        /\ from \in SubmitPhase => request[p].from \in Uploads
        /\ from \in RetryPhase =>
             /\ request[p].from \in Pipelines /\ request[p].from \notin Uploads
             /\ tarball[request[p].from] = Whole(described[p])
             /\ described[p] \in Signed /\ request[p].from # p
             /\ stage[request[p].from] # "new"
             /\ described[p] = described[request[p].from]
    BY <1>3, PhaseFacts DEF IInv, RequestInv, SentIsVerified, TypeOK, Source
  <1>8. RequestInv!(p)'
    <2>1. CASE MoveTarball(p)
      <3>1. /\ from = "made" /\ to = "moved" /\ request[p].from \in Uploads
            /\ tarball'[p] = Whole(request[p].from)
            /\ blob'[request[p].from] = NoFile
        BY <1>3, <1>7, <1>3a, <2>1 DEF MoveTarball, MoveFile, Source, SubmitPhase,
           IInv, BlobInv, TypeOK
      <3> QED
        BY <1>3, <1>4, <1>7, <3>1 DEF IInv, RequestInv, Source, RetryPhase, NoRequest
    <2>2. CASE ExtractSubmission(p) \/ MoveToken(p) \/ VerifySignedSubmission(p)
      <3>1. /\ \/ from = "moved" /\ to = "extracted" /\ dir'[p] = tarball[p]
               \/ from = "extracted" /\ to = "tokened" /\ dir' = dir
               \/ from = "tokened" /\ to = "ready" /\ dir' = dir /\ dir[p].of \in Signed
            /\ UNCHANGED <<tarball, blob>>
        BY <1>3, <1>3a, <2>2 DEF ExtractSubmission, MoveToken, VerifySignedSubmission,
           uploadVars, IInv, TypeOK
      <3>2. from = "tokened" => described[p] \in Signed
        BY <1>3, <1>7, <3>1, FileFacts DEF IInv, RequestInv
      <3> QED
        BY <1>3, <1>4, <1>7, <3>1, <3>2 DEF IInv, RequestInv, Source, RetryPhase, NoRequest
    <2>3. CASE OpenCopy(p) \/ CopyTarball(p) \/ CopyDir(p)
      <3>1. /\ from \in RetryPhase
            /\ \/ to = "partial"
               \/ to = "copied" /\ tarball'[p] = tarball[request[p].from]
               \/ from = "copied" /\ to = "ready" /\ tarball' = tarball
            /\ blob' = blob
        BY <1>3, <1>3a, <2>3 DEF OpenCopy, CopyTarball, CopyDir, Source, RetryPhase,
           uploadVars, IInv, TypeOK
      <3> QED
        BY <1>3, <1>4, <1>7, <3>1 DEF IInv, RequestInv, Source, RetryPhase, NoRequest
    <2>4. CASE \E ph \in InFlight \ {"sent"} : Reject(p, ph)
      <3>1. to = "rejected" /\ UNCHANGED <<tarball, blob>>
        BY <1>3, <1>3a, <2>4 DEF Reject, uploadVars, IInv, TypeOK
      <3> QED
        BY <1>3, <1>4, <1>7, <3>1 DEF IInv, RequestInv, Source, RetryPhase, NoRequest
    <2> QED
      BY <2>1, <2>2, <2>3, <2>4
  <1>9. UNCHANGED <<upload, described, recorded, stage, workVars, storeVars>>
    BY <1>4 DEF workVars, storeVars
  <1> QED
    BY <1>1, <1>3, <1>4, <1>5, <1>6, <1>8, <1>9, RequestFrame

\* Sending, recording and evicting.
LEMMA SendKeeps ==
  ASSUME IInv, NEW p \in Pipelines, SendBuildChain(p) \/ RecordJob(p) \/ EvictJob(p)
  PROVE  IInv'
  <1>1. TypeOK'
    BY RequestType, OtherType DEF IInv, RequestStep
  <1>2. UNCHANGED <<upload, token, blob, described, tarball, dir, task, work, injected, post,
                    artifact>>
    BY DEF SendBuildChain, RecordJob, EvictJob, uploadVars, workVars, storeVars
  <1>3. /\ \A q \in Pipelines : q # p => request'[q] = request[q] /\ stage'[q] = stage[q]
                                    /\ (q \in recorded' <=> q \in recorded)
        /\ request'[p].from = request[p].from
        /\ \/ /\ request[p].phase = "ready" /\ request'[p].phase \in {"sent", "rejected"}
              /\ stage[p] = "new" /\ stage'[p] = "queued" /\ recorded' = recorded
              /\ request'[p] # NoRequest
           \/ /\ request[p].phase = "sent" /\ request'[p].phase = "accepted"
              /\ stage'[p] = stage[p] /\ request'[p] # NoRequest
           \/ /\ request'[p] = request[p] /\ stage'[p] = stage[p] /\ p \notin recorded'
    <2>1. CASE SendBuildChain(p)
      <3>1. PICK a \in {"sent", "rejected"} : Answer(p, "ready", a)
        BY <2>1 DEF SendBuildChain
      <3>2. request[p] # NoRequest
        BY <3>1 DEF Answer, NoRequest
      <3>3. stage[p] = "new" /\ stage' = [stage EXCEPT ![p] = "queued"] /\ recorded' = recorded
        BY <2>1 DEF SendBuildChain, Life!Send, Life!Move
      <3> QED
        BY <3>1, <3>2, <3>3, AnswerFacts DEF IInv, TypeOK, NoRequest
    <2>2. CASE RecordJob(p)
      <3>1. Answer(p, "sent", "accepted") /\ stage' = stage
            /\ recorded' \in {recorded, recorded \cup {p}}
        BY <2>2 DEF RecordJob
      <3>2. request[p] # NoRequest
        BY <3>1 DEF Answer, NoRequest
      <3> QED
        BY <3>1, <3>2, AnswerFacts DEF IInv, NoRequest
    <2>3. CASE EvictJob(p)
      BY <2>3 DEF EvictJob
    <2> QED
      BY <2>1, <2>2, <2>3
  <1>4. BlobInv'
    BY <1>2 DEF IInv, BlobInv
  <1>5. SentIsVerified'
    BY <1>2, <1>3 DEF IInv, SentIsVerified, RequestInv
  <1>6. \A q \in Pipelines : stage[q] # "new" => stage'[q] # "new"
    BY <1>3
  <1>7. ASSUME NEW q \in Pipelines, q # p PROVE RequestInv!(q)'
    <2>1. request[q].phase \in RetryPhase => Source(q) \in Pipelines
      BY PhaseFacts DEF IInv, TypeOK, Source
    <2> QED
      BY <1>2, <1>3, <1>6, <1>7, <2>1 DEF IInv, RequestInv, Source
  <1>8. RequestInv!(p)'
    <2>1. request[p].phase \in RetryPhase => Source(p) \in Pipelines
      BY PhaseFacts DEF IInv, TypeOK, Source
    <2> QED
      BY <1>2, <1>3, <1>6, <2>1 DEF IInv, RequestInv, Source, RetryPhase, NoRequest
  <1>9. TaskInv'
    <2>1. \A q \in Pipelines :
            /\ stage'[q] = stage[q] \/ (stage[q] = "new" /\ stage'[q] = "queued")
            /\ described'[q] = described[q] \/ request[q] = NoRequest
      BY <1>2, <1>3
    <2> QED
      BY <1>2, <2>1, TaskInvFrame
  <1>10. RequestInv'
    BY <1>7, <1>8 DEF RequestInv
  <1> QED
    BY <1>1, <1>4, <1>5, <1>9, <1>10 DEF IInv

\* A worker's step, or one of the handler that stores its artifact.
LEMMA TaskKeeps ==
  ASSUME IInv, NEW p \in Pipelines, TaskStep(p) \/ OpenArtifact(p) \/ WriteArtifact(p)
  PROVE  IInv'
  <1>1. TypeOK'
    <2>1. post[p] \in {"open", "writing"} => work[p] # NoFile
      <3>1. stage[p] # "new" => described[p] \in Uploads
        BY DEF IInv, RequestInv, NoRequest
      <3>2. post[p] # "none" => stage[p] # "new"
        BY DEF IInv, TaskInv
      <3> QED
        BY <3>1, <3>2, FileFacts DEF IInv, TaskInv
    <2> QED
      BY <2>1, TaskType DEF IInv
  <1>2. /\ UNCHANGED <<upload, token, blob, request, described, tarball, dir, recorded>>
        /\ \A q \in Pipelines : q # p =>
             /\ stage'[q] = stage[q] /\ task'[q] = task[q] /\ work'[q] = work[q]
             /\ injected'[q] = injected[q] /\ post'[q] = post[q] /\ artifact'[q] = artifact[q]
    BY DEF TaskStep, StartBuild, FetchSubmission, UnpackSubmission, BuildPackage,
       PostArtifact, FinishBuild, FailTask, LoseTask, StartRepo, FetchArtifact, FinishRepo,
       BuildMoves, EndsTask, OpenArtifact, WriteArtifact, Life!StartBuild, Life!FinishBuild,
       Life!StartRepo, Life!FinishRepo, Life!Fail, Life!Lose, Life!Move,
       uploadVars, requestVars, workVars, storeVars, IInv, TypeOK
  <1>3. stage[p] # "new" /\ stage'[p] # "new"
    <2>1. post[p] # "none" => stage[p] # "new"
      BY DEF IInv, TaskInv
    <2> QED
      BY <2>1 DEF TaskStep, StartBuild, FetchSubmission, UnpackSubmission, BuildPackage,
         PostArtifact, FinishBuild, FailTask, LoseTask, StartRepo, FetchArtifact, FinishRepo,
         BuildMoves, OpenArtifact, WriteArtifact, Life!StartBuild, Life!FinishBuild,
         Life!StartRepo, Life!FinishRepo, Life!Fail, Life!Lose, Life!Move, Life!Unfinished,
         IInv, TypeOK
  <1>4. BlobInv' /\ SentIsVerified'
    BY <1>2, <1>3 DEF IInv, BlobInv, SentIsVerified
  <1>5. RequestInv'
    <2>1. \A q \in Pipelines : stage'[q] = "new" <=> stage[q] = "new"
      BY <1>2, <1>3
    <2>2. \A q \in Pipelines : request[q].phase \in RetryPhase => Source(q) \in Pipelines
      BY PhaseFacts DEF IInv, TypeOK, Source
    <2> QED
      BY <1>2, <2>1, <2>2 DEF IInv, RequestInv, Source
  <1>6. described[p] \in Uploads /\ tarball[p] = Whole(described[p])
    BY <1>3, UploadAssumption DEF IInv, SentIsVerified
  <1>7. /\ Whole(described[p]).whole /\ Whole(described[p]).of = described[p]
        /\ ~Part(described[p]).whole /\ ~NoFile.whole
    BY <1>6, FileFacts
  <1>8. TaskInv!(p)'
    <2>1. CASE StartBuild(p) \/ StartRepo(p)
      BY <1>2, <2>1 DEF StartBuild, StartRepo, Life!StartBuild, Life!StartRepo, Life!Move,
         workVars, storeVars, IInv, TypeOK, TaskInv
    <2>2. CASE FetchSubmission(p) \/ UnpackSubmission(p) \/ BuildPackage(p) \/ PostArtifact(p)
      BY <1>2, <1>6, <2>2 DEF FetchSubmission, UnpackSubmission, BuildPackage, PostArtifact,
         BuildMoves, IInv, TypeOK, TaskInv
    <2>3. CASE OpenArtifact(p) \/ WriteArtifact(p)
      BY <1>2, <1>7, <2>3 DEF OpenArtifact, WriteArtifact, workVars, IInv, TypeOK, TaskInv
    <2>4. CASE FinishBuild(p) \/ FailTask(p) \/ LoseTask(p)
      BY <1>2, <2>4 DEF FinishBuild, FailTask, LoseTask, EndsTask, Life!FinishBuild,
         Life!Fail, Life!Lose, Life!Move, storeVars, IInv, TypeOK, TaskInv
    <2>5. CASE FetchArtifact(p)
      BY <1>2, <2>5 DEF FetchArtifact, storeVars, IInv, TypeOK, TaskInv
    <2>6. CASE FinishRepo(p)
      BY <1>2, <2>6 DEF FinishRepo, EndsTask, Life!FinishRepo, Life!Move, storeVars, IInv,
         TypeOK, TaskInv
    <2> QED
      BY <2>1, <2>2, <2>3, <2>4, <2>5, <2>6 DEF TaskStep
  <1>9. ASSUME NEW q \in Pipelines, q # p PROVE TaskInv!(q)'
    BY <1>2, <1>9 DEF IInv, TaskInv
  <1>10. TaskInv'
    BY <1>8, <1>9 DEF TaskInv
  <1> QED
    BY <1>1, <1>4, <1>5, <1>10 DEF IInv

LEMMA CrashKeeps ==
  ASSUME IInv, ChiefCrash
  PROVE  IInv'
  <1>1. TypeOK'
    BY OtherType DEF IInv
  <1>2. /\ UNCHANGED <<token, blob, described, tarball, dir, recorded, stage, task, work,
                       injected, artifact>>
        /\ \A u \in Uploads : upload'[u] = "stored" <=> upload[u] = "stored"
        /\ \A p \in Pipelines :
             post'[p] = post[p] \/ (post[p] \in {"open", "writing"} /\ post'[p] = "broken")
    BY DEF ChiefCrash, workVars, IInv, TypeOK
  <1>3. \A p \in Pipelines :
          \/ request'[p] = request[p]
          \/ /\ request'[p].phase = "dropped" /\ request'[p].from = request[p].from
             /\ request[p] # NoRequest /\ request'[p] # NoRequest
    <2>1. ASSUME NEW p \in Pipelines, request[p].phase \in InFlight
          PROVE  /\ [request[p] EXCEPT !.phase = "dropped"].phase = "dropped"
                 /\ [request[p] EXCEPT !.phase = "dropped"].from = request[p].from
                 /\ request[p] # NoRequest
                 /\ [request[p] EXCEPT !.phase = "dropped"] # NoRequest
      <3>1. request[p] # NoRequest
        BY <2>1 DEF NoRequest, InFlight, SubmitPhase, RetryPhase
      <3>2. request[p] \in [phase : SubmitPhase \cup RetryPhase \cup Copied,
                            from : Uploads \cup Pipelines]
        BY <3>1 DEF IInv, TypeOK, Request
      <3> QED
        BY <3>1, <3>2 DEF NoRequest
    <2> QED
      BY <2>1 DEF ChiefCrash
  <1>4. BlobInv' /\ SentIsVerified'
    BY <1>2 DEF IInv, BlobInv, SentIsVerified
  <1>5. RequestInv'
    <2>1. ASSUME NEW p \in Pipelines PROVE RequestInv!(p)'
      <3>1. Source(p) \in Uploads => upload'[Source(p)] = "stored" \/ upload[Source(p)] # "stored"
        BY <1>2
      <3>2. CASE request'[p] = request[p]
        BY <1>2, <3>1, <3>2 DEF IInv, RequestInv, Source
      <3>3. CASE request'[p] # request[p]
        BY <1>2, <1>3, <3>1, <3>3 DEF IInv, RequestInv, Source, RetryPhase
      <3> QED
        BY <3>2, <3>3
    <2> QED
      BY <2>1 DEF RequestInv
  <1>6. TaskInv'
    BY <1>2 DEF IInv, TaskInv
  <1> QED
    BY <1>1, <1>4, <1>5, <1>6 DEF IInv

LEMMA StepInv == IInv /\ [Next]_vars => IInv'
  <1> SUFFICES ASSUME IInv, [Next]_vars PROVE IInv'
    OBVIOUS
  <1>1. ASSUME NEW u \in Uploads, UploadStep(u) PROVE IInv'
    BY <1>1, UploadKeeps
  <1>2. ASSUME NEW p \in Pipelines, NEW u \in Uploads, BeginSubmission(p, u) PROVE IInv'
    BY <1>2, BeginKeeps
  <1>3. ASSUME NEW p \in Pipelines, NEW old \in Pipelines, BeginRetry(p, old) PROVE IInv'
    BY <1>3, BeginKeeps
  <1>4. ASSUME NEW p \in Pipelines, RequestStep(p) \/ EvictJob(p) PROVE IInv'
    BY <1>4, RequestKeeps, SendKeeps DEF RequestStep
  <1>5. ASSUME NEW p \in Pipelines, TaskStep(p) \/ OpenArtifact(p) \/ WriteArtifact(p)
        PROVE  IInv'
    BY <1>5, TaskKeeps
  <1>6. CASE ChiefCrash
    BY <1>6, CrashKeeps
  <1>7. CASE UNCHANGED vars
    <2>1. TypeOK'
      BY <1>7, OtherType DEF IInv
    <2> QED
      BY <1>7, <2>1 DEF vars, uploadVars, requestVars, workVars, storeVars, IInv, BlobInv,
         RequestInv, SentIsVerified, TaskInv, Source
  <1> QED
    BY <1>1, <1>2, <1>3, <1>4, <1>5, <1>6, <1>7 DEF Next

LEMMA Invariance == Spec => []IInv
  BY InitInv, StepInv, PTL DEF Spec

\* Every reachable state has the types TypeOK gives.
THEOREM TypeCorrect == Spec => []TypeOK
  <1>1. IInv => TypeOK
    BY DEF IInv
  <1> QED
    BY <1>1, Invariance, PTL

\* A pipeline in the queue, or past it, has the whole tarball it is described by at
\* the builders' place, and a registered maintainer signed it: submission.go:45-227.
THEOREM QueuedIsVerified == Spec => []SentIsVerified
  <1>1. IInv => SentIsVerified
    BY DEF IInv
  <1> QED
    BY <1>1, Invariance, PTL

\* A finished pipeline injected the whole artifact built from what was submitted:
\* builder.go:109-266, upload.go:27-79, repo.go:86-102.
THEOREM InjectsSubmitted == Spec => []InjectedIsSubmitted
  <1>1. IInv => InjectedIsSubmitted
    BY DEF IInv, TaskInv, InjectedIsSubmitted
  <1> QED
    BY <1>1, Invariance, PTL

\* Only a move gives a pipeline an uploaded tarball.
LEMMA OnlyMoveTakes ==
  ASSUME IInv, [Next]_vars, ~\E p \in Pipelines : MoveTarball(p), NEW q \in Pipelines,
         request'[q].from \in Uploads, tarball'[q] # NoFile
  PROVE  request'[q].from = request[q].from /\ tarball'[q] = tarball[q]
  <1>1. ASSUME NEW p \in Pipelines, RequestStep(p)
        PROVE  request'[q].from = request[q].from /\ tarball'[q] = tarball[q]
    <2>1. PICK from, to : from \in InFlight /\ Answer(p, from, to)
      BY <1>1 DEF RequestStep, MoveTarball, ExtractSubmission, MoveToken,
         VerifySignedSubmission, OpenCopy, CopyTarball, CopyDir, SendBuildChain, RecordJob,
         Reject, InFlight, SubmitPhase, RetryPhase
    <2>2. request[p] # NoRequest /\ request[p].phase = from
      BY <2>1 DEF Answer, NoRequest, InFlight, SubmitPhase, RetryPhase
    <2>3. request'[q].from = request[q].from
      BY <2>1, <2>2, AnswerFacts DEF IInv
    <2>4. tarball'[q] = tarball[q] \/ (q = p /\ request[p].phase \in RetryPhase)
      BY <1>1 DEF RequestStep, ExtractSubmission, MoveToken, VerifySignedSubmission,
         OpenCopy, CopyTarball, CopyDir, SendBuildChain, RecordJob, Reject, Answer,
         RetryPhase, IInv, TypeOK
    <2> QED
      BY <2>3, <2>4, PhaseFacts DEF IInv, TypeOK
  <1>2. ASSUME NEW p \in Pipelines, NEW from, BeginSubmission(p, from) \/ BeginRetry(p, from)
        PROVE  request'[q].from = request[q].from /\ tarball'[q] = tarball[q]
    <2>1. tarball' = tarball /\ request[p] = NoRequest /\ tarball[p] = NoFile
      BY <1>2 DEF BeginSubmission, BeginRetry, IInv, RequestInv
    <2> QED
      BY <1>2, <2>1 DEF BeginSubmission, BeginRetry, IInv, TypeOK
  <1>3. ASSUME \/ \E u \in Uploads : UploadStep(u)
               \/ \E p \in Pipelines : \/ EvictJob(p) \/ TaskStep(p)
                                       \/ OpenArtifact(p) \/ WriteArtifact(p)
               \/ UNCHANGED vars
        PROVE  UNCHANGED <<request, tarball>>
    BY <1>3 DEF UploadStep, WriteToken, VerifyToken, CreateBlob, ReceiveBlob, UploadMoves,
       EvictJob, TaskStep, StartBuild, FetchSubmission, UnpackSubmission, BuildPackage,
       PostArtifact, FinishBuild, FailTask, LoseTask, StartRepo, FetchArtifact, FinishRepo,
       BuildMoves, EndsTask, OpenArtifact, WriteArtifact, requestVars, vars
  <1>4. CASE ChiefCrash
    <2>1. tarball' = tarball
      BY <1>4 DEF ChiefCrash
    <2>2. CASE request[q].phase \in InFlight
      <3>1. request[q] \in [phase : SubmitPhase \cup RetryPhase \cup Copied,
                            from : Uploads \cup Pipelines]
        BY <2>2 DEF IInv, TypeOK, Request, NoRequest, InFlight, SubmitPhase, RetryPhase
      <3> QED
        BY <1>4, <2>1, <2>2, <3>1 DEF ChiefCrash
    <2> QED
      BY <1>4, <2>1, <2>2 DEF ChiefCrash
  <1> QED
    BY <1>1, <1>2, <1>3, <1>4 DEF Next

\* The rename in SubmitPackage gives an uploaded tarball to one pipeline only, however
\* many submissions name it.
THEOREM TakenOnce == Spec => []UploadTakenOnce
  <1>1. Init => UploadTakenOnce
    BY DEF Init, UploadTakenOnce
  <1>2. ASSUME IInv, [Next]_vars, UploadTakenOnce PROVE UploadTakenOnce'
    <2>1. CASE \E p \in Pipelines : MoveTarball(p)
      <3>1. PICK p \in Pipelines : MoveTarball(p)
        BY <2>1
      <3>2. request[p] # NoRequest
        BY <3>1 DEF MoveTarball, Answer, NoRequest
      <3>3. \A q \in Pipelines : request'[q].from = request[q].from
        BY <1>2, <3>1, <3>2, AnswerFacts DEF MoveTarball, IInv
      <3>4. \A q \in Pipelines : q # p => tarball'[q] = tarball[q]
        BY <1>2, <3>1 DEF MoveTarball, MoveFile, IInv, TypeOK
      <3>5. \A q \in Pipelines :
              request[q].from \in Uploads /\ request[q].from = request[p].from
              => tarball[q] = NoFile
        BY <1>2, <3>1 DEF MoveTarball, MoveFile, IInv, RequestInv, Source
      <3> QED
        BY <1>2, <3>3, <3>4, <3>5 DEF UploadTakenOnce, Source
    <2>2. CASE ~\E p \in Pipelines : MoveTarball(p)
      BY <1>2, <2>2, OnlyMoveTakes DEF UploadTakenOnce, Source
    <2> QED
      BY <2>1, <2>2
  <1> QED
    BY <1>1, <1>2, Invariance, PTL DEF Spec

\* No step takes a stored artifact away: upload.go:41 truncates what it will only then
\* receive, and a second post of one artifact never comes.
THEOREM StoredArtifactStays == Spec => StoredStays
  <1>1. ASSUME IInv, [Next]_vars
        PROVE  \A p \in Pipelines : artifact[p].whole => artifact'[p] = artifact[p]
    <2>1. \A p \in Pipelines : artifact[p].whole => post[p] = "stored"
      BY <1>1 DEF IInv, TaskInv
    <2>2. ASSUME NEW q \in Pipelines, OpenArtifact(q) \/ WriteArtifact(q)
          PROVE  post[q] # "stored" /\ \A p \in Pipelines : p # q => artifact'[p] = artifact[p]
      BY <1>1, <2>2 DEF OpenArtifact, WriteArtifact, IInv, TypeOK
    <2>3. \/ artifact' = artifact
          \/ \E q \in Pipelines : OpenArtifact(q) \/ WriteArtifact(q)
      BY <1>1 DEF Next, UploadStep, WriteToken, VerifyToken, CreateBlob, ReceiveBlob,
         UploadMoves, BeginSubmission, BeginRetry, RequestStep, MoveTarball,
         ExtractSubmission, MoveToken, VerifySignedSubmission, OpenCopy, CopyTarball,
         CopyDir, SendBuildChain, RecordJob, Reject, EvictJob, TaskStep, StartBuild,
         FetchSubmission, UnpackSubmission, BuildPackage, PostArtifact, FinishBuild,
         FailTask, LoseTask, StartRepo, FetchArtifact, FinishRepo, BuildMoves, EndsTask,
         ChiefCrash, vars, storeVars
    <2> QED
      BY <2>1, <2>2, <2>3
  <1> QED
    BY <1>1, Invariance, PTL DEF Spec, StoredStays
=============================================================================
