----------------------------- MODULE Artifacts ------------------------------
(***************************************************************************)
(* The files of a pipeline: what a client uploads, what the chief moves or *)
(* copies for a submission or a retry, what the builder downloads and posts *)
(* back, and what the repo worker unpacks. Queueing is left to              *)
(* AbstractPipeline, which Pipeline is shown to implement: a task starts,    *)
(* ends or is lost here exactly when it does there.                         *)
(*                                                                          *)
(* A file is abstracted to the upload its content comes from, and whether   *)
(* it is all there. Handlers of the chief stop at every file or network     *)
(* operation; the chief may die at each, and so may a worker.               *)
(***************************************************************************)
CONSTANTS
  Pipelines,    \* task UUIDs
  Uploads,      \* ids given out by UploadSubmission
  Signed,       \* the uploads whose .dsc carries a registered maintainer's signature
  NoUpload      \* not an upload

\* An upload's id is a bare UUID, a task UUID begins with a timestamp.
ASSUME UploadAssumption ==
  Signed \subseteq Uploads /\ NoUpload \notin Uploads /\ Pipelines \cap Uploads = {}

VARIABLES
  upload,       \* how far the handler of an upload is
  token,        \* the ids whose submissions/<id>.token exists
  blob,         \* submissions/<id>.tar.gz, the uploaded tarball
  request,      \* how far the handler of a submission or retry is
  described,    \* the upload that a pipeline's payload and row describe
  tarball,      \* submissions/<task UUID>.tar.gz
  dir,          \* submissions/<task UUID>/, the extracted tarball
  recorded,     \* the pipelines that have a row in the jobs table
  stage,        \* the pipeline as AbstractPipeline sees it
  task,         \* how far the pipeline's current task is with its files
  work,         \* the task's directory on the worker
  post,         \* how far the artifact's upload handler is
  artifact,     \* the chief's artifacts/<task UUID>.tar.gz
  injected      \* what the repo task put into the package repository

uploadVars  == <<upload, token, blob>>
requestVars == <<request, described, tarball, dir, recorded>>
workVars    == <<task, work, injected>>
storeVars   == <<post, artifact>>
vars == <<uploadVars, requestVars, stage, workVars, storeVars>>

Life == INSTANCE AbstractPipeline

NoFile   == [of |-> NoUpload, whole |-> FALSE]
Whole(u) == [of |-> u, whole |-> TRUE]
Part(u)  == [of |-> u, whole |-> FALSE]
File     == [of : Uploads, whole : BOOLEAN] \cup {NoFile}

UploadPhase  == {"new", "signing", "verified", "receiving", "stored", "refused", "dropped"}
SubmitPhase  == {"made", "moved", "extracted", "tokened"}
RetryPhase   == {"copying", "partial", "copied"}
Copied       == {"ready", "sent", "accepted", "rejected", "dropped"}
InFlight     == SubmitPhase \cup RetryPhase \cup {"ready", "sent"}
NoRequest    == [phase |-> "new", from |-> NoUpload]
Request      == {NoRequest} \cup [phase : SubmitPhase \cup Copied, from : Uploads]
                            \cup [phase : RetryPhase \cup Copied, from : Pipelines]
TaskPhase    == {"idle", "started", "fetched", "unpacked", "built", "posting"}
PostPhase    == {"none", "open", "writing", "stored", "refused", "broken"}

TypeOK ==
  /\ upload \in [Uploads -> UploadPhase]
  /\ token \subseteq Uploads
  /\ blob \in [Uploads -> File]
  /\ request \in [Pipelines -> Request]
  /\ described \in [Pipelines -> Uploads \cup {NoUpload}]
  /\ tarball \in [Pipelines -> File]
  /\ dir \in [Pipelines -> File]
  /\ recorded \subseteq Pipelines
  /\ stage \in [Pipelines -> Life!Stage]
  /\ task \in [Pipelines -> TaskPhase]
  /\ work \in [Pipelines -> File]
  /\ post \in [Pipelines -> PostPhase]
  /\ artifact \in [Pipelines -> File]
  /\ injected \in [Pipelines -> File]

Init ==
  /\ upload = [u \in Uploads |-> "new"]
  /\ token = {}
  /\ blob = [u \in Uploads |-> NoFile]
  /\ request = [p \in Pipelines |-> NoRequest]
  /\ described = [p \in Pipelines |-> NoUpload]
  /\ tarball = [p \in Pipelines |-> NoFile]
  /\ dir = [p \in Pipelines |-> NoFile]
  /\ recorded = {}
  /\ Life!Init
  /\ task = [p \in Pipelines |-> "idle"]
  /\ work = [p \in Pipelines |-> NoFile]
  /\ post = [p \in Pipelines |-> "none"]
  /\ artifact = [p \in Pipelines |-> NoFile]
  /\ injected = [p \in Pipelines |-> NoFile]

-----------------------------------------------------------------------------
(* UploadSubmission: the token is written and verified before the tarball.  *)

UploadMoves(u, from, to) ==
  /\ upload[u] = from
  /\ upload' = [upload EXCEPT ![u] = to]
  /\ UNCHANGED <<requestVars, stage, workVars, storeVars>>

\* A failing write leaves the token file behind.
WriteToken(u) ==
  /\ \/ UploadMoves(u, "new", "signing") /\ token' = token \cup {u}
     \/ UploadMoves(u, "new", "refused") /\ token' \in {token, token \cup {u}}
  /\ UNCHANGED blob

VerifyToken(u) ==
  /\ \/ UploadMoves(u, "signing", "verified") /\ UNCHANGED token
     \/ UploadMoves(u, "signing", "refused") /\ token' = token \ {u}
  /\ UNCHANGED blob

\* os.Create of the tarball; when it fails the token stays.
CreateBlob(u) ==
  /\ \/ UploadMoves(u, "verified", "receiving") /\ blob' = [blob EXCEPT ![u] = Part(u)]
     \/ UploadMoves(u, "verified", "refused") /\ UNCHANGED blob
  /\ UNCHANGED token

\* The copy of the body: complete, or given up with both files removed (wrong
\* type, failing write) or both left (failing first read).
ReceiveBlob(u) ==
  \/ /\ UploadMoves(u, "receiving", "stored")
     /\ blob' = [blob EXCEPT ![u] = Whole(u)]
     /\ UNCHANGED token
  \/ /\ UploadMoves(u, "receiving", "refused")
     /\ \/ blob' = [blob EXCEPT ![u] = NoFile] /\ token' = token \ {u}
        \/ UNCHANGED <<blob, token>>

-----------------------------------------------------------------------------
(* SubmitPackage and RetryPipeline.                                         *)

Source(p) == request[p].from

Answer(p, from, to) ==
  /\ request[p].phase = from
  /\ request' = [request EXCEPT ![p].phase = to]

\* An error return from phase ph.
Reject(p, ph) ==
  /\ Answer(p, ph, "rejected")
  /\ UNCHANGED <<uploadVars, described, tarball, dir, recorded, stage, workVars, storeVars>>

\* A client submits an upload whose id it was told, perhaps not for the first time.
BeginSubmission(p, u) ==
  /\ request[p] = NoRequest
  /\ upload[u] = "stored"
  /\ request' = [request EXCEPT ![p] = [phase |-> "made", from |-> u]]
  /\ described' = [described EXCEPT ![p] = u]
  /\ UNCHANGED <<uploadVars, tarball, dir, recorded, stage, workVars, storeVars>>

\* Mutant: the uploaded tarball is copied.
CopyUpload(p) ==
  /\ blob[Source(p)] # NoFile
  /\ tarball' = [tarball EXCEPT ![p] = blob[Source(p)]]
  /\ UNCHANGED blob

\* MoveFile within one storage directory: one rename. When it fails, because the file is
\* gone, the fallback copy is tried and fails at opening the same file.
MoveFile(p) ==
  /\ blob[Source(p)] # NoFile
  /\ tarball' = [tarball EXCEPT ![p] = blob[Source(p)]]
  /\ blob' = [blob EXCEPT ![Source(p)] = NoFile]

MoveTarball(p) ==
  /\ Answer(p, "made", "moved")
  /\ MoveFile(p)
  /\ UNCHANGED <<upload, token, described, dir, recorded, stage, workVars, storeVars>>

ExtractSubmission(p) ==
  /\ Answer(p, "moved", "extracted")
  /\ tarball[p].whole
  /\ dir' = [dir EXCEPT ![p] = tarball[p]]
  /\ UNCHANGED <<uploadVars, described, tarball, recorded, stage, workVars, storeVars>>

MoveToken(p) ==
  /\ Answer(p, "extracted", "tokened")
  /\ Source(p) \in token
  /\ token' = token \ {Source(p)}
  /\ UNCHANGED <<upload, blob, described, tarball, dir, recorded, stage, workVars, storeVars>>

\* Mutant: the signature is not looked at.
SkipVerification(p) ==
  /\ Answer(p, "tokened", "ready")
  /\ UNCHANGED <<uploadVars, described, tarball, dir, recorded, stage, workVars, storeVars>>

VerifySignedSubmission(p) ==
  /\ Answer(p, "tokened", "ready")
  /\ dir[p].of \in Signed
  /\ UNCHANGED <<uploadVars, described, tarball, dir, recorded, stage, workVars, storeVars>>

\* Mutant: a retry goes the way of a submission, as if the old UUID named an upload.
RetryAsSubmission(p, old) ==
  /\ request[p] = NoRequest
  /\ old \in recorded
  /\ request' = [request EXCEPT ![p] = [phase |-> "made", from |-> old]]
  /\ described' = [described EXCEPT ![p] = described[old]]
  /\ UNCHANGED <<uploadVars, tarball, dir, recorded, stage, workVars, storeVars>>

\* A retry takes its description from the old pipeline's row, whatever state
\* that pipeline is in.
BeginRetry(p, old) ==
  /\ request[p] = NoRequest
  /\ old \in recorded
  /\ request' = [request EXCEPT ![p] = [phase |-> "copying", from |-> old]]
  /\ described' = [described EXCEPT ![p] = described[old]]
  /\ UNCHANGED <<uploadVars, tarball, dir, recorded, stage, workVars, storeVars>>

\* sudo cp of the old tarball, if it is still there: what a cp that fails, or a
\* chief that dies, leaves is a part of it.
OpenCopy(p) ==
  /\ request[p].phase = "copying"
  /\ tarball[Source(p)] # NoFile
  /\ Answer(p, "copying", "partial")
  /\ tarball' = [tarball EXCEPT ![p] = Part(tarball[Source(p)].of)]
  /\ UNCHANGED <<uploadVars, described, dir, recorded, stage, workVars, storeVars>>

\* Mutant: the error of cp is only logged, like that of chown.
IgnoreCopyError(p) ==
  /\ Answer(p, "partial", "copied")
  /\ \E f \in {tarball[Source(p)], tarball[p]} : tarball' = [tarball EXCEPT ![p] = f]
  /\ UNCHANGED <<uploadVars, described, dir, recorded, stage, workVars, storeVars>>

CopyTarball(p) ==
  /\ Answer(p, "partial", "copied")
  /\ tarball' = [tarball EXCEPT ![p] = tarball[Source(p)]]
  /\ UNCHANGED <<uploadVars, described, dir, recorded, stage, workVars, storeVars>>

\* sudo cp -r of the old directory, if there is one.
CopyDir(p) ==
  /\ Answer(p, "copied", "ready")
  /\ dir' = [dir EXCEPT ![p] = dir[Source(p)]]
  /\ UNCHANGED <<uploadVars, described, tarball, recorded, stage, workVars, storeVars>>

\* The chain is sent; an error may be returned all the same.
SendBuildChain(p) ==
  /\ \E answer \in {"sent", "rejected"} : Answer(p, "ready", answer)
  /\ Life!Send(p)
  /\ UNCHANGED <<uploadVars, described, tarball, dir, recorded, workVars, storeVars>>

\* A failing insertion is logged.
RecordJob(p) ==
  /\ Answer(p, "sent", "accepted")
  /\ recorded' \in {recorded, recorded \cup {p}}
  /\ UNCHANGED <<uploadVars, described, tarball, dir, stage, workVars, storeVars>>

\* A later submission evicts the row.
EvictJob(p) ==
  /\ recorded' = recorded \ {p}
  /\ UNCHANGED <<uploadVars, request, described, tarball, dir, stage, workVars, storeVars>>

-----------------------------------------------------------------------------
(* Build: fetch, unpack, build, post. An error at any step ends the task.   *)

StartBuild(p) ==
  /\ Life!StartBuild(p)
  /\ task' = [task EXCEPT ![p] = "started"]
  /\ UNCHANGED <<uploadVars, requestVars, work, injected, storeVars>>

BuildMoves(p, from, to) ==
  /\ stage[p] = "building"
  /\ task[p] = from
  /\ task' = [task EXCEPT ![p] = to]
  /\ UNCHANGED <<uploadVars, requestVars, stage, injected, artifact>>

\* curl without --fail: where there is no tarball an error page is saved, which is
\* NoFile to the tar that follows.
FetchSubmission(p) ==
  /\ BuildMoves(p, "started", "fetched")
  /\ work' = [work EXCEPT ![p] = tarball[p]]
  /\ UNCHANGED post

\* tar -xvf, then the build in its container, each of which may fail instead.
UnpackSubmission(p) ==
  /\ BuildMoves(p, "fetched", "unpacked")
  /\ work[p].whole
  /\ UNCHANGED <<work, post>>

BuildPackage(p) ==
  /\ BuildMoves(p, "unpacked", "built")
  /\ UNCHANGED <<work, post>>

\* Mutant: curl --retry, which posts again when an answer does not come in time.
PostAgain(p) ==
  /\ \/ BuildMoves(p, "built", "posting")
     \/ BuildMoves(p, "posting", "posting")
  /\ post' = [post EXCEPT ![p] = "open"]
  /\ UNCHANGED work

\* StorePackage: the request to the chief.
PostArtifact(p) ==
  /\ BuildMoves(p, "built", "posting")
  /\ post' = [post EXCEPT ![p] = "open"]
  /\ UNCHANGED work

\* UploadArtifact in the chief: refused before anything is written, or the
\* target is created (and truncated) under its final name.
OpenArtifact(p) ==
  /\ post[p] = "open"
  /\ \/ /\ post' = [post EXCEPT ![p] = "refused"]
        /\ UNCHANGED artifact
     \/ /\ post' = [post EXCEPT ![p] = "writing"]
        /\ artifact' = [artifact EXCEPT ![p] = Part(work[p].of)]
  /\ UNCHANGED <<uploadVars, requestVars, stage, workVars>>

\* The copy completes, or the file is removed and an error answered.
WriteArtifact(p) ==
  /\ post[p] = "writing"
  /\ \/ /\ post' = [post EXCEPT ![p] = "stored"]
        /\ artifact' = [artifact EXCEPT ![p] = Whole(work[p].of)]
     \/ /\ post' = [post EXCEPT ![p] = "refused"]
        /\ artifact' = [artifact EXCEPT ![p] = NoFile]
  /\ UNCHANGED <<uploadVars, requestVars, stage, workVars>>

EndsTask(p) ==
  /\ task' = [task EXCEPT ![p] = "idle"]
  /\ UNCHANGED <<uploadVars, requestVars, work, storeVars>>

\* curl without --fail: any answer of the chief, also a refusal, is success.
FinishBuild(p) ==
  /\ task[p] = "posting"
  /\ post[p] \in {"stored", "refused"}
  /\ Life!FinishBuild(p)
  /\ EndsTask(p)
  /\ UNCHANGED injected

\* A command of either task fails; that includes an answer that never arrives.
FailTask(p) ==
  /\ Life!Fail(p)
  /\ EndsTask(p)
  /\ UNCHANGED injected

\* The pipeline's message is lost, with the worker that held it or without.
LoseTask(p) ==
  /\ Life!Lose(p)
  /\ EndsTask(p)
  /\ UNCHANGED injected

-----------------------------------------------------------------------------
(* Repo: fetch and unpack the artifact, inject it.                          *)

StartRepo(p) ==
  /\ Life!StartRepo(p)
  /\ task' = [task EXCEPT ![p] = "started"]
  /\ UNCHANGED <<uploadVars, requestVars, work, injected, storeVars>>

\* Mutant: wget and tar in one pipeline of which nobody looks at the status.
FetchWithoutStatus(p) ==
  /\ stage[p] = "injecting" /\ task[p] = "started"
  /\ task' = [task EXCEPT ![p] = "unpacked"]
  /\ work' = [work EXCEPT ![p] = artifact[p]]
  /\ UNCHANGED <<uploadVars, requestVars, stage, injected, storeVars>>

\* wget, which fails where there is no file, and tar, which fails on a part.
FetchArtifact(p) ==
  /\ stage[p] = "injecting" /\ task[p] = "started"
  /\ artifact[p].whole
  /\ task' = [task EXCEPT ![p] = "unpacked"]
  /\ work' = [work EXCEPT ![p] = artifact[p]]
  /\ UNCHANGED <<uploadVars, requestVars, stage, injected, storeVars>>

FinishRepo(p) ==
  /\ task[p] = "unpacked"
  /\ Life!FinishRepo(p)
  /\ injected' = [injected EXCEPT ![p] = work[p]]
  /\ EndsTask(p)

-----------------------------------------------------------------------------
\* The chief dies: its handlers are gone, what they had written so far stays,
\* and the builders' connections break.
ChiefCrash ==
  /\ upload' = [u \in Uploads |->
       IF upload[u] \in {"signing", "verified", "receiving"} THEN "dropped" ELSE upload[u]]
  /\ request' = [p \in Pipelines |->
       IF request[p].phase \in InFlight
       THEN [request[p] EXCEPT !.phase = "dropped"] ELSE request[p]]
  /\ post' = [p \in Pipelines |->
       IF post[p] \in {"open", "writing"} THEN "broken" ELSE post[p]]
  /\ UNCHANGED <<token, blob, described, tarball, dir, recorded, stage, workVars, artifact>>

UploadStep(u) == WriteToken(u) \/ VerifyToken(u) \/ CreateBlob(u) \/ ReceiveBlob(u)

RequestStep(p) ==
  \/ MoveTarball(p) \/ ExtractSubmission(p) \/ MoveToken(p) \/ VerifySignedSubmission(p)
  \/ OpenCopy(p) \/ CopyTarball(p) \/ CopyDir(p) \/ SendBuildChain(p) \/ RecordJob(p)
  \/ \E ph \in InFlight \ {"sent"} : Reject(p, ph)

TaskStep(p) ==
  \/ StartBuild(p) \/ FetchSubmission(p) \/ UnpackSubmission(p) \/ BuildPackage(p)
  \/ PostArtifact(p) \/ FinishBuild(p) \/ FailTask(p) \/ LoseTask(p)
  \/ StartRepo(p) \/ FetchArtifact(p) \/ FinishRepo(p)

Next ==
  \/ \E u \in Uploads : UploadStep(u)
  \/ \E p \in Pipelines, u \in Uploads : BeginSubmission(p, u)
  \/ \E p, old \in Pipelines : BeginRetry(p, old)
  \/ \E p \in Pipelines : RequestStep(p) \/ EvictJob(p) \/ TaskStep(p)
  \/ \E p \in Pipelines : OpenArtifact(p) \/ WriteArtifact(p)
  \/ ChiefCrash

Spec == Init /\ [][Next]_vars

-----------------------------------------------------------------------------
\* A pipeline in the queue, or past it, has the whole tarball it is described by
\* at the place where builders fetch it, and a registered maintainer signed it:
\* racing submissions of one upload, crashed handlers and retries, which verify
\* nothing themselves, notwithstanding.
SentIsVerified ==
  \A p \in Pipelines : stage[p] # "new" =>
    described[p] \in Signed /\ tarball[p] = Whole(described[p])

\* What the repo task injects is the whole artifact built from what the pipeline
\* was submitted with, also when the chief died while it wrote the artifact or
\* refused it and the build counted as a success.
InjectedIsSubmitted ==
  \A p \in Pipelines : stage[p] = "done" => injected[p] = Whole(described[p])

\* Of the submissions that name one upload - a client's second attempt, or two at
\* once - at most one gets the uploaded tarball.
UploadTakenOnce ==
  \A p, q \in Pipelines :
    /\ tarball[p] # NoFile /\ tarball[q] # NoFile
    /\ Source(p) \in Uploads /\ Source(p) = Source(q)
    => p = q

\* A stored artifact is not truncated or replaced while its pipeline lives on.
StoredStays ==
  [][\A p \in Pipelines : artifact[p].whole => artifact'[p] = artifact[p]]_vars

\* builder.go reports a failing artifact upload as a failed build: a pipeline
\* whose build succeeded has its artifact in the chief's store.
BuiltMeansStored == \A p \in Pipelines : stage[p] = "built" => artifact[p].whole
=============================================================================
