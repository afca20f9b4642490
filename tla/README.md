# A TLA+ model of irgsh-go

irgsh-go builds Debian packages for BlankOn: a command-line client sends signed
source packages to a *chief*, which hands them to *builder* workers and then to
*repo* workers that inject the result into a reprepro repository. This directory
holds TLA+ modules that model the program, the TLC configurations that check
them on small instances, and proofs that TLAPS checks for all instances.

## 1. The system

| component | state it keeps | operations | interacts with |
|---|---|---|---|
| chief, submission (`internal/chief/usecase/submission.go`) | files under `submissions/` | `SubmitPackage`, `RetryPipeline`, `BuildISO` | files, GPG, task queue, job storage |
| chief, uploads (`usecase/upload.go`) | files under `submissions/`, `artifacts/`, `logs/` | `UploadSubmission`, `UploadArtifact`, `UploadLog` | CLI and workers over HTTP |
| chief, status and dashboard (`usecase/status.go`, `usecase/dashboard.go`, `domain/status.go`) | none of its own | `BuildStatus`, `ISOStatus`, `resolveJobStates` | machinery's result backend, job storage, registry |
| task queue adapter (`internal/chief/repository/machinery.go`) and machinery (a library) | Redis: the list `irgsh`, one entry per task UUID | `SendBuildChain`, `SendISOTask`, `GetTaskState`; the workers' consume loop | chief, all workers |
| job storage (`internal/storage/*.go`) | SQLite tables `jobs`, `iso_jobs` | `RecordJob`, `UpdateJobState`, `UpdateJobStages`, `GetRecentJobs`, eviction | chief |
| builder (`cmd/builder`) | a work directory per task | `Build` = download, build in a container, upload artifact and log | chief over HTTP |
| repo (`cmd/repo`) | the reprepro repository | `Repo` = download, remove old versions, inject .deb and .dsc, export | chief over HTTP |
| iso worker (`cmd/iso`) | an output directory | `BuildISO` | chief over HTTP |
| instance registry (`internal/monitoring`) | Redis: one key per instance, a global and a per-type index | heartbeat, list, cleanup | all workers, chief |
| notifications (`internal/notification`, `pkg/httputil`) | none | webhook with retries | an external receiver |
| CLI (`internal/cli`, `cmd/cli`) | last pipeline ids, a git cache with a lock file per entry | submit, status, log, retry, ISO, update | chief over HTTP, git |
| maintainers, artifact listing, configuration, metrics | none | reads only | GPG, files, /proc |

What is hard here: the chief serves requests concurrently, and each request is a
row of calls to Redis, SQLite and the file system with no transaction around
them; workers are separate processes on one shared Redis list, whose library
acknowledges nothing; the two tasks of a pipeline share one UUID and therefore
one result entry; entries and keys expire; a dashboard render writes what it
derived from stale reads; and every process may die between two calls.

What makes each component correct:

* *Submission and queue*: a pipeline is built once and injected once, and only
  after its own build succeeded; nothing but a crash or a failed call loses it.
* *Status and dashboard*: what is answered or stored is true of the pipeline,
  although it is derived from two reads of an entry that others write; a stored
  final state stays; it is eventually stored.
* *Job storage*: only the oldest rows are evicted; late writers change nothing.
* *Uploads, builder, repo*: what a successful build stored is what the repo worker
  injects; a failure leaves neither a truncated artifact nor half a version.
* *Registry*: a live instance is listed, a dead one disappears from the
  listings: its key and its entry in the global index go (the type index keeps it when
  the host's name has a dash, see section 4).
* *CLI cache*: a copy handed to a build is a complete checkout of the branch.
* *CLI*: a command starts one pipeline; a saved id names the pipeline that it stands for.

The hazards of the code, each at its line, are listed in `PROJECT.json`.

## 2. The plan

| step | modules | what they say | status |
|---|---|---|---|
| 1 | `TaskStates`, `JobTable`, `Pipeline`, `AbstractPipeline` | the life of a package pipeline: chief, Redis, workers, table, readers | done |
| 2 | `RecencyLemmas`, `PipelineSafety`, `PipelineRefinement` | its type, its safety, its table's eviction and its refinement, for all constants | done |
| 3 | `Artifacts`, `ArtifactsProofs` | uploads, submission's file moves, retry's copies, the builder's and repo's transfers: what is injected was built from what a maintainer signed | done |
| 4 | `RepoInject`, `RepoInjectProofs` | the commands of `Repo`, `InitRepo` and `UpdateRepo` on the contents of the package repository, with failures, deaths and retries between them | done |
| 5 | `InstanceRegistry`, `InstanceRegistryProofs` | heartbeats against the cleanup and the listings, on keys that expire and two indices | done |
| 6 | `AtomicSync`, `GitCache`, `Client`, `ClientProofs` | several CLI processes on one git cache with its lock, and on the files with the last ids; their requests to the chief; what a Sync promises its caller | done |
| 7 | `AbstractISO`, `IsoPipeline`, `Followers`, `FollowersProofs` | the one-task pipeline with its table, image, log and webhook, and what it promises; the commands that follow pipelines | done |

The composition: `Pipeline` and `IsoPipeline` extend `TaskStates`; `Pipeline` uses
`JobTable` and implements `AbstractPipeline`, with which `Artifacts` is composed:
its tasks start, end and get lost exactly as there. `Client` extends `GitCache`,
whose steps it interleaves with those of the commands and which implements
`AtomicSync`, and `Followers` extends `IsoPipeline`, whose tasks its commands submit
and follow and which implements `AbstractISO`. `RepoInject` and
`InstanceRegistry` stand alone: nothing else writes the package repository or the
instance keys. None of the modules uses a RECURSIVE operator.

What could come next: the builder's base image (`init.go`), several repository
components, a table with more unfinished rows than a render looks at, and an
abstract set of live instances that `InstanceRegistry` implements up to its delays.

## 3. What is modelled

### TaskStates and JobTable
`TaskStates` has the functions that turn two task states into a pipeline's:
`DeriveBuildPipelineState`, `DeriveCurrentStage`, the switch of
`resolveJobStates` (`OverallState`) and `IsTerminalState`. The empty string of
the code is `"none"`. `JobTable` has every SQL statement of `storage/jobs.go` as
an operator on a function from UUIDs to rows. Of a row it keeps the four columns
that change; the package's metadata is left out.

### Pipeline
One action per call that another process may get in between.

| variable | in the program |
|---|---|
| `chief[p]` | how far the handler of pipeline p's submission or retry is |
| `submittedAt`, `clock` | the timestamp the row carries; `clock` is the chief's `time.Now`, advanced by each submission |
| `backend[p]` | the Redis entry with key p; ONE per pipeline, because both signatures of a chain carry the same UUID (`machinery.go:19-27`) |
| `queue[t][p]` | copies of task t of pipeline p in the Redis list `irgsh` |
| `worker[w]` | the message a worker process holds and its step in machinery's `Worker.Process` |
| `jobs[p]` | p's row in SQLite |
| `reader[r]` | a status request, or a dashboard render at one of its rows |
| `run`, `published`, `lost` | history: what became of each task function, which chains were pushed, which messages died |

* *Submission*: `BeginSubmission`, `RejectSubmission` (any error return before the
  queue), `SetStatePending` and `SendBuildChain` (the two Redis calls of
  `SendChain`; a push whose reply is lost is answered 500 and takes effect all the
  same), `RecordJob` and `CleanupJobs` (two statements; errors are logged and the
  submission still succeeds). A retry takes the same steps under a new UUID.
* *Workers*: `Take` (BLPOP), `Requeue` (a task the worker has not registered),
  `SetStateReceived`, `StartTask`, `TaskReturns`, `SetStateFailure`,
  `SetStateSuccess`, `ChainPending`, `ChainPublish`. `LoseMessage` is the death of
  the process or a failing Redis call at any of them. `ExpireState` is the
  entry's one-hour life.
* *Readers*: `StartStatus`, `StartRender`, two reads, then the answer, or
  `PersistStages` and `PersistState`. A read may fail, and then reads as no entry.
* `ChiefCrash` drops all requests in flight.

machinery (v1.10.8) is not part of the repository. It is modelled from how the
code configures and calls it, and marked external in the map.

The list is modelled as a bag: BLPOP and RPUSH keep an order, but with push-backs
by several workers any order can occur, and no property depends on it.

### AbstractPipeline
What a submitter may rely on: new, queued, building, built, injecting, then done,
failed or lost, each step at most once per pipeline. `Pipeline!StageOf` maps the
detailed state to it; `ImplementsAbstractPipeline` says that all other steps
(reads, rows, push-backs, expiry, a chief's crash) leave it alone.

### Artifacts
The files of a pipeline, one action per file or network operation. A file is
abstracted to the upload its content comes from and whether it is all there.

| variable | in the program |
|---|---|
| `upload[u]`, `token`, `blob[u]` | the handler of an upload; `submissions/<u>.token` and `submissions/<u>.tar.gz` |
| `request[p]`, `described[p]` | the handler of a submission of an upload, or of a retry of another pipeline; the upload its payload describes |
| `tarball[p]`, `dir[p]` | `submissions/<p>.tar.gz` and the directory it is extracted to |
| `recorded` | the pipelines with a row, which a retry needs |
| `stage[p]` | the pipeline as `AbstractPipeline` sees it |
| `task[p]`, `work[p]` | the step of p's current task, and the files it works on |
| `post[p]`, `artifact[p]` | the handler of the artifact's upload, and `artifacts/<p>.tar.gz` |
| `injected[p]` | what the repo task put into the package repository |

* *Uploads*: the token is written and verified before the tarball is created;
  each error return leaves behind what the code leaves behind.
* *Requests*: `BeginSubmission` takes ids of uploads that the chief has answered, from
  clients that send what they were given; the code takes any id. `MoveTarball` is one
  rename, as source and target share a directory. When it fails, because the file is
  gone, `MoveFile` tries to copy and fails at opening the same file; then
  extraction, the token's move, the signature of the extracted `.dsc`. A
  retry copies the old tarball in two steps, since a `cp` may be cut short, and
  verifies nothing. `Reject` is an error return at any point.
* *Tasks*: curl without `--fail` takes any answer for success, so
  `FetchSubmission` may save an error page and `FinishBuild` follows a refused
  upload; wget and tar do fail. The chief's handler (`OpenArtifact`,
  `WriteArtifact`) runs on when the builder is gone.
* `ChiefCrash` leaves on disk what its handlers had written so far.

### RepoInject
One source package, with its binaries, in the development and the experimental
distribution. A reprepro command is one transaction under reprepro's own lock,
except that `includedeb` takes its files one by one.

| variable | in the program |
|---|---|
| `named` | what bears the source's name: the source, and a binary if the packaging has it so |
| `repo[d][k]` | the version of the source or of a binary that distribution d has, and the pipeline that built it |
| `conf[d]` | how many of the four files `InitRepo` writes are in place; reprepro works from the third on |
| `task` | the command the task function is at, its payload, and (history) what it met: a failing command, a flush, a sync |
| `started` | how many pipelines have reached the worker |
| `init` | the distribution a running `InitRepo` is at |
| `released` | history: versions and builds that succeeded, since the last forced removal or flush |
| `disturbed` | history: distributions flushed under a task, or left between a forced pipeline's two removals |

* *Repo*: `StartRepo`, `FetchArtifact`, then `RemoveExisting` (experimental) or
  `RemoveSource` and `RemoveBinary` (forced), whose errors the code ignores, then
  `IncludeDebs`, `IncludeDsc`, `ExportRepo`, whose errors end the task, and
  `ReturnTask`. `WorkerDies` at any of them. `removesrc` is given the version
  without its epoch (`Stripped`), `remove` the source's name, which may be that of no
  binary at all: it then finds the source alone, or nothing, and the task goes on. With
  `--nothingiserror` an include that adds nothing fails (`Refused`).
* *Administrator*: `StartInit`, `PopulateConf` and `ExportInit` for one distribution
  after the other, `UpdateRepo`; nothing keeps them from running under a task.

### InstanceRegistry
Time is kept as ages in ticks, which stop at `Old`, beyond every timeout.

| variable | in the program |
|---|---|
| `up`, `age[w]` | the running worker processes, and when each last sent a heartbeat |
| `wire[w]` | the commands of a heartbeat that Redis has not executed yet, and the age of its stamp by the chief's clock |
| `record[id]` | the instance's key: the age of its `LastHeartbeat` and of the key |
| `index`, `typeIndex[t]` | the two sets of ids |
| `cleanup` | how far `CleanupStaleInstances` is, and with which id |
| `view` | how far a `ListInstances` is, and what it shows online |

* *Heartbeat*: `StartWorker` and `Beat` send three commands, executed one after the
  other by `SetRecord`, `AddToIndex` and `AddToTypeIndex`: `UpdateInstance` uses a
  `Pipeline`, which is not a transaction, so other clients get in between.
  The stamp is of the worker's clock, which may be ahead of the chief's or behind it
  (`Clocks`, by at most `Skew`); the chief compares it with its own.
  `LoseCommands` is a connection that breaks; `WorkerDies` deregisters nothing.
* *Cleanup*: `StartCleanup`, `Examine`, `DeleteRecord`, `RemoveFromIndex`,
  `RemoveFromTypeIndex`, `EndCleanup`, each call of which may fail; `ChiefStops`.
  `ParsedType` reads the type from the id as the code does.
* *Lists*: `StartList`, `GetInstance`. `Tick` passes time and drops expired keys.

### GitCache and Client
`GitCache` is `GitRepoSync.Sync`, step by step, for any number of processes.

| variable | in the program |
|---|---|
| `head[r]` | the newest commit of a branch, numbered as they are pushed |
| `entry[r]` | the cache entry: no `.git`, one without HEAD, or a commit with a complete or incomplete work tree |
| `holder[r]` | who has the flock of the entry |
| `sync[c]` | how far a process is, with the hash that `ls-remote` gave it |
| `torn` | history: entries that a death, or a removal that failed, left incomplete |
| `command[c]` | how far a command is and what it has in its directory |
| `wire[c]` | its request, or the answer to it |
| `accepted` | the pipelines of the chief, in order |
| `saved[f]` | the file with the last package's or the last retry's id: the ids of which it holds anything |
| `overlapped` | history: the files that two processes have written at a time |

* *Sync*: `GetRemoteHash` before the lock; `LockCache`, or `LockFails`; `OpenCache`, `PullCache` and
  `ResetTree` of `useCache`, which removes an entry that it cannot use
  (`Unavailable`); `CloneCache` and `CheckoutClone`, after which the entry is used
  once more; `CopyCache`, and the lock is free. `SyncDies` frees the lock and leaves
  the entry as it is.
* *The promise*: `AtomicSync` has one register per branch and lets a Sync read it once
  between call and return. `GitCache!ReadOf` maps a process to it: what it has read is the hash of
  `ls-remote` until its entry holds a commit that was fetched later, then that commit.
  An entry that removal or a death left incomplete is `spoilt` (`torn`).
* *Commands*: `Start` to `SubmitPackage`, and `RetryPipeline`; each step may fail.
  `Serve` and `Refuse` are the chief; `Receive` and `GiveUp` the client. A
  request that has left may be served after its client gave up or was `Killed`.
* *A source*: `TakeSource` takes the tree of its Sync or, whenever `ls-remote` fails or
  there is no such branch, the body that its URL answers, of whatever status. A body is
  a part of its own (`"body"`): nothing is said of what it contains.
* *The id*: `OpenID` truncates the file and `WriteID` writes, as `os.WriteFile` does; two
  processes may do so at a time, and since ids have different lengths the file may then hold parts of
  both. `Default` reads it back.

### IsoPipeline and Followers

| variable | in the program |
|---|---|
| `chief[p]`, `submittedAt[p]` | how far `BuildISO` of the chief is, and the timestamp it took |
| `rows` | the tasks in `iso_jobs` |
| `state[p]`, `queue` | machinery's result backend and the waiting messages |
| `worker` | the iso worker's task, its step and what it will return |
| `current` | the link `current` of the output directory: whose image it leads to, none if the export has none |
| `image[p]` | history: whose image the task found |
| `logs`, `told[p]` | the logs on the chief; the statuses the webhook has heard |
| `lost` | history: tasks whose message or result died with a process |
| `package[k]` | a package pipeline as a reader sees it: task, stored state, how the task's commands ended, logs |
| `follower[c]`, `lastISO` | a user's command and what it was answered; the file with the last ISO id |

* *Chief*: `BuildISO`, `SendISOTask`, `RecordISOJob` (the insertion) and
  `CleanupOldJobs` (the eviction), `ChiefStops` between them.
* *Worker*: `TakeTask`, `SetReceived`, `SetStarted`, `Prepare`, `RunScript`,
  `FindImage`, `UploadLog`, `SendJobNotification` (one attempt per step; the same
  event may arrive again), `StoreResult`; `WorkerDies`, and `ForeignDies` for a
  worker of another kind that dies before it has put the message back.
* *Package pipelines*: `PackageStep`. A task's commands end and its log is uploaded, or is not,
  while the entry says STARTED (`FinishPackage`); the result is stored when the webhook
  has answered or was tried often enough (`StorePackage`), and never when the worker dies first.
* *Commands*: `SubmitISO` to `SaveISOID`; ISO status and log; package status; package
  log, which reads the state, then the build log, then the repo log. A read of a state
  may fail or find an expired entry. Of the answers those are kept of which something
  can be said later: logs, DONE and FAILED.
* *The promise*: `AbstractISO` takes an ISO from new over queued and building to an outcome,
  tells only that, and stores only that; `IsoPipeline!StageOf` maps to it.

## 4. What is checked

| run | instance | properties |
|---|---|---|
| `one_pipeline` | 1 pipeline, builder + repo worker, 2 readers | `TypeOK`, `RowIsTrue`, `AnswerIsTrue`, `FinalRowIsFrozen` |
| `two_pipelines` | 2 pipelines, builder + repo worker, a table of 1 row | `OneMessage`, `NothingVanishes`, `RepoAfterBuild`, `EvictsOldestOnly`, `EntryMovesOn`, `ImplementsAbstractPipeline` |
| `accepted_settles` | 2 pipelines, fair workers | `AcceptedSettles` |
| `row_becomes_final` | 1 pipeline, 1 open dashboard, fair workers, no expiry | `RowBecomesFinal` |
| `artifacts` | 2 uploads, 1 of them signed; 2 pipelines, each a submission or a retry | `TypeOK`, `SentIsVerified`, `InjectedIsSubmitted`, `UploadTakenOnce`, `StoredStays` |
| `repo_inject` | 3 pipelines of 2 versions, forced, experimental or neither; upstream's version between them; 2 binaries, one of which may be named like the source | `TypeOK`, `DoneIsInjected`, `ReleasedStays`, `OneBuildPerVersion`, `SourceMatches`, `RemovalMakesRoom` |
| `instance_registry` | 2 repo workers with one id on a host with a dash, one's clock ahead and the other's behind | `TypeOK`, `KeysMeanLife`, `OnlineIsAlive`, `AliveIsListed`, `DeadIsForgotten` |
| `client` | 2 submissions and a retry on one cache entry, 2 commits, 3 pipelines | `TypeOK`, `SubmissionIsOfItsTrees`, `OnePerCommand`, `DefaultIds`, `CommandsEnd`, `ImplementsAtomicSync` |
| `followers` | an ISO of the past and one to submit, a package pipeline, a user, a table of 1 row | `TypeOK`, `NotificationsAgree`, `SuccessHasImage`, `AnswersAreFinal`, `ISOEnds`, `ImplementsAbstractISO` |
| `repo_progress` | 1 pipeline, 1 reader | violates `RepoProgressIsReported` |
| `done_before_injected` | 1 pipeline, 1 reader | violates `DoneRowMeansInjected` |
| `built_without_artifact` | as `artifacts` | violates `BuiltMeansStored` |

**What the violations show.** The first two come from the shared UUID.
(1) While the repo task runs, both reads of a status request see the repo task's
state; the answer is RECEIVED or STARTED where `domain/status.go:15` promises
REPO. (2) Between the builder's SUCCESS and its PENDING for the repo task both
reads see SUCCESS: a render then stores DONE, which is terminal, and if the repo
task fails afterwards the row still says DONE. (3) The builder counts an artifact
upload that the chief refused as a success, so the build ends in SUCCESS and the
pipeline fails only in the repo task, whose download finds nothing.
The weaker statements do hold, and are proved: FAILED is never stored or
answered without a failed task, DONE and REPO never without a finished build; and a build without an artifact is never injected.

**What the passing runs show.**
*Pipelines.* Build and repo task share one result entry, written by processes that never
meet; it nevertheless runs through the states of one, then of the other, and never goes
back, nor is a settled pipeline ever in progress again (`EntryMovesOn`). What is stored or
answered from two reads of it is true as far as it goes (`RowIsTrue`, `AnswerIsTrue`).
Messages are neither doubled nor dropped, and eviction takes the oldest rows although
insertion and eviction of several submissions interleave.
*Package repository.* A pipeline that reports success did inject everything,
although its removals may have failed unnoticed (`DoneIsInjected`); what was released
is only replaced by a newer or a forced version (`ReleasedStays`); a retry beside the
pipeline that it retries does not put a second build of one version there
(`OneBuildPerVersion`); a source and its binaries belong together
(`SourceMatches`); and a forced or experimental pipeline is refused only for what its
removals by the source's name cannot find (`RemovalMakesRoom`) - up to the exceptions
that the properties name, which are what the code does. For the removals these are a binary of
another name that has the new version already, after an experimental build or with
an epoch in the version; and, when no binary is named like the source, binaries that are
all as high already, so that `includedeb` has nothing to do. That is how a forced
pipeline of an older version fails, after its source was removed. For the others: a flush under
a running task, and a forced pipeline that ends between its two removals. For the
last, four pipelines are needed: version 1 is complete; a version 3 injects its
binaries and fails at the source; a forced version 3 removes these binaries, then
its second removal fails or the worker dies; a retry of version 1 injects its
binaries next to the old source of another build.
*Registry.* An instance shown online had a process within the timeout and the difference of
the clocks, whatever was still under way when it died (`OnlineIsAlive`; without the
difference it is violated by a clock that is ahead); a key outlives its processes by no more than its time to
live and one interval (`KeysMeanLife`; TLC finds one tick less violated); a process that goes on is listed again after every race
with the cleanup; a dead id disappears from its key and from the global index. Not
from the per-type index when its host has a dash: the cleanup reads another type
from the id (`ParsedType`), which is why `DeadIsForgotten` does not speak of that index.
*Client.* Each Sync copies the branch as it was at one moment between its call and its
return, although the hash is read before the lock, and all of it unless a process died
on the entry or could not remove it (`ImplementsAtomicSync`); a submission was made of sound
trees, or of the one body that was downloaded for its source, about which nothing can be said
(`SubmissionIsOfItsTrees`); a command starts one pipeline at most; the saved ids are of
their kind, and a file holds one id unless two processes wrote it at a time
(`DefaultIds`); all commands end, so nobody waits for the lock of a dead process.
*Followers.* The webhook and the stored result never contradict each other; a
success has an image, though it may be an earlier one, since `iso-build.sh` exits
with 0 whatever happened; what a command prints of an ended pipeline, FAILED or an
ISO's DONE, stays true, and a log that it prints is complete and its task decided, though the
state may still be STARTED, or be so for ever (`AnswersAreFinal`); a queued ISO gets a result unless its message is lost, is built
once, and what the webhook hears is decided before (`ImplementsAbstractISO`).

**Bounds.** A pipeline's messages and rows never depend on another pipeline's
except through the workers they wait for and through eviction, for which two
pipelines and a table of one row are enough. Two readers are enough for every
race of two renders, or of a render and a status request, on one row; a third
only repeats one of them. The clock is bounded by the number of pipelines. One
builder and one repo worker are the deployment the repository documents; the
theorems about `Pipeline` hold for any number of each, and of iso workers that push their
messages back. `IsoPipeline` has one iso worker, the theorems about it too. Two uploads and
two pipelines let two submissions race for one upload, and a retry run beside the
pipeline it copies; a retry of a retry needs a third, and is left to the proofs. Pipelines and
readers are symmetric; the liveness runs use no symmetry. `two_pipelines` and
`accepted_settles` have no readers, so they really stop once everything is
settled or lost, and so does `artifacts` once every id is used; they switch the deadlock check off.

In `repo_inject` three pipelines are a release, one that replaces it and a retry or
a failure between them; 1 < 2 < 3 are a version, upstream's and a newer one, and the
epoch of 3 is lost in `Stripped`. The theorems have any number. In
`instance_registry` a heartbeat is due each tick, an instance is offline after one
and forgotten after three, and one worker's clock is one tick ahead of the chief's, the other's one
behind: one tick for each comparison that can turn out either way. Two workers with one id are the case that tests would not
have. In `client` source and package are one repository, so that each submission
uses the entry twice; two commits let the branch move once under a Sync. One of the submissions may be
given a source (`Sourced`), so that both kinds meet; three pipelines let every command be accepted. In
`followers` the one ISO of the past is the older image and the row that is evicted;
two attempts are a first and a last one. `client` and `followers` may stop when all
commands have ended, respectively when everything was submitted, lost or answered;
their deadlock checks are off. `repo_inject` and `instance_registry` cannot stop. No
bound cuts off a step of the code except `Builds`, `MaxHead` and `MaxPipelines`,
after which no new pipeline, commit or acceptance occurs.

**Fairness.** A worker process keeps working and its task function returns
(`WF(WorkerStep)`; docker and reprepro commands have no time limit in the code, so
that they end is an assumption). BLPOP serves waiting clients in the order in
which they began to wait, so a worker that waits for its task again and again
gets it (`SF(Take)` for the registered task). One further assumption is stated as
`NoPingPong`: two workers that always pop each other's task at the same moment
could push both back for ever; only timing prevents it. Submissions are not fair:
a client need not submit, a handler may die. For `RowBecomesFinal` the dashboard
page reloads every ten seconds (`dashboard.html`), not every one of its requests
dies, and neither Redis nor SQLite refuses every call; entries are assumed not to
expire before such a view, without which the property is false: a row whose entry
expired unseen stays PENDING.

For the registry: time passes, tickers tick, and Redis executes a command or its
connection breaks (`WF`). The chief restarts and its calls fail again and again, but not
every call for ever (`SF` of an `Examine` that gets its answer, and of a `SRem` that
removes something). For the commands `WF(Work(c))`: the network, git and the tools
that a command calls end with some result; killing, pushing, serving and a lock that
cannot be taken are not fair.
For ISO builds `WF` of the worker's steps: its script, curl and the webhook's client
end; the chief, the users and the failures are not fair.

Every property comes with a mutation of the code's definitions that violates it
(`PROJECT.json`, "mutants"): the mutants stand next to what they mutate.

## 5. What is proved

The theorems about `Pipeline` assume only `PipelineAssumption`: each worker process registers one
of the three tasks, the bounds are positive, and `NoPipeline` is not a UUID. The
sets of pipelines, workers and readers are arbitrary. Those about `Artifacts`
assume only `UploadAssumption`: an upload's id is not a task UUID.

* `RecencyLemmas`: what `ORDER BY submitted_at DESC LIMIT n` returns, for every finite
  set of rows (`NewestAreMany`, `NewestAreFew`).
* `PipelineSafety`: `TypeCorrect`, `MessageIsUnique`, `NoMessageVanishes`,
  `RepoFollowsBuild`, `TasksRunOnce`, `EntryMovesForward`, `RowsAreFaithful`,
  `AnswersAreTrue`, `FinalRowsAreFrozen`, `EvictsOldest`, `TrimmedToMaxJobs`,
  `DerivationsAgree`.
* `PipelineRefinement`: `Refinement`, that `Pipeline` implements `AbstractPipeline`.
* `ArtifactsProofs`: `TypeCorrect`, `QueuedIsVerified`, `InjectsSubmitted`,
  `TakenOnce`, `StoredArtifactStays`.
* `RepoInjectProofs`: `TypeCorrect`, `SuccessIsInjected`, `ReleasesStay`,
  `OneSucceeds`, `OneBuildTogether`, `ForcedIsAccepted`.
* `InstanceRegistryProofs`: `TypeCorrect`, `ShownOnlineIsAlive`, `KeysDie`.
* `ClientProofs`: `TypeCorrect`, `CopiesAreRecent`, `CopiesAreWhole`,
  `SyncIsAtomic`, `SubmissionsAreOfTheirTrees`, `OneForEachCommand`, `DefaultsAreOfTheirKind`.
* `FollowersProofs`: `TypeCorrect`, `NotificationsDoAgree`, `SuccessDoesHaveImage`,
  `AnswersStayFinal`, `ISORefinement`, `ISORowsEvictOldest`, `ISORowsTrimmed`.

The assumptions of the last four: `RepoAssumption` (upstream does not publish the
versions that maintainers submit), `RegistryAssumption` (a worker has a host and a type, its
clock and the chief's differ by at most `Skew`, either way and not always by the same; the chief
forgets an instance no sooner than it calls it offline), `CacheAssumption` and `ClientAssumption` (a branch
has a commit, a process runs one of the two commands), `ISOAssumption` and
`FollowersAssumption` (finitely many ISO tasks, at least one row and one attempt,
ids of both kinds are distinct). All other constants are arbitrary.

**The inductive invariant of `Pipeline`**, `IInv`, has six parts. `TypeOK`. `MessageInv` ties each
place a message can be in to what its tasks have done: a chief that has not
pushed yet has a pipeline that is nowhere else (`SentByChief`), a queued build has
never run and a queued repo task's build has ended well (`QueueMatchesRun`), each
phase of a worker fixes what its task's function has done (`WorkerMatchesRun`),
together with `OneMessage`, `NothingVanishes` and `LostIsGone`. None of these is
inductive alone: that a task is not started twice needs that there is one message,
and that there is one message after a push-back or a hand-over needs to know what
the holder has done. `StatesAreTrue` says that a FAILURE or SUCCESS in the backend
or in a reader's hand has its cause; it is what makes stale pairs of reads
harmless, since causes never go away (`CausesStay`). `RowsAreTrue` carries this
over to the table, with the fact that a handler about to insert finds no row.
`EntryMatchesMessage` ties the entry to the message: while a worker holds the message
the entry is what that worker wrote last, or expired. That makes `EntryMovesOn` provable, which needs
besides that two workers never hold one pipeline's message. `SubmissionsAreOrdered` says that timestamps differ and
that only finitely many submissions have one, however many pipelines there are.
`IInv` was checked with TLC on the instances above before it was proved.

**Eviction.** That a row which the DELETE removes has `MaxJobs` later rows among those
that *remain* is a statement on cardinalities that seems to need an induction along the
table. `NewestAreMany` avoids it: if fewer remained, then among the later rows that
go take the one with the least number of later rows (natural numbers are well
founded); every row later than it remains, and there are at least `MaxJobs` of those.
The lemma serves both tables.

**The inductive invariant of `Artifacts`** adds to `TypeOK` and `SentIsVerified`
what each step of a handler or task may count on. `BlobInv`: a tarball whose id was
given out is whole, and its own upload's. `RequestInv`: the phase of a request fixes
what lies in its tarball and directory; a retry's old pipeline has been in the
queue, so its tarball is verified (`SentIsVerified`, used at the source of the
copy); and a row exists only of such a pipeline. `TaskInv` does the same for the
worker's files and the artifact, and says that an artifact is posted once, from a
directory that holds what was submitted. Even `TypeOK` needs it: the chief's handler
writes whatever the worker's directory holds. TLC checked this invariant first.

**The inductive invariant of `RepoInject`**, `Inv`. The properties speak of the end of a
pipeline, so each needs what holds in its middle: `Injected` (the binaries that
`includedeb` took are still there at the source's turn), `FirstOfVersion` (who got
past the refusals is the first of its version, so that `released` can take it),
`Room` (what the removals left, and what they cannot find), with `Branch`, which ties the command to the kind of
pipeline. `SourceHasBinaries` strengthens `SourceMatches`: a source never stands
without its binaries outside `disturbed`, or else those of another build could come
next to it. `Origins` says that upstream's version numbers are upstream's packages.

**Of `InstanceRegistry`**, `AliveInv`: the stamp of a heartbeat on its way, and of a key, is not
newer than the last sign of a process with their id by more than `Skew` (`SentAlive`, `KeyIsAlive`). The lists need
no more: what the cleanup removes can make an instance invisible, never alive.
`KeysMeanLife` has an invariant of its own, `LifeInv`: a pending command was sent within the
interval, so at its SET the process runs or has been gone for less (`PendingIsYoung`),
and from then on key and absence age together until Redis drops the key (`KeyIsRecent`).

**Of `Client`**, `CacheInv` and `Inv`. `CacheInv` says for each process what it may count on
at its step (`Local`: with the lock, HEAD is there and at least as new as the branch was when
its Sync began, once it has been compared or fetched) and for each entry that an
incomplete work tree is `Explained` by a holder who is about to complete it, or is
`torn`. The lock alone is not enough, since the hash was read before it. `Inv` adds what
each stage of a command has gathered, that a request on its way is its command's
first one, which is why a late service starts no second pipeline (`OneEach`), and what the saved
ids mean: each is of a process that is writing it or has done so (`SavedIds`), and a file that
was never written by two at a time is empty while its writer is between the two steps, and
holds one id at most otherwise (`InTurn`).

**`GitCache` implements `AtomicSync`.** The moment at which a Sync takes effect is not one
step of the code: with a hit it is `ls-remote`, after a pull the fetch, and after a failed pull the
clone. So `ReadOf` lets a process read again whenever its entry gets a newer commit. The proof
has one lemma for each step of a Sync (`AskMoves` and the like), which maps it to a step of
`AtomicSync` or to none, for the stepping process, and shows that the others' reads do
not change: the lock's holder alone writes the entry, and who has no lock has not looked at it
(`LeavesOthers`, from `CacheInv`). That `HEAD = hash` is tested under the lock is what
`OpenCache` needs; the fact that the branch may have moved since does not matter.
`CopyIsRecent` and `CopyIsWhole` say the same of the model's history variables and are
proved from `CacheInv` directly.

**Of `Followers`**, `ISOInv`, `Shows` and `PackageLogs`. `Waiting`: a task whose message is
not sent or still waits is at no worker and nobody has been told of it. `AtWork` and `Outcomes`: what
the worker, and later the result, says of a task agrees with its notifications and its image. `Images`: the current image is of a task that is over, lost, or the
one at work. `Logged`, `PackageLogs`: a log is of a task whose commands have ended. `Shows`: what an
answer shows was among the logs, and a final answer is of a result that is stored.
The refinement needs no more than `ISOInv`, `Gone` (a lost task is nowhere) and that one worker has one
task; the rows need `Stamps` (timestamps differ).

TLC checked each of these invariants on the instance of its run first.

Only model-checked: `AcceptedSettles`, `RowBecomesFinal`, `AliveIsListed`,
`DeadIsForgotten`, `CommandsEnd` and `ISOEnds` (liveness under fairness, which is beyond
the prover) and the violations. `TrimmedToMaxJobs`, `ISORowsEvictOldest`, `ISORowsTrimmed`,
`CopiesAreRecent`, `CopiesAreWhole` and `DerivationsAgree` are only proved, and so is
`TasksRunOnce`, which says of the task functions what `ImplementsAbstractPipeline` says of the stages.

## 6. What is not modelled

* reprepro, pbuilder, docker, git, go-git, gpg, curl and the shell: external
  programs. What they may leave behind is modelled where the code goes on from there.
* The builder's base image (`cmd/builder/init.go`), which an administrator
  makes once with shell commands.
* The dashboard's views and counts, artifact and maintainer listings, configuration,
  metrics, prompts, signing and packaging by the CLI, its self-update: reads,
  formatting and external commands without state. That any of them fails is a step
  of the modules they are called from.
* `GetRecentISOJobs` feeds the dashboard's HTML only; `GetISOJob` and `UpdateISOJobState` are
  called by nothing that runs, so the rows of `iso_jobs` stay PENDING.
* Payload contents: a message is its task and its UUID.
* More than 50 unfinished rows: `RecentLimit` is a constant, but no run has a
  table larger than the window a render looks at.

Simplifications to know when reading a module:

* `RepoInject` has one repo worker, one source package and one component, and the
  artifact's binaries are the same for each build of it. `Stripped` is a constant:
  what `ExtractVersion` and `ExtractExtendedVersion` make of a version.
* `Followers` abstracts a package pipeline to what a reader sees; both reads of its
  shared entry are one. Races of the two reads are `Pipeline`'s.
* `Client` bounds by `Sourced` which submissions may be given a source. Of a downloaded
  body, and of a file written by two processes at a time, it keeps only where they come from.
* `IsoPipeline` has one iso worker, and leaves push-backs of foreign messages to `Pipeline` and keeps the
  death of their holder (`ForeignDies`).
* `InstanceRegistry` assumes that a Redis client gives up within a heartbeat interval
  (its timeouts are seconds, the interval thirty), and clocks
  that differ by at most `Skew`, ahead or behind.
* The Redis list is a bag, see `Pipeline`.

### Observations without a run

Differences between the code and its comments that came up while modelling, and
that the modules take the way the code has them:

* `repo_sync.go:86-90` turns every failure of `git ls-remote`, the network's too, into
  `ErrRepoOrBranchNotFound`; `package.go:105-106` says that network errors "should
  propagate immediately". Such a submission falls back to a download, which
  (`package.go:119-137`) checks no status: an error page is packed as the source.
* `util.go:235` truncates before it writes, and nothing locks the files of last ids: two
  commands of a user that end at the same moment may leave the longer id's end behind the
  shorter id, or an empty file if one is killed.
* `repo.go:111` and `repo.go:169` remove by the source's name and take binaries for removed: for a package
  none of whose binaries has that name, forcing an older version removes
  the newer source, then fails at its binaries.
* `package.go:423-430` takes any state but STARTED for the end; the logs themselves appear while
  the state still is STARTED, for the time that the webhook takes.
* `package.go:428` holds only the state STARTED for unfinished. For PENDING and RECEIVED
  the user reads that the pipeline "may have terminated ungracefully"; and the
  build log of a failed build is not shown, because the repo log is missing.
* `irgsh-cli retry` without an argument takes an id that only `retry` itself saves.
* `cmd/chief/main.go:169` cuts the reading of an upload after 15 s, the client waits 60 s
  (`chief_client.go:34`).
* `registry.go:100` says "Use pipeline for atomic operations"; a `Pipeline` is not a
  transaction. `types.go:26` documents an id of host, type, process and time;
  `utils.go:17` makes it of host and type.
* `iso_jobs.go:15` lists four states; only PENDING is ever stored.
* `iso-build.sh` reads its third argument as `OUTPUT_DIR` and as `COMMIT`.
* `repo.go:248` exports `DistCodename`, also when the experimental distribution changed.
* `submission.go:170-190` makes a retry from the row, which has neither `ForceVersion`
  nor the extended version: the retry of a forced pipeline is not forced.
* A pull that is killed between HEAD and the work tree is a "cache hit" for the next Sync of
  that commit (`repo_sync.go:170`); `torn` marks such entries.

## 7. Running it

    tlc -workers 2 -config MCPipelineOne.cfg MCPipeline
    tlc -workers 2 -config MCArtifacts.cfg MCArtifacts
    tlc -workers 2 -config MCRepoInject.cfg MCRepoInject
    tlc -workers 2 -config MCInstanceRegistry.cfg MCInstanceRegistry
    tlc -workers 2 -config MCClient.cfg MCClient
    tlc -workers 2 -config MCFollowers.cfg MCFollowers
    tlapm PipelineSafety.tla
    tlapm RepoInjectProofs.tla
    tlapm ClientProofs.tla
    tlapm FollowersProofs.tla
