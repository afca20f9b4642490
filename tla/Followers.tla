----------------------------- MODULE Followers -----------------------------
(***************************************************************************)
(* Commands of irgsh-cli that follow pipelines: livebuild submit, status and *)
(* log, and package status and log, which make their requests one after the   *)
(* other while the chief and the workers go on. A package                     *)
(* pipeline is abstracted to the backend entry that its build and repo tasks *)
(* share (see Pipeline), to what the commands of the task it is at came to,  *)
(* and to the logs that the workers have uploaded.                           *)
(***************************************************************************)
EXTENDS IsoPipeline

CONSTANTS
  Followers,   \* users of irgsh-cli, each running one command at a time
  Packages     \* package pipelines

ASSUME FollowersAssumption == ISOs \cap Packages = {} /\ None \notin Packages

VARIABLES
  package,     \* a package pipeline: its task, the stored state, how the commands of
               \* that task ended, and the logs at the chief
  follower,    \* a process: what it asks for, how far it is, what it was answered
  lastISO      \* LAST_ISO_PIPELINE_ID, None when it is missing or empty

vars == <<isoVars, package, follower, lastISO>>

PackageRecord == [task : {"build", "repo"}, state : TaskState,
                  outcome : {"none"} \cup Final, logs : SUBSET {"build", "repo"}]
Shown         == SUBSET {"iso", "build", "repo"}
Ready         == [at |-> "idle"]
Follower ==
  {Ready} \cup
  [at : {"submitting", "isostatus", "isolog"}, of : ISOs] \cup
  [at : {"status", "log", "buildlog", "repolog"}, of : Packages] \cup
  [at : {"answered"}, of : ISOs \cup Packages, shown : Shown, state : {"none", "DONE", "FAILED"}]

TypeOK ==
  /\ ISOTypeOK
  /\ package \in [Packages -> PackageRecord]
  /\ follower \in [Followers -> Follower]
  /\ lastISO \in Sent \cup {None}

Init ==
  /\ ISOInit
  /\ package = [k \in Packages |-> [task |-> "build", state |-> "PENDING",
                                     outcome |-> "none", logs |-> {}]]
  /\ follower = [c \in Followers |-> Ready]
  /\ lastISO = None

-----------------------------------------------------------------------------
(* A package pipeline, as a reader of its state and its logs sees it.       *)

PackageBecomes(k, r) ==
  /\ package' = [package EXCEPT ![k] = r]
  /\ UNCHANGED <<isoVars, follower, lastISO>>

Queued(r)  == r.state = "PENDING"
Running(r) == r.state = "STARTED" /\ r.outcome = "none"

\* The commands end, well or not, and then the log is uploaded, unless curl fails or the
\* worker dies before. The entry says STARTED until machinery stores the result.
FinishPackage(k, r) == \E o \in Final, l \in {{}, {r.task}} :
  PackageBecomes(k, [task |-> r.task, state |-> r.state, outcome |-> o, logs |-> r.logs \cup l])

\* After the webhook's answer or its attempts; never, when the worker dies meanwhile.
StorePackage(k, r) ==
  /\ r.state = "STARTED" /\ r.outcome # "none"
  /\ PackageBecomes(k, [r EXCEPT !.state = r.outcome])

\* A successful build sends the repo task, under the same id.
ChainRepo(k, r) ==
  /\ r.state = "SUCCESS" /\ r.task = "build"
  /\ PackageBecomes(k, [task |-> "repo", state |-> "PENDING", outcome |-> "none", logs |-> r.logs])

BeginPackage(k, r) ==
  \/ Queued(r) /\ PackageBecomes(k, [r EXCEPT !.state = "RECEIVED"])
  \/ r.state = "RECEIVED" /\ PackageBecomes(k, [r EXCEPT !.state = "STARTED"])

\* Mutant: the log is uploaded before the commands, not after them.
UploadsEarly(k) ==
  LET r == package[k] IN
  \/ Queued(r) /\ PackageBecomes(k, [r EXCEPT !.state = "RECEIVED"])
  \/ r.state = "RECEIVED" /\ PackageBecomes(k, [r EXCEPT !.state = "STARTED",
                                                       !.logs = r.logs \cup {r.task}])
  \/ Running(r) /\ \E o \in Final : PackageBecomes(k, [r EXCEPT !.outcome = o])
  \/ StorePackage(k, r) \/ ChainRepo(k, r)

PackageStep(k) ==
  LET r == package[k] IN
  \/ BeginPackage(k, r)
  \/ Running(r) /\ FinishPackage(k, r)
  \/ StorePackage(k, r) \/ ChainRepo(k, r)

-----------------------------------------------------------------------------
(* The commands.                                                            *)

At(c, step)        == follower[c].at = step
\* A command may be followed by another.
Free(c)            == follower[c].at \in {"idle", "answered"}
Asks(c, step, p)   == follower' = [follower EXCEPT ![c] = [at |-> step, of |-> p]]
Leaves(c)          == follower' = [follower EXCEPT ![c] = Ready]
Answered(c, shown, s) ==
  follower' = [follower EXCEPT ![c] = [at |-> "answered", of |-> follower[c].of,
                                       shown |-> shown, state |-> s]]

\* livebuild submit: the chief's handler starts with the request.
SubmitISO(c, p) ==
  /\ Free(c) /\ Asks(c, "submitting", p) /\ BuildISO(p)
  /\ UNCHANGED <<package, lastISO>>

\* The answer, and SaveISOID, which may fail or leave the file empty. (ISO ids have one
\* length: of two that are written at a time the file keeps one. Client has the others.)
SaveISOID(c) ==
  /\ At(c, "submitting") /\ chief[follower[c].of] = "answered"
  /\ Answered(c, {}, "none") /\ lastISO' \in {lastISO, None, follower[c].of}
  /\ UNCHANGED <<isoVars, package>>

\* An error answer, a timeout or a broken connection, at any request.
GiveUp(c) ==
  /\ ~Free(c) /\ Leaves(c)
  /\ UNCHANGED <<isoVars, package, lastISO>>

\* The pipeline is an argument, or the one last submitted.
FollowISO(c, step) ==
  /\ Free(c)
  /\ \/ \E p \in Sent : Asks(c, step, p)
     \/ lastISO = None /\ Leaves(c)
  /\ UNCHANGED <<isoVars, package, lastISO>>

DeriveISOPipelineState(s) ==
  CASE s = "FAILURE" -> "FAILED" [] s = "SUCCESS" -> "DONE"
    [] s \in InProgressState -> "BUILDING" [] OTHER -> "UNKNOWN"

\* What a read of an entry may answer: one that expired, or a failing GET, reads as none.
GetTaskState(entry) == {entry, "none"}

\* What is printed of a pipeline that may go on is of no consequence later.
PrintStatus(c, s) == IF s \in {"DONE", "FAILED"} THEN Answered(c, {}, s) ELSE Leaves(c)

ISOStatus(c) ==
  /\ At(c, "isostatus")
  /\ \E s \in GetTaskState(state[follower[c].of]) : PrintStatus(c, DeriveISOPipelineState(s))
  /\ UNCHANGED <<isoVars, package, lastISO>>

\* FetchLog: the file, or 404.
Fetch(c, has, shown) == IF has THEN Answered(c, shown, "none") ELSE Leaves(c)

ISOLog(c) ==
  /\ At(c, "isolog") /\ Fetch(c, follower[c].of \in logs, {"iso"})
  /\ UNCHANGED <<isoVars, package, lastISO>>

Follow(c, k) ==
  /\ Free(c) /\ \E step \in {"status", "log"} : Asks(c, step, k)
  /\ UNCHANGED <<isoVars, package, lastISO>>

\* BuildStatus of the chief; that its two reads may be of two moments is left to Pipeline.
States(k) ==
  {DeriveBuildPipelineState(b, s) : b, s \in GetTaskState(package[k].state)}

PackageStatus(c) ==
  /\ At(c, "status") /\ \E s \in States(follower[c].of) : PrintStatus(c, s)
  /\ UNCHANGED <<isoVars, package, lastISO>>

\* package log: only the state STARTED counts as not finished; then both logs.
PackageLog(c) ==
  /\ At(c, "log")
  /\ \E s \in States(follower[c].of) :
       IF s = "STARTED" THEN Leaves(c) ELSE Asks(c, "buildlog", follower[c].of)
  /\ UNCHANGED <<isoVars, package, lastISO>>

FetchBuildLog(c) ==
  /\ At(c, "buildlog")
  /\ IF "build" \in package[follower[c].of].logs THEN Asks(c, "repolog", follower[c].of)
                                                 ELSE Leaves(c)
  /\ UNCHANGED <<isoVars, package, lastISO>>

FetchRepoLog(c) ==
  /\ At(c, "repolog")
  /\ Fetch(c, "repo" \in package[follower[c].of].logs, {"build", "repo"})
  /\ UNCHANGED <<isoVars, package, lastISO>>

-----------------------------------------------------------------------------
Command(c) ==
  \/ \E p \in ISOs : SubmitISO(c, p)
  \/ \E step \in {"isostatus", "isolog"} : FollowISO(c, step)
  \/ \E k \in Packages : Follow(c, k)
  \/ SaveISOID(c) \/ GiveUp(c) \/ ISOStatus(c) \/ ISOLog(c)
  \/ PackageStatus(c) \/ PackageLog(c) \/ FetchBuildLog(c) \/ FetchRepoLog(c)

Server(A) == UNCHANGED <<package, follower, lastISO>> /\ A

Next ==
  \/ \E c \in Followers : Command(c)
  \/ \E k \in Packages : PackageStep(k)
  \/ Server(WorkerStep \/ Failure \/ \E p \in ISOs : ChiefStep(p))

Spec     == Init /\ [][Next]_vars
\* The worker takes what is queued and finishes it; the script, curl and the webhook's
\* client end.
FairSpec == Spec /\ WF_vars(Server(WorkerStep))

-----------------------------------------------------------------------------
\* What a command answered stays true of the pipeline, though it made its requests one
\* after the other and the pipeline went on meanwhile: logs are shown only of tasks whose
\* commands are over, so that no line is still to come and their result is decided - of
\* an ISO, and of a package that was built and whose injection is decided, though neither
\* result need be stored yet or ever -; a pipeline that is said to have failed has a
\* failed result for good, and an ISO that is said to be done, a successful one. (A
\* package may be said to be done too early, see Pipeline.)
AnswersAreFinal ==
  \A c \in Followers : At(c, "answered") =>
    LET p == follower[c].of IN
    /\ "iso" \in follower[c].shown =>
         \/ p \in lost \/ state[p] \in Final
         \/ worker.phase \in {"notify", "return"} /\ worker.task = p
    /\ "repo" \in follower[c].shown => package[p].task = "repo" /\ package[p].outcome # "none"
    /\ follower[c].state = "FAILED" =>
         (IF p \in ISOs THEN state[p] ELSE package[p].state) = "FAILURE"
    /\ follower[c].state = "DONE" /\ p \in ISOs => state[p] = "SUCCESS"
=============================================================================
