----------------------------- MODULE TaskStates -----------------------------
(***************************************************************************)
(* The states a machinery task goes through and the pipeline-level states  *)
(* the chief derives from them (internal/chief/domain/status.go,           *)
(* internal/chief/usecase/dashboard.go, internal/storage/jobs.go).         *)
(***************************************************************************)
EXTENDS Naturals

\* The code's empty string - a task the result backend knows nothing of, a column
\* that was never set - is written "none".
InProgressState == {"PENDING", "RECEIVED", "STARTED"}
TaskState == InProgressState \cup {"none", "SUCCESS", "FAILURE"}

\* Mutant: the build's state is not looked at before REPO is answered.
RepoStateAlone(buildState, repoState) ==
  CASE buildState = "FAILURE" \/ repoState = "FAILURE"    -> "FAILED"
    [] buildState = "SUCCESS" /\ repoState = "SUCCESS"    -> "DONE"
    [] buildState # "FAILURE" /\ repoState \in InProgressState -> "REPO"
    [] OTHER                                              -> buildState

DeriveBuildPipelineState(buildState, repoState) ==
  CASE buildState = "FAILURE"                             -> "FAILED"
    [] buildState = "SUCCESS" /\ repoState = "SUCCESS"    -> "DONE"
    [] buildState = "SUCCESS" /\ repoState = "FAILURE"    -> "FAILED"
    [] buildState = "SUCCESS" /\ repoState \in InProgressState -> "REPO"
    [] OTHER                                              -> buildState

DeriveCurrentStage(buildState, repoState) ==
  CASE buildState = "SUCCESS" /\ repoState = "SUCCESS" -> "completed"
    [] buildState = "SUCCESS" /\ repoState # "SUCCESS" -> "repo"
    [] OTHER                                           -> "build"

\* Mutants: a task the backend has forgotten counts as failed, or as finished; a
\* raw task state is stored; a failed build is not final.
ForgottenIsFailed(buildState, repoState) ==
  CASE buildState = "FAILURE" \/ repoState = "none"     -> "FAILED"
    [] buildState = "SUCCESS" /\ repoState = "SUCCESS" -> "DONE"
    [] buildState = "SUCCESS" /\ repoState = "FAILURE" -> "FAILED"
    [] OTHER                                           -> "PENDING"

ForgottenIsDone(buildState, repoState) ==
  CASE buildState = "FAILURE" \/ repoState = "FAILURE" -> "FAILED"
    [] {buildState, repoState} \subseteq {"SUCCESS", "none"} -> "DONE"
    [] OTHER                                           -> "PENDING"

RawRepoState(buildState, repoState) ==
  CASE buildState = "FAILURE" -> "FAILED"
    [] buildState = "SUCCESS" -> repoState
    [] OTHER                  -> "PENDING"

FailureNotFinal(buildState, repoState) ==
  IF buildState = "SUCCESS" /\ repoState = "SUCCESS" THEN "DONE" ELSE "PENDING"

\* The state resolveJobStates gives a row of the jobs table.
OverallState(buildState, repoState) ==
  CASE buildState = "FAILURE"                          -> "FAILED"
    [] buildState = "SUCCESS" /\ repoState = "SUCCESS" -> "DONE"
    [] buildState = "SUCCESS" /\ repoState = "FAILURE" -> "FAILED"
    [] OTHER                                           -> "PENDING"

IsTerminalState(state) == state \in {"SUCCESS", "DONE", "FAILURE", "FAILED"}
=============================================================================
