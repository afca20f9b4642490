------------------------------- MODULE Client -------------------------------
(***************************************************************************)
(* irgsh-cli: processes of one user, each running one command: submit a      *)
(* package, or retry a pipeline. They share the git cache and the files with *)
(* the last pipeline ids. The chief is as far away as HTTP makes it: it may  *)
(* refuse a request, serve it after the client gave up, or its answer is lost.*)
(***************************************************************************)
EXTENDS GitCache, Sequences

CONSTANTS
  Submitters, Retriers,       \* the processes that run package, and retry
  Sourced,                    \* bound: the submitters that may be given a --source
  SourceRepo, PackageRepo,    \* --source and --package
  MaxPipelines                \* bound: pipelines the chief accepts

\* One URL may be given for both.
ASSUME ClientAssumption ==
  /\ Submitters \cup Retriers = Clients /\ Submitters \cap Retriers = {}
  /\ Sourced \subseteq Submitters
  /\ SourceRepo \in Repos /\ PackageRepo \in Repos
  /\ MaxPipelines \in Nat

VARIABLES
  command,       \* what a process is at, and what it has in its directory
  wire,          \* its request to the chief, or the answer to it
  accepted,      \* the pipelines of the chief, in order
  saved,         \* LAST_PACKAGE_PIPELINE_ID and LAST_PIPELINE_ID: whose ids, or parts
                 \* of them, the file holds; none when it is missing or empty
  overlapped     \* history: the files that two processes have written at a time

idVars    == <<saved, overlapped>>
chiefVars == <<accepted, idVars>>
vars == <<cacheVars, command, wire, chiefVars>>

\* has: what was put in the temporary directory; sound: every tree in it is as new as
\* its Sync asked for, and whole unless excused; id: of the pipeline it got, or retries.
Pipeline  == 1 .. MaxPipelines
Id        == Pipeline \cup {0}
Stage     == {"idle", "checked", "source", "sourced", "package", "synced", "described", "packed",
              "uploaded", "asked", "answered", "saving", "ended", "failed", "killed"}
Part      == {"source", "body", "package", "orig", "dsc"}
File      == {"package", "retry"}
Command   == [stage : Stage, wants : BOOLEAN, has : SUBSET Part, sound : BOOLEAN, id : Id]
NoCommand == [stage |-> "idle", wants |-> FALSE, has |-> {}, sound |-> TRUE, id |-> 0]
Wire      == [is : {"none", "request", "refusal"}] \cup [is : {"answer"}, id : Pipeline]
Silence   == [is |-> "none"]
Accepted  == [by : Clients, wants : BOOLEAN, has : SUBSET Part, sound : BOOLEAN]

TypeOK ==
  /\ CacheTypeOK
  /\ command \in [Clients -> Command]
  /\ wire \in [Clients -> Wire]
  /\ accepted \in Seq(Accepted) /\ Len(accepted) <= MaxPipelines
  /\ saved \in [File -> SUBSET Pipeline] /\ overlapped \subseteq File

Init ==
  /\ CacheInit
  /\ command = [c \in Clients |-> NoCommand]
  /\ wire = [c \in Clients |-> Silence]
  /\ accepted = <<>>
  /\ saved = [f \in File |-> {}] /\ overlapped = {}

Over      == {"ended", "failed", "killed"}
Stands(c, stage) == command[c].stage = stage
Goes(c, stage)   == command' = [command EXCEPT ![c].stage = stage]

-----------------------------------------------------------------------------
(* SubmitPackage up to its requests. A step that fails ends the command, and *)
(* the deferred calls remove its temporary files.                            *)

\* Configuration, version of the chief, defaults, URLs, confirmation.
Start(c) ==
  /\ Stands(c, "idle")
  /\ \/ \E wants \in BOOLEAN :
          /\ wants => c \in Sourced
          /\ command' = [command EXCEPT ![c].stage = "checked", ![c].wants = wants]
     \/ Goes(c, "failed")
  /\ UNCHANGED <<cacheVars, wire, chiefVars>>

SyncSource(c) ==
  /\ Stands(c, "checked") /\ command[c].wants
  /\ Goes(c, "source") /\ StartSync(c, SourceRepo)
  /\ UNCHANGED <<wire, chiefVars>>

SyncPackage(c) ==
  /\ Stands(c, "sourced") \/ (Stands(c, "checked") /\ ~command[c].wants)
  /\ Goes(c, "package") /\ StartSync(c, PackageRepo)
  /\ UNCHANGED <<wire, chiefVars>>

Synced(c, stage) == Stands(c, stage) /\ Phase(c) \in {"done", "notfound", "failed"}

\* The command goes on with one part more in its directory.
Sound(t)        == t.tree.commit >= t.since /\ (t.tree.whole \/ t.excused)
Has(c, part, s) == command' = [command EXCEPT ![c].stage = s, ![c].has = @ \cup {part}]
Copied(c, part, s) ==
  command' = [command EXCEPT ![c].stage = s, ![c].has = @ \cup {part},
                ![c].sound = @ /\ Sound(sync[c])]

\* Mutant: nothing is downloaded when there is no such branch.
TakeSourceOnly(c) ==
  /\ Synced(c, "source")
  /\ \/ Phase(c) = "done" /\ Copied(c, "source", "sourced")
     \/ Phase(c) = "notfound" /\ Goes(c, "sourced")
     \/ Phase(c) # "done" /\ Goes(c, "failed")
  /\ Becomes(c, [phase |-> "idle"])
  /\ UNCHANGED <<head, entry, holder, torn, wire, chiefVars>>

\* The tree, or, when ls-remote failed for any reason or a clone found no such branch,
\* the body of what the URL answers, of whatever status and content.
TakeSource(c) ==
  /\ Synced(c, "source")
  /\ \/ Phase(c) = "done" /\ Copied(c, "source", "sourced")
     \/ Phase(c) = "notfound" /\ Has(c, "body", "sourced")
     \/ Phase(c) # "done" /\ Goes(c, "failed")
  /\ Becomes(c, [phase |-> "idle"])
  /\ UNCHANGED <<head, entry, holder, torn, wire, chiefVars>>

TakePackage(c) ==
  /\ Synced(c, "package")
  /\ \/ Phase(c) = "done" /\ Copied(c, "package", "synced")
     \/ Phase(c) # "done" /\ Goes(c, "failed")
  /\ Becomes(c, [phase |-> "idle"])
  /\ UNCHANGED <<head, entry, holder, torn, wire, chiefVars>>

\* Name, version and maintainer from the package tree, checked against the signing key.
Describe(c) ==
  /\ Stands(c, "synced")
  /\ ("package" \in command[c].has /\ Goes(c, "described")) \/ Goes(c, "failed")
  /\ UNCHANGED <<cacheVars, wire, chiefVars>>

\* The orig tarball takes the source tree; then the source package is built, signed,
\* checked and packed, and a token is signed.
Pack(c) ==
  /\ Stands(c, "described")
  /\ \/ command' = [command EXCEPT ![c].stage = "packed",
                      ![c].has = (@ \ {"source", "package"}) \cup {"dsc"} \cup
                                 (IF "source" \in @ THEN {"orig"} ELSE {})]
     \/ Goes(c, "failed")
  /\ UNCHANGED <<cacheVars, wire, chiefVars>>

\* The upload's id is all that the submission takes from it.
UploadSubmission(c) ==
  /\ Stands(c, "packed")
  /\ Goes(c, "uploaded") \/ Goes(c, "failed")
  /\ UNCHANGED <<cacheVars, wire, chiefVars>>

-----------------------------------------------------------------------------
(* Requests to the chief, and what the client makes of the answers.         *)

Sent(c) == wire' = [wire EXCEPT ![c] = [is |-> "request"]]

SubmitPackage(c) ==
  /\ Stands(c, "uploaded") /\ Goes(c, "asked") /\ Sent(c)
  /\ UNCHANGED <<cacheVars, chiefVars>>

\* retry names a pipeline, or takes what the last retry's file holds: nothing, an id, or
\* a mixture of ids, which is the id of no pipeline.
Default(f) ==
  IF saved[f] = {} THEN {} ELSE IF Cardinality(saved[f]) = 1 THEN saved[f] ELSE {0}

RetryPipeline(c) ==
  /\ Stands(c, "idle")
  /\ \/ \E i \in DOMAIN accepted \cup Default("retry") :
          /\ command' = [command EXCEPT ![c].stage = "asked", ![c].id = i]
          /\ Sent(c)
     \/ Goes(c, "failed") /\ UNCHANGED wire
  /\ UNCHANGED <<cacheVars, chiefVars>>

Number == Len(accepted) + 1

\* The chief serves a request, whether or not the client still waits.
Serve(c) ==
  /\ wire[c].is = "request" /\ Number <= MaxPipelines
  /\ c \in Retriers => command[c].id # 0
  /\ accepted' = Append(accepted, [by |-> c, has |-> command[c].has,
                                   wants |-> command[c].wants, sound |-> command[c].sound])
  /\ wire' = [wire EXCEPT ![c] = IF Stands(c, "asked") THEN [is |-> "answer", id |-> Number]
                                                       ELSE Silence]
  /\ UNCHANGED <<cacheVars, command, idVars>>

Refuse(c) ==
  /\ wire[c].is = "request"
  /\ wire' = [wire EXCEPT ![c] = IF Stands(c, "asked") THEN [is |-> "refusal"] ELSE Silence]
  /\ UNCHANGED <<cacheVars, command, chiefVars>>

\* checkResponse and the decoding of the answer.
Receive(c) ==
  /\ Stands(c, "asked") /\ wire[c].is \in {"answer", "refusal"}
  /\ \/ /\ wire[c].is = "answer"
        /\ command' = [command EXCEPT ![c].stage = "answered", ![c].id = wire[c].id]
     \/ wire[c].is = "refusal" /\ Goes(c, "failed")
  /\ wire' = [wire EXCEPT ![c] = Silence]
  /\ UNCHANGED <<cacheVars, chiefVars>>

\* The timeout, an interrupt, or a broken connection: a request may have left.
Abandoned(c) == IF wire[c].is = "request" THEN wire[c] ELSE Silence

\* Mutant: the request is sent again.
AskAgain(c) ==
  /\ Stands(c, "asked")
  /\ command' = command /\ Sent(c)
  /\ UNCHANGED <<cacheVars, chiefVars>>

GiveUp(c) ==
  /\ Stands(c, "asked")
  /\ Goes(c, "failed") /\ wire' = [wire EXCEPT ![c] = Abandoned(c)]
  /\ UNCHANGED <<cacheVars, chiefVars>>

FileOf(c) == IF c \in Submitters THEN "package" ELSE "retry"
Holds(c, ids) == saved' = [saved EXCEPT ![FileOf(c)] = ids]

\* WriteFile opens the file and truncates it; when it cannot, that is only a warning.
OpenIDWith(c, ids) ==
  /\ Stands(c, "answered")
  /\ \/ /\ Goes(c, "saving") /\ Holds(c, ids)
        /\ overlapped' = overlapped \cup
             {FileOf(d) : d \in {e \in Clients : Stands(e, "saving") /\ FileOf(e) = FileOf(c)}}
     \/ Goes(c, "ended") /\ UNCHANGED idVars
  /\ UNCHANGED <<cacheVars, wire, accepted>>

\* Mutant: the file is opened as it is.
OpenIDAsItIs(c) == OpenIDWith(c, saved[FileOf(c)])

OpenID(c) == OpenIDWith(c, {})

\* Then it writes the id at the start of the file. Ids differ in length, so that of
\* another id, written meanwhile, the end may be left.
WriteID(c) ==
  /\ Stands(c, "saving") /\ Goes(c, "ended")
  /\ LET id == command[c].id IN
     Holds(c, {id}) \/ Holds(c, saved[FileOf(c)] \cup {id}) \/ UNCHANGED saved
  /\ UNCHANGED <<cacheVars, wire, accepted, overlapped>>

-----------------------------------------------------------------------------
\* The process is killed: none of its deferred calls runs.
Killed(c) ==
  /\ command[c].stage \notin Over \cup {"idle"}
  /\ Goes(c, "killed") /\ SyncDies(c)
  /\ wire' = [wire EXCEPT ![c] = Abandoned(c)]
  /\ UNCHANGED chiefVars

Synchronise(c) == SyncStep(c) /\ UNCHANGED <<command, wire, chiefVars>>

Work(c) ==
  \/ /\ c \in Submitters
     /\ \/ Start(c) \/ SyncSource(c) \/ TakeSource(c) \/ SyncPackage(c) \/ TakePackage(c)
        \/ Describe(c) \/ Pack(c) \/ UploadSubmission(c) \/ SubmitPackage(c)
  \/ c \in Retriers /\ RetryPipeline(c)
  \/ Synchronise(c)
  \/ Receive(c) \/ GiveUp(c) \/ OpenID(c) \/ WriteID(c)

Environment ==
  \/ \E r \in Repos : Push(r) /\ UNCHANGED <<command, wire, chiefVars>>
  \/ \E c \in Clients :
       \/ LockFails(c) /\ UNCHANGED <<command, wire, chiefVars>>
       \/ Serve(c) \/ Refuse(c) \/ Killed(c)

Next == Environment \/ \E c \in Clients : Work(c)

Spec     == Init /\ [][Next]_vars
\* The network and the tools that a command calls end, with whatever result.
FairSpec == Spec /\ \A c \in Clients : WF_vars(Work(c))

-----------------------------------------------------------------------------
\* Whatever happens to the cache meanwhile, a package pipeline was submitted with the
\* signed source package, made of trees as recent as the command and whole but for
\* deaths. Of a source that was asked for, it has the tarball made of such a tree or else
\* the one body that was downloaded, never both and never neither; of that body nothing
\* is known, it may be an error page.
SubmissionIsOfItsTrees ==
  \A i \in DOMAIN accepted : accepted[i].by \in Submitters =>
    /\ accepted[i].sound
    /\ accepted[i].has \in IF accepted[i].wants THEN {{"dsc", "orig"}, {"dsc", "body"}}
                                                 ELSE {{"dsc"}}

\* A command makes the chief start at most one pipeline, and exactly the one that it
\* reports when it succeeds, though a request may be served after its client is gone.
OnePerCommand ==
  \A c \in Clients :
    LET made == {i \in DOMAIN accepted : accepted[i].by = c} IN
    /\ Cardinality(made) <= 1
    /\ command[c].stage \in {"answered", "ended"} => made = {command[c].id}

\* What status, log and retry default to: a file holds ids of its own kind that their
\* processes were answered, and one id alone - so that it names a pipeline - as long as
\* no two processes have written it at a time.
DefaultIds ==
  \A f \in File :
    /\ \A i \in saved[f] :
         LET c == accepted[i].by IN FileOf(c) = f /\ command[c].id = i
    /\ Cardinality(saved[f]) > 1 => f \in overlapped

\* All commands come to an end: no process waits for a lock for ever, even when
\* the process that held it is killed.
CommandsEnd == <>(\A c \in Clients : command[c].stage \in Over)
=============================================================================
