---------------------------- MODULE IsoPipeline ----------------------------
(***************************************************************************)
(* ISO pipelines: the chief queues a task and records a row; the iso worker  *)
(* runs iso-build.sh, looks for an image, uploads its log, tells a webhook   *)
(* and only then lets machinery store the task's result. The script ends     *)
(* with "|| true": that it exits with 0 says nothing of the build, and the   *)
(* image the worker finds is that of the last build that had one. The        *)
(* webhook's URL is configured. machinery and Redis are external; what they  *)
(* do with a message of another worker's kind is modelled in Pipeline.       *)
(***************************************************************************)
EXTENDS TaskStates, FiniteSets

CONSTANTS
  ISOs,        \* task UUIDs of ISO submissions
  Past,        \* those that are over when the specification starts
  MaxISOJobs,  \* the rows iso_jobs keeps
  Attempts,    \* maxRetries of SendWebhook, 3
  None         \* not a task

ASSUME ISOAssumption ==
  /\ None \notin ISOs /\ IsFiniteSet(ISOs) /\ Past \subseteq ISOs
  /\ MaxISOJobs \in Nat \ {0} /\ Attempts \in Nat \ {0}

VARIABLES
  chief,       \* how far BuildISO of the chief is with a submission
  submittedAt, \* the timestamp of a submission, 0 before there is one
  rows,        \* the tasks in iso_jobs; their state is PENDING
  state,       \* machinery's result backend
  queue,       \* the messages waiting
  worker,      \* the iso worker's task, how far it is, and what it will return
  current,     \* whose image the link to the last export leads to, None if to none
  image,       \* history: whose image a task found
  logs,        \* the tasks with a log on the chief
  told,        \* the statuses that the webhook has heard of a task
  lost         \* history: tasks whose message or result died with a process

chiefISO  == <<chief, submittedAt, rows>>
isoVars == <<chiefISO, state, queue, worker, current, image, logs, told, lost>>

Final  == {"SUCCESS", "FAILURE"}
Export == ISOs \cup {None}
Idle   == [phase |-> "idle"]
Worker ==
  {Idle} \cup [phase : {"taken", "received", "started", "script"}, task : ISOs]
         \cup [phase : {"search"}, task : ISOs]
         \cup [phase : {"log", "return"}, task : ISOs, ok : BOOLEAN]
         \cup [phase : {"notify"}, task : ISOs, ok : BOOLEAN, attempt : 1 .. Attempts]

Sent == {p \in ISOs : chief[p] \in {"sent", "recorded", "answered", "cut"}}

\* Its last part: a row is written only for a task that was sent.
ISOTypeOK ==
  /\ chief \in [ISOs -> {"new", "pending", "sent", "recorded", "answered", "rejected", "cut"}]
  /\ submittedAt \in [ISOs -> Nat]
  /\ state \in [ISOs -> TaskState]
  /\ queue \subseteq ISOs
  /\ worker \in Worker
  /\ current \in Export
  /\ image \in [ISOs -> Export]
  /\ logs \subseteq ISOs
  /\ told \in [ISOs -> SUBSET {"SUCCESS", "FAILED"}]
  /\ lost \subseteq ISOs
  /\ rows \subseteq Sent

\* The tasks of the past have succeeded, with their own image, or failed.
ISOInit ==
  /\ chief = [p \in ISOs |-> IF p \in Past THEN "answered" ELSE "new"]
  /\ submittedAt \in [ISOs -> 0 .. Cardinality(Past)]
  /\ \A p \in ISOs : submittedAt[p] = 0 <=> p \notin Past
  /\ \A p, q \in Past : submittedAt[p] = submittedAt[q] => p = q
  /\ rows = Past /\ queue = {} /\ logs = {} /\ lost = {}
  /\ state \in [ISOs -> {"none"} \cup Final]
  /\ \A p \in ISOs : state[p] = "none" <=> p \notin Past
  /\ worker = Idle
  /\ image = [p \in ISOs |-> IF state[p] = "SUCCESS" THEN p ELSE None]
  /\ current \in {None} \cup {p \in Past : state[p] = "SUCCESS"}
  /\ told = [p \in ISOs |-> {}]

-----------------------------------------------------------------------------
(* The chief's BuildISO.                                                    *)

Handler(p, from, to) == chief[p] = from /\ chief' = [chief EXCEPT ![p] = to]
Seen == Cardinality({p \in ISOs : submittedAt[p] # 0})

\* Mutant: the row is recorded before the task is sent.
RecordFirst(p) ==
  /\ Handler(p, "new", "pending")
  /\ submittedAt' = [submittedAt EXCEPT ![p] = Seen + 1]
  /\ state' = [state EXCEPT ![p] = "PENDING"]
  /\ rows' = rows \cup {p}
  /\ UNCHANGED <<queue, worker, current, image, logs, told, lost>>

\* The submission gets its timestamp and name, and SendTask sets its state; a
\* submission without URL or branch is refused.
BuildISO(p) ==
  /\ \/ /\ Handler(p, "new", "pending")
        /\ submittedAt' = [submittedAt EXCEPT ![p] = Seen + 1]
        /\ state' = [state EXCEPT ![p] = "PENDING"]
     \/ Handler(p, "new", "rejected") /\ UNCHANGED <<submittedAt, state>>
  /\ UNCHANGED <<rows, queue, worker, current, image, logs, told, lost>>

\* The push: it may fail, or its reply is lost and the handler answers 500.
SendISOTask(p) ==
  /\ \/ Handler(p, "pending", "sent") /\ queue' = queue \cup {p}
     \/ Handler(p, "pending", "rejected") /\ queue' \in {queue, queue \cup {p}}
  /\ UNCHANGED <<submittedAt, rows, state, worker, current, image, logs, told, lost>>

Newest(R) == {p \in R : Cardinality({q \in R : submittedAt[q] > submittedAt[p]}) < MaxISOJobs}

\* The INSERT; when it fails, there is no cleanup, and the submission is answered.
RecordISOJob(p) ==
  /\ \/ Handler(p, "sent", "recorded") /\ rows' = rows \cup {p}
     \/ Handler(p, "sent", "answered") /\ UNCHANGED rows
  /\ UNCHANGED <<submittedAt, state, queue, worker, current, image, logs, told, lost>>

\* The rows beyond the newest MaxISOJobs of that moment go; a failure is only printed.
CleanupOldJobs(p) ==
  /\ Handler(p, "recorded", "answered") /\ rows' \in {rows, Newest(rows)}
  /\ UNCHANGED <<submittedAt, state, queue, worker, current, image, logs, told, lost>>

\* The chief stops between two of these steps.
ChiefStops(p) ==
  /\ \/ Handler(p, "pending", "rejected")
     \/ \E at \in {"sent", "recorded"} : Handler(p, at, "cut")
  /\ UNCHANGED <<submittedAt, rows, state, queue, worker, current, image, logs, told, lost>>

-----------------------------------------------------------------------------
(* The iso worker: machinery around BuildISO of cmd/iso.                    *)

Works(ph)       == worker.phase = ph
Task            == worker.task
Proceeds(ph)    == worker' = [phase |-> ph, task |-> Task]
Ends(ok)        == worker' = [phase |-> "log", task |-> Task, ok |-> ok]
Returns(ok)     == worker' = [phase |-> "return", task |-> Task, ok |-> ok]
Stores(s)       == state' = [state EXCEPT ![Task] = s]

\* Mutant: the message is read and not removed.
PeekTask(p) ==
  /\ Works("idle") /\ p \in queue
  /\ worker' = [phase |-> "taken", task |-> p]
  /\ UNCHANGED <<chiefISO, queue, state, current, image, logs, told, lost>>

TakeTask(p) ==
  /\ Works("idle") /\ p \in queue
  /\ queue' = queue \ {p} /\ worker' = [phase |-> "taken", task |-> p]
  /\ UNCHANGED <<chiefISO, state, current, image, logs, told, lost>>

SetReceived ==
  /\ Works("taken") /\ Proceeds("received") /\ Stores("RECEIVED")
  /\ UNCHANGED <<chiefISO, queue, current, image, logs, told, lost>>

SetStarted ==
  /\ Works("received") /\ Proceeds("started") /\ Stores("STARTED")
  /\ UNCHANGED <<chiefISO, queue, current, image, logs, told, lost>>

\* The payload is read and the directory made; what fails before the deferred
\* notification is set up is neither logged nor told.
Prepare ==
  /\ Works("started")
  /\ Proceeds("script") \/ Returns(FALSE)
  /\ UNCHANGED <<chiefISO, state, queue, current, image, logs, told, lost>>

\* iso-build.sh: a new export, which has an image unless the copy failed; none when the
\* build failed.
Script == current' \in {current, Task, None}

\* The script cannot run or is killed, or it exits with 0.
RunScript ==
  /\ Works("script")
  /\ \/ Ends(FALSE) /\ UNCHANGED current
     \/ Proceeds("search") /\ Script
  /\ UNCHANGED <<chiefISO, state, queue, image, logs, told, lost>>

HasImage == current # None

\* Mutant: that no image is found is not an error.
FindNothing ==
  /\ Works("search") /\ Ends(TRUE)
  /\ image' = [image EXCEPT ![Task] = current]
  /\ UNCHANGED <<chiefISO, state, queue, current, logs, told, lost>>

\* The glob of current/*.iso.
FindImage ==
  /\ Works("search") /\ Ends(HasImage)
  /\ image' = [image EXCEPT ![Task] = current]
  /\ UNCHANGED <<chiefISO, state, queue, current, logs, told, lost>>

\* curl fails silently when the chief does.
UploadLog ==
  /\ Works("log")
  /\ worker' = [phase |-> "notify", task |-> Task, ok |-> worker.ok, attempt |-> 1]
  /\ logs' \in {logs, logs \cup {Task}}
  /\ UNCHANGED <<chiefISO, state, queue, current, image, told, lost>>

Status(ok) == IF ok THEN "SUCCESS" ELSE "FAILED"

\* Mutant: the notification always says that the job is done.
DeliverDone(p, ok) == told' = [told EXCEPT ![p] = @ \cup {"SUCCESS"}]

Deliver(p, ok) == told' = [told EXCEPT ![p] = @ \cup {Status(ok)}]

\* One attempt of PostJSONWithRetry: it may arrive without its answer, or not at all.
SendJobNotification ==
  /\ Works("notify")
  /\ \/ Deliver(Task, worker.ok) /\ Returns(worker.ok)
     \/ /\ Deliver(Task, worker.ok) \/ UNCHANGED told
        /\ IF worker.attempt < Attempts THEN worker' = [worker EXCEPT !.attempt = @ + 1]
                                        ELSE Returns(worker.ok)
  /\ UNCHANGED <<chiefISO, state, queue, current, image, logs, lost>>

\* Mutant: only a task that succeeded has its result stored.
StoreSuccess ==
  /\ Works("return") /\ worker' = Idle
  /\ IF worker.ok THEN Stores("SUCCESS") ELSE UNCHANGED state
  /\ UNCHANGED <<chiefISO, queue, current, image, logs, told, lost>>

\* machinery stores the result, or fails to.
StoreResult ==
  /\ Works("return") /\ worker' = Idle
  /\ \/ Stores(IF worker.ok THEN "SUCCESS" ELSE "FAILURE") /\ UNCHANGED lost
     \/ lost' = lost \cup {Task} /\ UNCHANGED state
  /\ UNCHANGED <<chiefISO, queue, current, image, logs, told>>

\* The worker is killed and started again: its message is gone. The script, killed in
\* its export, may have removed the link and not made the new one.
WorkerDies ==
  /\ ~Works("idle") /\ worker' = Idle
  /\ lost' = lost \cup {Task}
  /\ current' \in IF Works("script") THEN {current, None} ELSE {current}
  /\ UNCHANGED <<chiefISO, state, queue, image, logs, told>>

\* A builder or repo worker dies with the message that it was about to put back.
ForeignDies(p) ==
  /\ p \in queue /\ queue' = queue \ {p} /\ lost' = lost \cup {p}
  /\ UNCHANGED <<chiefISO, state, worker, current, image, logs, told>>

ChiefStep(p)  == SendISOTask(p) \/ RecordISOJob(p) \/ CleanupOldJobs(p)
WorkerStep ==
  \/ \E p \in ISOs : TakeTask(p)
  \/ SetReceived \/ SetStarted \/ Prepare \/ RunScript \/ FindImage
  \/ UploadLog \/ SendJobNotification \/ StoreResult
Failure == WorkerDies \/ \E p \in ISOs : ChiefStops(p) \/ ForeignDies(p)

-----------------------------------------------------------------------------
\* What the webhook hears of a task agrees with itself and with the result that is
\* stored later, however often an attempt is repeated.
NotificationsAgree ==
  \A p \in ISOs :
    /\ Cardinality(told[p]) <= 1
    /\ state[p] = "SUCCESS" => told[p] \subseteq {"SUCCESS"}
    /\ state[p] = "FAILURE" => told[p] \subseteq {"FAILED"}

\* A task that succeeds found an image of its own, or of an earlier task - which
\* is all that can be said, see iso-build.sh.
SuccessHasImage ==
  \A p \in ISOs : (state[p] = "SUCCESS" \/ "SUCCESS" \in told[p]) =>
    /\ image[p] # None
    /\ image[p] # p => state[image[p]] \in Final \/ image[p] \in lost

\* A row of iso_jobs disappears only while MaxISOJobs rows submitted later remain.
ISOEvictsOldest ==
  [][\A p \in ISOs : p \in rows /\ p \notin rows' =>
       Cardinality({q \in rows' : submittedAt[q] > submittedAt[p]}) >= MaxISOJobs]_isoVars

\* A queued task gets a result, unless its message or its result was lost.
ISOEnds == \A p \in ISOs : p \in queue ~> (state[p] \in Final \/ p \in lost)

-----------------------------------------------------------------------------
(* Refinement of AbstractISO.                                               *)
Outcome(ok) == IF ok THEN "succeeding" ELSE "failing"

StageOf(p) ==
  CASE state[p] = "SUCCESS"                       -> "done"
    [] state[p] = "FAILURE"                       -> "failed"
    [] p \in lost /\ state[p] \notin Final        -> "lost"
    [] p \in queue /\ p \notin lost /\ state[p] \notin Final -> "queued"
    [] OTHER -> IF Works("idle") \/ Task # p THEN "new"
                ELSE IF worker.phase \in {"log", "notify", "return"} THEN Outcome(worker.ok)
                ELSE "building"

Abstract == INSTANCE AbstractISO WITH stage <- [p \in ISOs |-> StageOf(p)]

\* Every step of the chief, the iso worker and those that follow an ISO is a step of
\* the abstract pipeline or leaves it alone.
ImplementsAbstractISO == Abstract!Spec
=============================================================================
