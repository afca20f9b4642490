--------------------------- MODULE FollowersProofs ---------------------------
(***************************************************************************)
(* Theorems about IsoPipeline and Followers for any number of submissions,   *)
(* packages and users: what the webhook hears of an ISO agrees with what is  *)
(* stored, and the logs that are shown are those of tasks that are over.     *)
(***************************************************************************)
EXTENDS Followers, RecencyLemmas

WorksOn(p) == ~Works("idle") /\ Task = p
IsOver(p)  == state[p] \in Final \/ p \in lost
Early      == {"taken", "received", "started", "script", "search"}

\* A task that has no message yet, or whose message waits, has been touched by nobody.
Waiting(p) ==
  /\ chief[p] \in {"new", "pending"} => p \notin queue /\ ~WorksOn(p) /\ told[p] = {}
  /\ chief[p] = "new" => state[p] = "none"
  /\ chief[p] = "pending" => state[p] = "PENDING"
  /\ p \in queue => ~WorksOn(p) /\ told[p] = {} /\ state[p] = "PENDING"

\* What the worker knows of its task.
AtWork ==
  ~Works("idle") =>
    /\ state[Task] \in InProgressState
    /\ worker.phase \in Early \cup {"log"} => told[Task] = {}
    /\ worker.phase \in {"notify", "return"} => told[Task] \subseteq {Status(worker.ok)}
    /\ worker.phase \notin Early => (worker.ok => image[Task] # None)

\* Whose images there are: the last export's, and those that tasks have found.
Images ==
  /\ HasImage => IsOver(current) \/ WorksOn(current)
  /\ \A p \in ISOs : image[p] \notin {None, p} => IsOver(image[p])

Logged == \A p \in logs : IsOver(p) \/ (worker.phase \in {"notify", "return"} /\ Task = p)

Outcomes == \A p \in ISOs :
  /\ told[p] \subseteq {"SUCCESS"} \/ told[p] \subseteq {"FAILED"}
  /\ state[p] = "SUCCESS" => told[p] \subseteq {"SUCCESS"}
  /\ state[p] = "FAILURE" => told[p] \subseteq {"FAILED"}
  /\ state[p] = "SUCCESS" \/ "SUCCESS" \in told[p] => image[p] # None

ISOInv == ISOTypeOK /\ (\A p \in ISOs : Waiting(p)) /\ AtWork /\ Images /\ Logged /\ Outcomes

\* What a command shows has been on the chief when it was fetched, and a final status
\* that it printed is that of the entry.
Kept(f) == f.at = "answered" =>
  /\ "iso" \in f.shown => f.of \in logs
  /\ "repo" \in f.shown => f.of \in Packages /\ "repo" \in package[f.of].logs
  /\ f.state = "DONE" /\ f.of \in ISOs => state[f.of] = "SUCCESS"
  /\ f.state = "FAILED" => \/ f.of \in ISOs /\ state[f.of] = "FAILURE"
                           \/ f.of \in Packages /\ package[f.of].state = "FAILURE"

Shows == \A c \in Followers : Kept(follower[c])

PackageLogs == \A k \in Packages :
  "repo" \in package[k].logs => package[k].task = "repo" /\ package[k].outcome # "none"

Inv == ISOInv /\ TypeOK /\ Shows /\ PackageLogs

-----------------------------------------------------------------------------
(* Records.                                                                 *)

LEMMA WorkerIs ==
  ASSUME NEW w \in Worker
  PROVE  /\ w.phase # "idle" => w.task \in ISOs
         /\ w.phase \in {"log", "notify", "return"} => w.ok \in BOOLEAN
         /\ w.phase = "notify" => w \in [phase : {"notify"}, task : ISOs, ok : BOOLEAN,
                                         attempt : 1 .. Attempts]
         /\ w.phase \in {"idle", "log", "notify", "return"} \cup Early
  BY DEF Worker, Idle, Early

LEMMA InWorker ==
  /\ Idle \in Worker /\ Idle.phase = "idle"
  /\ \A ph \in Early, p \in ISOs : [phase |-> ph, task |-> p] \in Worker
  /\ \A ph \in {"log", "return"}, p \in ISOs, ok \in BOOLEAN :
       [phase |-> ph, task |-> p, ok |-> ok] \in Worker
  /\ \A p \in ISOs, ok \in BOOLEAN, a \in 1 .. Attempts :
       [phase |-> "notify", task |-> p, ok |-> ok, attempt |-> a] \in Worker
  BY DEF Worker, Idle, Early

LEMMA SeenIsNat == Seen \in Nat
  <1> DEFINE R == {p \in ISOs : submittedAt[p] # 0}
  <1>1. IsFiniteSet(R) /\ Cardinality(R) \in Nat
    <2>1. R \subseteq ISOs /\ IsFiniteSet(ISOs)
      BY ISOAssumption
    <2> QED
      BY <2>1, FS_Subset, FS_CardinalityType
  <1> QED
    BY <1>1 DEF Seen

-----------------------------------------------------------------------------
(* The steps of the chief.                                                  *)

LEMMA BuildStep == \A p \in ISOs : ISOInv /\ BuildISO(p) => ISOInv'
  <1> SUFFICES ASSUME NEW p \in ISOs, ISOInv, BuildISO(p) PROVE ISOInv'
    OBVIOUS
  <1>1. /\ chief[p] = "new" /\ p \notin queue /\ ~WorksOn(p) /\ told[p] = {} /\ state[p] = "none"
        /\ UNCHANGED <<rows, queue, worker, current, image, logs, told, lost>>
    BY DEF BuildISO, Handler, ISOInv, Waiting
  <1>2. /\ chief'[p] \in {"pending", "rejected"} /\ state'[p] \in {"none", "PENDING"}
        /\ chief'[p] = "pending" => state'[p] = "PENDING"
        /\ \A q \in ISOs : q # p => chief'[q] = chief[q] /\ state'[q] = state[q]
    BY <1>1 DEF BuildISO, Handler, ISOInv, ISOTypeOK
  <1>3. ISOTypeOK'
    <2>1. Sent' = Sent
      BY <1>1, <1>2 DEF Sent
    <2> QED
      BY <1>1, <2>1, SeenIsNat DEF BuildISO, Handler, ISOInv, ISOTypeOK, TaskState, InProgressState
  <1>4. (\A q \in ISOs : Waiting(q))'
    BY <1>1, <1>2 DEF ISOInv, Waiting, WorksOn, Works, Task
  <1>5. AtWork' /\ Images' /\ Logged'
    <2>1. \A q \in ISOs : IsOver(q) => IsOver(q)'
      BY <1>1, <1>2 DEF IsOver, Final
    <2>2. ~Works("idle") => Task \in ISOs /\ Task # p
      BY <1>1, WorkerIs DEF Works, WorksOn, ISOInv, ISOTypeOK, Task
    <2>3. HasImage => current \in ISOs
      BY DEF HasImage, ISOInv, ISOTypeOK, Export
    <2>4. AtWork'
      BY <1>1, <1>2, <2>2 DEF ISOInv, AtWork, Works, Task
    <2>5. Images'
      BY <1>1, <2>1, <2>3 DEF ISOInv, ISOTypeOK, Images, HasImage, Export, WorksOn, Works, Task
    <2>6. Logged'
      BY <1>1, <2>1 DEF ISOInv, ISOTypeOK, Logged, Task
    <2> QED
      BY <2>4, <2>5, <2>6
  <1>6. Outcomes'
    BY <1>1, <1>2 DEF ISOInv, Outcomes
  <1> QED
    BY <1>3, <1>4, <1>5, <1>6 DEF ISOInv

\* The rest of a submission: only chief, queue and rows change.
LEMMA ChiefRests ==
  ASSUME ISOInv, NEW p \in ISOs, chief[p] \in {"pending", "sent", "recorded"},
         UNCHANGED <<submittedAt, state, worker, current, image, logs, told, lost>>,
         NEW to \in {"sent", "recorded", "answered", "rejected", "cut"}, Handler(p, chief[p], to),
         chief[p] = "pending" \/ queue' = queue, queue' \in {queue, queue \cup {p}},
         chief[p] # "pending" => to # "rejected",
         rows' \subseteq rows \cup {p}, p \in rows' => to # "rejected"
  PROVE  ISOInv'
  <1>1. chief' = [chief EXCEPT ![p] = to] /\ chief \in [ISOs -> {"new", "pending", "sent", "recorded", "answered", "rejected", "cut"}]
    BY DEF Handler, ISOInv, ISOTypeOK
  <1>2. \A q \in ISOs : chief'[q] = IF q = p THEN to ELSE chief[q]
    BY <1>1
  <1>3. ISOTypeOK'
    <2>1. chief' \in [ISOs -> {"new", "pending", "sent", "recorded", "answered", "rejected", "cut"}]
      BY <1>1
    <2>2. rows' \subseteq Sent'
      BY <1>2 DEF Sent, ISOInv, ISOTypeOK
    <2> QED
      BY <2>1, <2>2 DEF ISOInv, ISOTypeOK
  <1>4. (\A q \in ISOs : Waiting(q))'
    BY <1>2 DEF ISOInv, Waiting, WorksOn, Works, Task
  <1>5. AtWork' /\ Images' /\ Logged' /\ Outcomes'
    BY DEF ISOInv, AtWork, Images, Logged, Outcomes, Works, HasImage, WorksOn, IsOver, Task
  <1> QED
    BY <1>3, <1>4, <1>5 DEF ISOInv

LEMMA SendStep == \A p \in ISOs : ISOInv /\ SendISOTask(p) => ISOInv'
  <1> SUFFICES ASSUME NEW p \in ISOs, ISOInv, SendISOTask(p) PROVE ISOInv'
    OBVIOUS
  <1>1. chief[p] = "pending" /\ p \notin rows
    BY DEF SendISOTask, Handler, ISOInv, ISOTypeOK, Sent
  <1>2. PICK to \in {"sent", "rejected"} : Handler(p, "pending", to)
    BY DEF SendISOTask
  <1>3. /\ UNCHANGED <<submittedAt, rows, state, worker, current, image, logs, told, lost>>
        /\ queue' \in {queue, queue \cup {p}}
    BY DEF SendISOTask
  <1> QED
    BY <1>1, <1>2, <1>3, ChiefRests

LEMMA RecordStep == \A p \in ISOs : ISOInv /\ (RecordISOJob(p) \/ CleanupOldJobs(p)) => ISOInv'
  <1> SUFFICES ASSUME NEW p \in ISOs, ISOInv, RecordISOJob(p) \/ CleanupOldJobs(p) PROVE ISOInv'
    OBVIOUS
  <1>1. PICK to \in {"recorded", "answered"} :
          chief[p] \in {"sent", "recorded"} /\ Handler(p, chief[p], to)
    BY DEF RecordISOJob, CleanupOldJobs, Handler
  <1>2. /\ UNCHANGED <<submittedAt, queue, state, worker, current, image, logs, told, lost>>
        /\ rows' \subseteq rows \cup {p}
    BY DEF RecordISOJob, CleanupOldJobs, Newest
  <1> QED
    BY <1>1, <1>2, ChiefRests

LEMMA StopStep == \A p \in ISOs : ISOInv /\ ChiefStops(p) => ISOInv'
  <1> SUFFICES ASSUME NEW p \in ISOs, ISOInv, ChiefStops(p) PROVE ISOInv'
    OBVIOUS
  <1>1. UNCHANGED <<submittedAt, rows, state, queue, worker, current, image, logs, told, lost>>
    BY DEF ChiefStops
  <1>2. CASE Handler(p, "pending", "rejected")
    <2>1. chief[p] = "pending" /\ p \notin rows
      BY <1>2 DEF Handler, ISOInv, ISOTypeOK, Sent
    <2> QED
      BY <1>1, <1>2, <2>1, ChiefRests
  <1>3. CASE \E at \in {"sent", "recorded"} : Handler(p, at, "cut")
    <2>1. chief[p] \in {"sent", "recorded"} /\ Handler(p, chief[p], "cut")
      BY <1>3 DEF Handler
    <2> QED
      BY <1>1, <1>3, <2>1, ChiefRests
  <1> QED
    BY <1>2, <1>3 DEF ChiefStops

-----------------------------------------------------------------------------
(* The steps of the worker.                                                 *)

LEMMA TakeTaskStep == \A p \in ISOs : ISOInv /\ TakeTask(p) => ISOInv'
  <1> SUFFICES ASSUME NEW p \in ISOs, ISOInv, TakeTask(p) PROVE ISOInv'
    OBVIOUS
  <1>1. /\ worker.phase = "idle" /\ p \in queue /\ queue' = queue \ {p}
        /\ UNCHANGED <<chief, submittedAt, rows, state, current, image, logs, told, lost>>
    BY DEF TakeTask, chiefISO, Works
  <1>2. PICK w \in Worker : worker' = w /\ w.phase = "taken" /\ w.task = p
    BY InWorker DEF TakeTask, Early
  <1>3. ISOTypeOK'
    BY <1>1, <1>2 DEF ISOInv, ISOTypeOK, Sent
  <1>4. (\A q \in ISOs : Waiting(q))'
    BY <1>1, <1>2 DEF ISOInv, Waiting, WorksOn, Works, Task
  <1>5. AtWork'
    BY <1>1, <1>2 DEF ISOInv, Waiting, AtWork, Works, InProgressState, Early, Task
  <1>6. Images' /\ Logged' /\ Outcomes'
    BY <1>1, <1>2 DEF ISOInv, Images, Logged, Outcomes, Works, HasImage, WorksOn, IsOver, Task
  <1> QED
    BY <1>3, <1>4, <1>5, <1>6 DEF ISOInv

\* The worker goes on with its task, and its state stays in progress.
LEMMA WorkStep ==
  ASSUME ISOInv, worker.phase # "idle", NEW w \in Worker, worker' = w,
         w.phase # "idle", w.task = worker.task,
         NEW s \in InProgressState, state' = [state EXCEPT ![worker.task] = s],
         UNCHANGED <<chief, submittedAt, rows, queue, lost>>,
         current' \in Export, image' \in [ISOs -> Export], logs' \subseteq ISOs,
         told' \in [ISOs -> SUBSET {"SUCCESS", "FAILED"}],
         \A q \in ISOs \ {worker.task} :
           image'[q] = image[q] /\ told'[q] = told[q] /\ (q \in logs' <=> q \in logs),
         HasImage' => current' = worker.task \/ current' = current,
         image'[worker.task] \in {None, worker.task} \/ IsOver(image'[worker.task]),
         worker.task \in logs' => worker.task \in lost \/ w.phase \in {"notify", "return"},
         told'[worker.task] = {} \/ (w.phase \in {"notify", "return"} /\ told'[worker.task] \subseteq {Status(w.ok)}),
         w.phase \notin Early => (w.ok => image'[worker.task] # None),
         "SUCCESS" \in told'[worker.task] => image'[worker.task] # None
  PROVE  ISOInv'
  <1> DEFINE p == worker.task
  <1>1. p \in ISOs /\ state[p] \in InProgressState /\ InProgressState \subseteq TaskState
    BY WorkerIs DEF ISOInv, ISOTypeOK, AtWork, Works, TaskState, Task
  <1>2. \A q \in ISOs : state'[q] = IF q = p THEN s ELSE state[q]
    BY DEF ISOInv, ISOTypeOK
  <1>3. \A q \in ISOs : (WorksOn(q) <=> q = p) /\ (WorksOn(q)' <=> q = p)
    BY DEF WorksOn, Works, Task
  <1>4. \A q \in ISOs : IsOver(q) => IsOver(q)'
    BY <1>1, <1>2 DEF IsOver, Final, InProgressState
  <1>5. ISOTypeOK'
    BY <1>1 DEF ISOInv, ISOTypeOK, Sent
  <1>6. (\A q \in ISOs : Waiting(q))'
    <2> SUFFICES ASSUME NEW q \in ISOs PROVE Waiting(q)'
      OBVIOUS
    <2>1. CASE q = p
      BY <1>1, <1>3, <2>1 DEF ISOInv, Waiting, InProgressState
    <2>2. CASE q # p
      BY <1>2, <1>3, <2>2 DEF ISOInv, Waiting
    <2> QED
      BY <2>1, <2>2
  <1>7. AtWork'
    BY <1>1, <1>2, <1>5, WorkerIs DEF AtWork, Works, Early, Task
  <1>8. Images'
    <2>1. HasImage' => IsOver(current)' \/ WorksOn(current)'
      <3>1. CASE HasImage' /\ current' = p
        BY <1>1, <1>3, <3>1
      <3>2. CASE HasImage' /\ current' = current
        <4>1. current \in ISOs /\ HasImage
          BY <3>2 DEF HasImage, ISOInv, ISOTypeOK, Export
        <4> QED
          BY <1>3, <1>4, <3>2, <4>1 DEF ISOInv, Images
      <3> QED
        BY <3>1, <3>2
    <2>2. ASSUME NEW q \in ISOs, image'[q] \notin {None, q}
          PROVE  state'[image'[q]] \in Final \/ image'[q] \in lost'
      <3>1. IsOver(image'[q]) /\ image'[q] \in ISOs
        BY <2>2 DEF ISOInv, Images, Export
      <3>2. PICK i \in ISOs : i = image'[q]
        BY <3>1
      <3> QED
        BY <1>2, <1>1, <3>1, <3>2 DEF IsOver, Final, InProgressState
    <2> QED
      BY <2>1, <2>2 DEF Images, IsOver
  <1>9. Logged'
    BY <1>4 DEF ISOInv, ISOTypeOK, Logged, IsOver, Task
  <1>10. Outcomes'
    <2> SUFFICES ASSUME NEW q \in ISOs
                 PROVE  /\ told'[q] \subseteq {"SUCCESS"} \/ told'[q] \subseteq {"FAILED"}
                        /\ state'[q] = "SUCCESS" => told'[q] \subseteq {"SUCCESS"}
                        /\ state'[q] = "FAILURE" => told'[q] \subseteq {"FAILED"}
                        /\ state'[q] = "SUCCESS" \/ "SUCCESS" \in told'[q] => image'[q] # None
      BY DEF Outcomes
    <2>1. CASE q = p
      BY <1>1, <1>2, <2>1 DEF InProgressState, Status
    <2>2. CASE q # p
      BY <1>2, <2>2 DEF ISOInv, Outcomes
    <2> QED
      BY <2>1, <2>2
  <1> QED
    BY <1>5, <1>6, <1>7, <1>8, <1>9, <1>10 DEF ISOInv

\* The steps that leave image, told, logs and current alone.
LEMMA ProceedStep ==
  ASSUME ISOInv, worker.phase \in Early, NEW w \in Worker, worker' = w, w.task = worker.task,
         w.phase \in Early \/ (w.phase \in {"log", "return"} /\ w.ok = FALSE),
         NEW s \in InProgressState, state' = [state EXCEPT ![worker.task] = s],
         UNCHANGED <<chief, submittedAt, rows, queue, lost, image, logs, told>>,
         current' \in Export, HasImage' => current' = worker.task \/ current' = current
  PROVE  ISOInv'
  <1>1. /\ worker.phase # "idle" /\ w.phase # "idle" /\ worker.task \in ISOs
        /\ worker.phase \notin {"notify", "return"}
    BY WorkerIs DEF Early, ISOInv, ISOTypeOK
  <1>2. /\ told[worker.task] = {}
        /\ worker.task \in logs => worker.task \in lost
        /\ image[worker.task] \notin {None, worker.task} => IsOver(image[worker.task])
    BY <1>1 DEF ISOInv, AtWork, Works, Task, Logged, Images, IsOver, Final, InProgressState
  <1>3. /\ image' \in [ISOs -> Export] /\ logs' \subseteq ISOs
        /\ told' \in [ISOs -> SUBSET {"SUCCESS", "FAILED"}]
    BY DEF ISOInv, ISOTypeOK
  <1>4. /\ UNCHANGED <<image, told, logs>>
        /\ image'[worker.task] \in {None, worker.task} \/ IsOver(image'[worker.task])
        /\ worker.task \in logs' => worker.task \in lost \/ w.phase \in {"notify", "return"}
        /\ told'[worker.task] = {}
        /\ w.phase \notin Early => (w.ok => image'[worker.task] # None)
    BY <1>2
  <1>5. \A q \in ISOs \ {worker.task} :
          image'[q] = image[q] /\ told'[q] = told[q] /\ (q \in logs' <=> q \in logs)
    BY <1>4
  <1>6. UNCHANGED <<chief, submittedAt, rows, queue, lost>>
    OBVIOUS
  <1> QED
    BY <1>1, <1>3, <1>4, <1>5, <1>6, WorkStep

LEMMA StateStays == \A p \in ISOs : ISOInv => state = [state EXCEPT ![p] = state[p]]
  BY DEF ISOInv, ISOTypeOK

LEMMA ReceiveStep == ISOInv /\ (SetReceived \/ SetStarted) => ISOInv'
  <1> SUFFICES ASSUME ISOInv, SetReceived \/ SetStarted PROVE ISOInv'
    OBVIOUS
  <1>1. PICK s \in InProgressState : state' = [state EXCEPT ![worker.task] = s]
    BY DEF SetReceived, SetStarted, Stores, Task, InProgressState
  <1>2. /\ worker.phase \in Early /\ worker.task \in ISOs
        /\ UNCHANGED <<chief, submittedAt, rows, queue, lost, image, logs, told, current>>
    BY WorkerIs DEF SetReceived, SetStarted, Works, Early, chiefISO, ISOInv, ISOTypeOK
  <1>3. PICK w \in Worker : worker' = w /\ w.task = worker.task /\ w.phase \in Early
    BY <1>2, InWorker DEF SetReceived, SetStarted, Proceeds, Task, Early
  <1>4. current' \in Export
    BY <1>2 DEF ISOInv, ISOTypeOK
  <1> QED
    BY <1>1, <1>2, <1>3, <1>4, ProceedStep

LEMMA PrepareStep == ISOInv /\ (Prepare \/ RunScript) => ISOInv'
  <1> SUFFICES ASSUME ISOInv, Prepare \/ RunScript PROVE ISOInv'
    OBVIOUS
  <1>1. /\ worker.phase \in Early /\ worker.task \in ISOs
        /\ UNCHANGED <<chief, submittedAt, rows, state, queue, lost, image, logs, told>>
    BY WorkerIs DEF Prepare, RunScript, Works, Early, chiefISO, ISOInv, ISOTypeOK
  <1>2. PICK s \in InProgressState : s = state[worker.task]
    BY <1>1 DEF ISOInv, AtWork, Works, Task, Early
  <1>3. state' = [state EXCEPT ![worker.task] = s]
    BY <1>1, <1>2, StateStays
  <1>4. PICK w \in Worker :
          /\ worker' = w /\ w.task = worker.task
          /\ w.phase \in Early \/ (w.phase \in {"log", "return"} /\ w.ok = FALSE)
    BY <1>1, InWorker DEF Prepare, RunScript, Proceeds, Returns, Ends, Task, Early
  <1>5. current' \in Export /\ (HasImage' => current' = worker.task \/ current' = current)
    <2>1. current \in Export /\ worker.task \in Export /\ None \in Export
      BY <1>1 DEF Export, ISOInv, ISOTypeOK
    <2>2. current' \in {current, worker.task, None}
      BY DEF Prepare, RunScript, Script, Task
    <2> QED
      BY <2>1, <2>2 DEF HasImage
  <1> QED
    BY <1>1, <1>3, <1>4, <1>5, ProceedStep

\* What the worker finds is the image of its own task, or of one that is over.
LEMMA FindStep == ISOInv /\ FindImage => ISOInv'
  <1> SUFFICES ASSUME ISOInv, FindImage PROVE ISOInv'
    OBVIOUS
  <1> DEFINE p == worker.task
  <1>1. /\ worker.phase = "search" /\ worker.phase \in Early /\ worker.phase # "idle" /\ p \in ISOs
        /\ image' = [image EXCEPT ![p] = current]
        /\ UNCHANGED <<chief, submittedAt, rows, state, queue, current, logs, told, lost>>
    BY WorkerIs DEF FindImage, Works, Early, chiefISO, ISOInv, ISOTypeOK, Task
  <1>2. PICK s \in InProgressState : s = state[p]
    BY <1>1 DEF ISOInv, AtWork, Works, Task
  <1>3. state' = [state EXCEPT ![p] = s]
    BY <1>1, <1>2, StateStays
  <1>4. HasImage \in BOOLEAN /\ (HasImage => current \in ISOs)
    BY DEF HasImage, ISOInv, ISOTypeOK, Export
  <1>5. PICK w \in Worker : worker' = w /\ w.task = p /\ w.phase = "log" /\ w.ok = HasImage
    BY <1>1, <1>4, InWorker DEF FindImage, Ends, Task
  <1>6. HasImage => current # None /\ (current = p \/ IsOver(current))
    BY <1>1 DEF HasImage, ISOInv, Images, WorksOn, Task
  <1>7. PICK f \in ISOs \cup {None} : f = current
    BY DEF ISOInv, ISOTypeOK, Export
  <1>8. /\ \A q \in ISOs : image'[q] = IF q = p THEN f ELSE image[q]
        /\ image' \in [ISOs -> Export]
    BY <1>1, <1>7 DEF ISOInv, ISOTypeOK
  <1>9. told[p] = {} /\ (p \in logs => p \in lost)
    BY <1>1 DEF ISOInv, AtWork, Works, Task, Logged, IsOver, Final, InProgressState
  <1>10. /\ current' \in Export /\ logs' \subseteq ISOs
         /\ told' \in [ISOs -> SUBSET {"SUCCESS", "FAILED"}]
    BY <1>1 DEF ISOInv, ISOTypeOK
  <1>11. /\ image'[p] \in {None, p} \/ IsOver(image'[p])
         /\ w.ok => image'[p] # None
    BY <1>1, <1>5, <1>6, <1>7, <1>8 DEF HasImage
  <1> QED
    BY <1>1, <1>3, <1>5, <1>8, <1>9, <1>10, <1>11, WorkStep DEF Early

LEMMA UploadStep == ISOInv /\ UploadLog => ISOInv'
  <1> SUFFICES ASSUME ISOInv, UploadLog PROVE ISOInv'
    OBVIOUS
  <1> DEFINE p == worker.task
  <1>1. /\ worker.phase = "log" /\ worker.phase # "idle" /\ p \in ISOs /\ worker.ok \in BOOLEAN
        /\ logs' \in {logs, logs \cup {p}} /\ worker.phase \notin Early
        /\ UNCHANGED <<chief, submittedAt, rows, state, queue, current, image, told, lost>>
    BY WorkerIs DEF UploadLog, Works, Early, chiefISO, ISOInv, ISOTypeOK, Task
  <1>2. PICK s \in InProgressState : s = state[p]
    BY <1>1 DEF ISOInv, AtWork, Works, Task
  <1>3. state' = [state EXCEPT ![p] = s]
    BY <1>1, <1>2, StateStays
  <1>4. PICK w \in Worker : worker' = w /\ w.task = p /\ w.phase = "notify" /\ w.ok = worker.ok
    BY <1>1, InWorker, ISOAssumption DEF UploadLog, Task
  <1>5. /\ told[p] = {}
        /\ worker.ok => image[p] # None
        /\ image[p] \in {None, p} \/ IsOver(image[p])
    BY <1>1 DEF ISOInv, AtWork, Works, Task, Images
  <1>6. /\ current' \in Export /\ logs' \subseteq ISOs /\ image' \in [ISOs -> Export]
        /\ told' \in [ISOs -> SUBSET {"SUCCESS", "FAILED"}]
    BY <1>1 DEF ISOInv, ISOTypeOK
  <1>7. /\ image'[p] \in {None, p} \/ IsOver(image'[p])
        /\ told'[p] = {}
        /\ w.ok => image'[p] # None
        /\ \A q \in ISOs \ {p} :
             image'[q] = image[q] /\ told'[q] = told[q] /\ (q \in logs' <=> q \in logs)
    BY <1>1, <1>4, <1>5
  <1> QED
    BY <1>1, <1>3, <1>4, <1>6, <1>7, WorkStep

\* Every attempt says what the first one said.
LEMMA NotifyStep == ISOInv /\ SendJobNotification => ISOInv'
  <1> SUFFICES ASSUME ISOInv, SendJobNotification PROVE ISOInv'
    OBVIOUS
  <1> DEFINE p == worker.task
  <1>1. /\ worker.phase = "notify" /\ worker.phase # "idle" /\ p \in ISOs /\ worker.ok \in BOOLEAN
        /\ worker.phase \notin Early
        /\ worker \in [phase : {"notify"}, task : ISOs, ok : BOOLEAN, attempt : 1 .. Attempts]
        /\ UNCHANGED <<chief, submittedAt, rows, state, queue, current, image, logs, lost>>
    BY WorkerIs DEF SendJobNotification, Works, Early, chiefISO, ISOInv, ISOTypeOK, Task
  <1>2. PICK s \in InProgressState : s = state[p]
    BY <1>1 DEF ISOInv, AtWork, Works, Task
  <1>3. state' = [state EXCEPT ![p] = s]
    BY <1>1, <1>2, StateStays
  <1>4. PICK w \in Worker : /\ worker' = w /\ w.task = p /\ w.ok = worker.ok
                            /\ w.phase \in {"notify", "return"}
    <2>1. CASE Returns(worker.ok)
      BY <1>1, <2>1, InWorker DEF Returns, Task
    <2>2. CASE worker.attempt < Attempts /\ worker' = [worker EXCEPT !.attempt = @ + 1]
      <3>1. worker.attempt + 1 \in 1 .. Attempts
        BY <1>1, <2>2, ISOAssumption
      <3>2. worker' = [phase |-> "notify", task |-> p, ok |-> worker.ok,
                       attempt |-> worker.attempt + 1]
        BY <1>1, <2>2
      <3> QED
        BY <1>1, <3>1, <3>2, InWorker
    <2> QED
      BY <2>1, <2>2 DEF SendJobNotification
  <1>5. told' = told \/ told' = [told EXCEPT ![p] = @ \cup {Status(worker.ok)}]
    BY DEF SendJobNotification, Deliver, Task
  <1>6. /\ told[p] \subseteq {Status(worker.ok)}
        /\ worker.ok => image[p] # None
        /\ image[p] \in {None, p} \/ IsOver(image[p])
        /\ Status(worker.ok) \in {"SUCCESS", "FAILED"}
        /\ Status(worker.ok) = "SUCCESS" => worker.ok
    BY <1>1 DEF ISOInv, AtWork, Works, Task, Images, Status
  <1>7. /\ told' \in [ISOs -> SUBSET {"SUCCESS", "FAILED"}]
        /\ told'[p] \subseteq {Status(w.ok)}
        /\ \A q \in ISOs \ {p} : told'[q] = told[q]
    <2> HIDE DEF p
    <2>1. told \in [ISOs -> SUBSET {"SUCCESS", "FAILED"}]
      BY DEF ISOInv, ISOTypeOK
    <2> QED
      BY <1>1, <1>4, <1>5, <1>6, <2>1
  <1>8. /\ current' \in Export /\ logs' \subseteq ISOs /\ image' \in [ISOs -> Export]
    BY <1>1 DEF ISOInv, ISOTypeOK
  <1>9. /\ image'[p] \in {None, p} \/ IsOver(image'[p])
        /\ w.ok => image'[p] # None
        /\ "SUCCESS" \in told'[p] => image'[p] # None
    BY <1>1, <1>4, <1>6, <1>7
  <1> QED
    BY <1>1, <1>3, <1>4, <1>7, <1>8, <1>9, WorkStep

\* The worker is done with its task, which now is over.
LEMMA EndStep ==
  ASSUME ISOInv, worker.phase # "idle", worker' = Idle,
         UNCHANGED <<chief, submittedAt, rows, queue, image, logs, told>>,
         current' = current \/ current' = None, lost' \subseteq ISOs,
         NEW s \in TaskState, state' = [state EXCEPT ![worker.task] = s],
         lost \subseteq lost', s \in Final \/ worker.task \in lost',
         \A q \in ISOs \ {worker.task} : q \in lost' => q \in lost,
         s = "SUCCESS" => told[worker.task] \subseteq {"SUCCESS"} /\ image[worker.task] # None,
         s = "FAILURE" => told[worker.task] \subseteq {"FAILED"}
  PROVE  ISOInv'
  <1> DEFINE p == worker.task
  <1>1. /\ p \in ISOs /\ state[p] \in InProgressState /\ Idle \in Worker /\ Idle.phase = "idle"
    BY WorkerIs, InWorker DEF ISOInv, ISOTypeOK, AtWork, Works, Task
  <1>2. \A q \in ISOs : state'[q] = IF q = p THEN s ELSE state[q]
    BY DEF ISOInv, ISOTypeOK
  <1>3. \A q \in ISOs : (WorksOn(q) <=> q = p) /\ ~WorksOn(q)'
    BY <1>1 DEF WorksOn, Works, Task
  <1>4. \A q \in ISOs : IsOver(q) \/ q = p => state'[q] \in Final \/ q \in lost'
    BY <1>1, <1>2 DEF IsOver, Final, InProgressState
  <1>5. ISOTypeOK'
    <2>1. None \in Export
      BY DEF Export
    <2> QED
      BY <1>1, <2>1 DEF ISOInv, ISOTypeOK, Sent
  <1>6. (\A q \in ISOs : Waiting(q))'
    <2> SUFFICES ASSUME NEW q \in ISOs PROVE Waiting(q)'
      OBVIOUS
    <2>1. CASE q = p
      BY <1>1, <1>3, <2>1 DEF ISOInv, Waiting
    <2>2. CASE q # p
      BY <1>2, <1>3, <2>2 DEF ISOInv, Waiting
    <2> QED
      BY <2>1, <2>2
  <1>7. AtWork'
    BY <1>1 DEF AtWork, Works
  <1>8. Images'
    <2>1. HasImage' => HasImage /\ current' = current /\ current \in ISOs
      BY DEF HasImage, ISOInv, ISOTypeOK, Export
    <2>2. HasImage' => (state'[current'] \in Final \/ current' \in lost')
      BY <1>3, <1>4, <2>1 DEF ISOInv, Images
    <2>3. ASSUME NEW q \in ISOs, image'[q] \notin {None, q}
          PROVE  state'[image'[q]] \in Final \/ image'[q] \in lost'
      <3>1. image' = image /\ IsOver(image[q]) /\ image[q] \in ISOs
        BY <2>3 DEF ISOInv, ISOTypeOK, Images, Export
      <3> QED
        BY <1>4, <3>1
    <2> QED
      BY <2>2, <2>3 DEF Images, IsOver
  <1>9. Logged'
    <2>1. \A q \in logs : q \in ISOs /\ (IsOver(q) \/ q = p)
      BY DEF ISOInv, ISOTypeOK, Logged, Task
    <2> QED
      BY <1>4, <2>1 DEF Logged, IsOver
  <1>10. Outcomes'
    <2> SUFFICES ASSUME NEW q \in ISOs
                 PROVE  /\ told'[q] \subseteq {"SUCCESS"} \/ told'[q] \subseteq {"FAILED"}
                        /\ state'[q] = "SUCCESS" => told'[q] \subseteq {"SUCCESS"}
                        /\ state'[q] = "FAILURE" => told'[q] \subseteq {"FAILED"}
                        /\ state'[q] = "SUCCESS" \/ "SUCCESS" \in told'[q] => image'[q] # None
      BY DEF Outcomes
    <2>1. CASE q = p
      BY <1>1, <1>2, <2>1 DEF ISOInv, Outcomes
    <2>2. CASE q # p
      BY <1>2, <2>2 DEF ISOInv, Outcomes
    <2> QED
      BY <2>1, <2>2
  <1> QED
    BY <1>5, <1>6, <1>7, <1>8, <1>9, <1>10 DEF ISOInv

LEMMA StoreStep == ISOInv /\ StoreResult => ISOInv'
  <1> SUFFICES ASSUME ISOInv, StoreResult PROVE ISOInv'
    OBVIOUS
  <1> DEFINE p == worker.task
  <1>1. /\ worker.phase = "return" /\ worker.phase # "idle" /\ p \in ISOs /\ worker.ok \in BOOLEAN
        /\ worker.phase \notin Early /\ worker' = Idle
        /\ UNCHANGED <<chief, submittedAt, rows, queue, current, image, logs, told>>
    BY WorkerIs DEF StoreResult, Works, Early, chiefISO, ISOInv, ISOTypeOK
  <1>2. /\ told[p] \subseteq {Status(worker.ok)} /\ state[p] \in InProgressState
        /\ worker.ok => image[p] # None
    BY <1>1 DEF ISOInv, AtWork, Works, Task
  <1>3. CASE Stores(IF worker.ok THEN "SUCCESS" ELSE "FAILURE") /\ UNCHANGED lost
    <2>1. PICK s \in TaskState : s = IF worker.ok THEN "SUCCESS" ELSE "FAILURE"
      BY DEF TaskState
    <2>2. /\ state' = [state EXCEPT ![p] = s] /\ s \in Final
          /\ s = "SUCCESS" => told[p] \subseteq {"SUCCESS"} /\ image[p] # None
          /\ s = "FAILURE" => told[p] \subseteq {"FAILED"}
      BY <1>1, <1>2, <1>3, <2>1 DEF Stores, Task, Final, Status
    <2>3. lost' \subseteq ISOs /\ lost' = lost
      BY <1>3 DEF ISOInv, ISOTypeOK
    <2> QED
      BY <1>1, <2>2, <2>3, EndStep
  <1>4. CASE lost' = lost \cup {Task} /\ UNCHANGED state
    <2>1. PICK s \in TaskState : s = state[p] /\ s \in InProgressState
      BY <1>2 DEF TaskState
    <2>2. state' = [state EXCEPT ![p] = s] /\ s # "SUCCESS" /\ s # "FAILURE"
      BY <1>1, <1>4, <2>1, StateStays DEF InProgressState
    <2>3. lost' = lost \cup {p} /\ lost' \subseteq ISOs
      BY <1>1, <1>4 DEF Task, ISOInv, ISOTypeOK
    <2> QED
      BY <1>1, <2>2, <2>3, EndStep
  <1> QED
    BY <1>3, <1>4 DEF StoreResult

LEMMA DiesStep == ISOInv /\ WorkerDies => ISOInv'
  <1> SUFFICES ASSUME ISOInv, WorkerDies PROVE ISOInv'
    OBVIOUS
  <1> DEFINE p == worker.task
  <1>1. /\ worker.phase # "idle" /\ p \in ISOs /\ worker' = Idle /\ lost' = lost \cup {p}
        /\ current' = current \/ current' = None
        /\ UNCHANGED <<chief, submittedAt, rows, state, queue, image, logs, told>>
    BY WorkerIs DEF WorkerDies, Works, chiefISO, ISOInv, ISOTypeOK, Task
  <1>2. PICK s \in TaskState : s = state[p] /\ s \in InProgressState
    BY <1>1 DEF ISOInv, AtWork, Works, Task, TaskState
  <1>3. /\ state' = [state EXCEPT ![p] = s] /\ s # "SUCCESS" /\ s # "FAILURE"
        /\ lost' \subseteq ISOs
    BY <1>1, <1>2, StateStays DEF InProgressState, ISOInv, ISOTypeOK
  <1> QED
    BY <1>1, <1>3, EndStep

LEMMA ForeignStep == \A p \in ISOs : ISOInv /\ ForeignDies(p) => ISOInv'
  <1> SUFFICES ASSUME NEW p \in ISOs, ISOInv, ForeignDies(p) PROVE ISOInv'
    OBVIOUS
  <1>1. /\ queue' = queue \ {p} /\ lost' = lost \cup {p}
        /\ UNCHANGED <<chief, submittedAt, rows, state, worker, current, image, logs, told>>
    BY DEF ForeignDies, chiefISO
  <1>2. ISOTypeOK'
    BY <1>1 DEF ISOInv, ISOTypeOK, Sent
  <1>3. (\A q \in ISOs : Waiting(q))' /\ AtWork'
    BY <1>1 DEF ISOInv, Waiting, AtWork, WorksOn, Works, Task
  <1>4. Images' /\ Logged' /\ Outcomes'
    BY <1>1 DEF ISOInv, Images, Logged, Outcomes, HasImage, IsOver, WorksOn, Works, Task
  <1> QED
    BY <1>2, <1>3, <1>4 DEF ISOInv

-----------------------------------------------------------------------------
(* All together.                                                            *)

ISOStep == WorkerStep \/ Failure \/ \E p \in ISOs : ChiefStep(p)

LEMMA ISONext == ISOInv /\ ISOStep => ISOInv'
  <1> SUFFICES ASSUME ISOInv, ISOStep PROVE ISOInv'
    OBVIOUS
  <1>1. CASE WorkerStep
    BY <1>1, TakeTaskStep, ReceiveStep, PrepareStep, FindStep, UploadStep, NotifyStep, StoreStep
    DEF WorkerStep
  <1>2. CASE Failure
    BY <1>2, DiesStep, StopStep, ForeignStep DEF Failure
  <1>3. ASSUME NEW p \in ISOs, ChiefStep(p) PROVE ISOInv'
    BY <1>3, SendStep, RecordStep DEF ChiefStep
  <1> QED
    BY <1>1, <1>2, <1>3 DEF ISOStep

\* Logs are never removed, what was sent stays sent, and results stay.
LEMMA Monotone ==
  /\ ISOInv /\ ISOStep =>
       /\ logs \subseteq logs' /\ Sent \subseteq Sent'
       /\ \A q \in ISOs : state[q] \in Final => state'[q] = state[q]
  /\ \A p \in ISOs : ISOInv /\ BuildISO(p) =>
       /\ logs \subseteq logs' /\ Sent \subseteq Sent'
       /\ \A q \in ISOs : state[q] \in Final => state'[q] = state[q]
  <1>1. ASSUME ISOInv, ISOStep PROVE logs \subseteq logs'
    BY <1>1 DEF ISOStep, WorkerStep, Failure, ChiefStep, TakeTask, SetReceived, SetStarted, Prepare,
                RunScript, FindImage, UploadLog, SendJobNotification, StoreResult, WorkerDies,
                ChiefStops, ForeignDies, SendISOTask, RecordISOJob, CleanupOldJobs
  <1>2. ASSUME ISOInv, NEW p \in ISOs,
               \/ \E to \in {"sent", "rejected"} : Handler(p, "pending", to)
               \/ \E at \in {"sent", "recorded"}, to \in {"recorded", "answered", "cut"} :
                    Handler(p, at, to)
               \/ \E to \in {"pending", "rejected"} : Handler(p, "new", to)
        PROVE  Sent \subseteq Sent'
    BY <1>2 DEF Handler, Sent, ISOInv, ISOTypeOK
  <1>3. ASSUME ISOInv, ISOStep PROVE Sent \subseteq Sent'
    <2>1. CASE chief' = chief
      BY <2>1 DEF Sent
    <2>2. ASSUME NEW p \in ISOs, ChiefStep(p) \/ ChiefStops(p) PROVE Sent \subseteq Sent'
      BY <1>2, <1>3, <2>2 DEF ChiefStep, ChiefStops, SendISOTask, RecordISOJob, CleanupOldJobs
    <2>3. CASE WorkerStep \/ WorkerDies \/ \E p \in ISOs : ForeignDies(p)
      BY <2>1, <2>3 DEF WorkerStep, TakeTask, SetReceived, SetStarted, Prepare, RunScript,
         FindImage, UploadLog, SendJobNotification, StoreResult, WorkerDies, ForeignDies, chiefISO
    <2> QED
      BY <1>3, <2>2, <2>3 DEF ISOStep, Failure
  <1>4. ASSUME NEW p \in ISOs, ISOInv, BuildISO(p) PROVE logs \subseteq logs' /\ Sent \subseteq Sent'
    BY <1>2, <1>4 DEF BuildISO
  <1>5. ASSUME ISOInv, ISOStep \/ \E p \in ISOs : BuildISO(p), NEW q \in ISOs, state[q] \in Final
        PROVE  state'[q] = state[q]
    <2>1. CASE state' = state
      BY <2>1
    <2>2. CASE SetReceived \/ SetStarted \/ StoreResult
      <3>1. state[Task] \in InProgressState
        BY <1>5, <2>2 DEF SetReceived, SetStarted, StoreResult, Works, ISOInv, AtWork
      <3>2. q # Task
        BY <1>5, <3>1 DEF Final, InProgressState
      <3> QED
        BY <1>5, <2>2, <3>2 DEF SetReceived, SetStarted, StoreResult, Stores, ISOInv, ISOTypeOK
    <2>3. ASSUME NEW p \in ISOs, BuildISO(p) PROVE state'[q] = state[q]
      <3>1. state[p] = "none"
        BY <1>5, <2>3 DEF BuildISO, Handler, ISOInv, Waiting
      <3> QED
        BY <1>5, <2>3, <3>1 DEF BuildISO, Final, ISOInv, ISOTypeOK
    <2> QED
      BY <1>5, <2>1, <2>2, <2>3 DEF ISOStep, WorkerStep, Failure, ChiefStep, TakeTask, Prepare,
         RunScript, FindImage, UploadLog, SendJobNotification, WorkerDies, ChiefStops, ForeignDies,
         SendISOTask, RecordISOJob, CleanupOldJobs
  <1> QED
    BY <1>1, <1>3, <1>4, <1>5

-----------------------------------------------------------------------------
(* The commands, and the package pipelines.                                 *)

LEMMA FollowerIs ==
  ASSUME NEW f \in Follower
  PROVE  /\ f.at \in {"submitting", "isostatus", "isolog"} => f.of \in ISOs
         /\ f.at \in {"status", "log", "buildlog", "repolog"} => f.of \in Packages
  <1>1. CASE f = Ready
    BY <1>1 DEF Ready
  <1>2. CASE f \in [at : {"submitting", "isostatus", "isolog"}, of : ISOs]
    BY <1>2
  <1>3. CASE f \in [at : {"status", "log", "buildlog", "repolog"}, of : Packages]
    BY <1>3
  <1>4. CASE f.at = "answered"
    BY <1>4
  <1> QED
    BY <1>1, <1>2, <1>3, <1>4 DEF Follower

Answer == {"none", "DONE", "FAILED"}

LEMMA InFollower ==
  /\ Ready \in Follower /\ Ready.at = "idle"
  /\ \A step \in {"submitting", "isostatus", "isolog"}, p \in ISOs :
       [at |-> step, of |-> p] \in Follower
  /\ \A step \in {"status", "log", "buildlog", "repolog"}, k \in Packages :
       [at |-> step, of |-> k] \in Follower
  /\ \A p \in ISOs \cup Packages, shown \in Shown, s \in Answer :
       [at |-> "answered", of |-> p, shown |-> shown, state |-> s] \in Follower
  BY DEF Follower, Ready, Answer

LEMMA AnswersAre ==
  /\ \A s \in TaskState : /\ DeriveISOPipelineState(s) = "DONE" => s = "SUCCESS"
                          /\ DeriveISOPipelineState(s) = "FAILED" => s = "FAILURE"
  /\ \A b, s \in TaskState :
       DeriveBuildPipelineState(b, s) = "FAILED" => b = "FAILURE" \/ s = "FAILURE"
  BY DEF DeriveISOPipelineState, DeriveBuildPipelineState, TaskState, InProgressState

LEMMA AnsweredIs ==
  \A c \in Followers, shown \in Shown, s \in Answer :
    follower[c].of \in ISOs \cup Packages /\ Answered(c, shown, s) =>
      \E f \in Follower :
        /\ follower' = [follower EXCEPT ![c] = f]
        /\ f.at = "answered" /\ f.of = follower[c].of /\ f.shown = shown /\ f.state = s
  <1> SUFFICES ASSUME NEW c \in Followers, NEW shown \in Shown, NEW s \in Answer,
                      follower[c].of \in ISOs \cup Packages, Answered(c, shown, s)
               PROVE  \E f \in Follower :
                        /\ follower' = [follower EXCEPT ![c] = f]
                        /\ f.at = "answered" /\ f.of = follower[c].of
                        /\ f.shown = shown /\ f.state = s
    OBVIOUS
  <1> DEFINE new == [at |-> "answered", of |-> follower[c].of, shown |-> shown, state |-> s]
  <1>1. new \in Follower
    BY InFollower
  <1>2. new.at = "answered" /\ new.of = follower[c].of /\ new.shown = shown /\ new.state = s
    OBVIOUS
  <1>3. follower' = [follower EXCEPT ![c] = new]
    BY DEF Answered
  <1> QED
    BY <1>1, <1>2, <1>3

\* One command goes on, whatever it asked the chief to do.
LEMMA FollowerStep ==
  ASSUME Inv, ISOInv', NEW c \in Followers, NEW f \in Follower,
         follower' = [follower EXCEPT ![c] = f], package' = package,
         logs \subseteq logs', lastISO' \in Sent' \cup {None},
         \A p \in ISOs : state[p] \in Final => state'[p] = state[p], Kept(f)
  PROVE  Inv'
  <1>1. \A d \in Followers : follower'[d] = IF d = c THEN f ELSE follower[d]
    BY DEF Inv, TypeOK
  <1>2. TypeOK'
    BY DEF Inv, TypeOK, ISOInv
  <1>3. Shows'
    <2> SUFFICES ASSUME NEW d \in Followers PROVE Kept(follower[d])'
      BY DEF Shows
    <2>1. Kept(follower'[d])
      BY <1>1 DEF Inv, Shows
    <2> QED
      BY <2>1 DEF Kept, Final
  <1>4. PackageLogs'
    BY DEF Inv, PackageLogs
  <1> QED
    BY <1>2, <1>3, <1>4 DEF Inv

\* One command goes on, and nothing else.
LEMMA AskStep ==
  ASSUME Inv, NEW c \in Followers, NEW f \in Follower,
         follower' = [follower EXCEPT ![c] = f], UNCHANGED <<isoVars, package>>,
         lastISO' \in Sent \cup {None},
         Kept(f)
  PROVE  Inv'
  <1>1. UNCHANGED <<chief, submittedAt, rows, state, queue, worker, current, image, logs, told, lost>>
    BY DEF isoVars, chiefISO
  <1>2. ISOInv'
    BY <1>1 DEF Inv, ISOInv, ISOTypeOK, Sent, Waiting, AtWork, Images, Logged, Outcomes, HasImage, Export,
                IsOver, WorksOn, Works, Task
  <1>3. logs \subseteq logs' /\ Sent' = Sent
    BY <1>1 DEF Sent
  <1> QED
    BY <1>1, <1>2, <1>3, FollowerStep

LEMMA SubmitStep == \A c \in Followers, p \in ISOs : Inv /\ SubmitISO(c, p) => Inv'
  <1> SUFFICES ASSUME NEW c \in Followers, NEW p \in ISOs, Inv, SubmitISO(c, p) PROVE Inv'
    OBVIOUS
  <1>1. /\ ISOInv' /\ logs \subseteq logs' /\ Sent \subseteq Sent'
        /\ \A q \in ISOs : state[q] \in Final => state'[q] = state[q]
    BY BuildStep, Monotone DEF SubmitISO, Inv
  <1>2. PICK f \in Follower : follower' = [follower EXCEPT ![c] = f] /\ f.at = "submitting"
    BY InFollower DEF SubmitISO, Asks
  <1>3. package' = package /\ lastISO' \in Sent' \cup {None}
    BY <1>1 DEF SubmitISO, Inv, TypeOK
  <1>4. Kept(f)
    BY <1>2 DEF Kept
  <1> QED
    BY <1>1, <1>2, <1>3, <1>4, FollowerStep

\* The steps that show no log.
LEMMA RequestStep ==
  \A c \in Followers :
    /\ Inv
    /\ \/ SaveISOID(c) \/ GiveUp(c) \/ ISOStatus(c) \/ PackageStatus(c) \/ PackageLog(c)
       \/ FetchBuildLog(c)
       \/ \E step \in {"isostatus", "isolog"} : FollowISO(c, step)
       \/ \E k \in Packages : Follow(c, k)
    => Inv'
  <1> SUFFICES ASSUME NEW c \in Followers, Inv,
                      \/ SaveISOID(c) \/ GiveUp(c) \/ ISOStatus(c) \/ PackageStatus(c)
                      \/ PackageLog(c) \/ FetchBuildLog(c)
                      \/ \E step \in {"isostatus", "isolog"} : FollowISO(c, step)
                      \/ \E k \in Packages : Follow(c, k)
               PROVE  Inv'
    OBVIOUS
  <1> DEFINE this == follower[c]
  <1>1. /\ this \in Follower /\ lastISO \in Sent \cup {None} /\ state \in [ISOs -> TaskState]
        /\ package \in [Packages -> PackageRecord]
    BY DEF Inv, TypeOK, ISOTypeOK
  <1>2. UNCHANGED <<isoVars, package>>
    BY DEF SaveISOID, GiveUp, ISOStatus, PackageStatus, PackageLog, FetchBuildLog, FollowISO, Follow
  <1>3. ASSUME NEW f \in Follower, follower' = [follower EXCEPT ![c] = f],
               f.at = "answered" => f.shown = {} /\ f.state = "none", lastISO' \in Sent \cup {None}
        PROVE  Inv'
    <2>1. Kept(f)
      BY <1>3 DEF Kept
    <2> QED
      BY <1>2, <1>3, <2>1, AskStep
  <1>4. CASE Leaves(c) /\ lastISO' = lastISO
    BY <1>1, <1>3, <1>4, InFollower DEF Leaves
  <1>5. CASE SaveISOID(c)
    <2>1. this.of \in ISOs /\ this.of \in Sent
      BY <1>1, <1>5, FollowerIs DEF SaveISOID, At, Sent
    <2>2. {} \in Shown /\ "none" \in Answer /\ lastISO' \in Sent \cup {None}
      BY <1>1, <1>5, <2>1 DEF Shown, Answer, SaveISOID
    <2>3. Answered(c, {}, "none")
      BY <1>5 DEF SaveISOID
    <2>4. PICK f \in Follower : /\ follower' = [follower EXCEPT ![c] = f]
                                /\ f.at = "answered" /\ f.of = follower[c].of /\ f.shown = {} /\ f.state = "none"
      BY <2>1, <2>2, <2>3, AnsweredIs
    <2> QED
      BY <1>3, <2>2, <2>4
  <1>6. CASE ISOStatus(c)
    <2>1. this.of \in ISOs /\ state[this.of] \in TaskState /\ lastISO' = lastISO
      BY <1>1, <1>6, FollowerIs DEF ISOStatus, At
    <2>2. PICK s \in TaskState : /\ s \in {state[this.of], "none"}
                                /\ PrintStatus(c, DeriveISOPipelineState(s))
      BY <1>6, <2>1 DEF ISOStatus, GetTaskState, TaskState
    <2>3. ASSUME NEW a \in {"DONE", "FAILED"}, a = DeriveISOPipelineState(s), Answered(c, {}, a)
          PROVE  Inv'
      <3>1. PICK f \in Follower : /\ follower' = [follower EXCEPT ![c] = f] /\ f.of = this.of
                                  /\ f.at = "answered" /\ f.shown = {} /\ f.state = a
        BY <2>1, <2>3, AnsweredIs DEF Shown, Answer
      <3>2. Kept(f)
        BY <2>1, <2>2, <2>3, <3>1, AnswersAre DEF Kept
      <3> QED
        BY <1>1, <1>2, <2>1, <3>1, <3>2, AskStep
    <2> QED
      BY <1>4, <2>1, <2>2, <2>3 DEF PrintStatus
  <1>7. CASE PackageStatus(c)
    <2>1. /\ this.of \in Packages /\ package[this.of].state \in TaskState /\ lastISO' = lastISO
          /\ this.of \notin ISOs
      BY <1>1, <1>7, FollowerIs, FollowersAssumption DEF PackageStatus, At, PackageRecord
    <2>2. PICK b, s \in TaskState : /\ {b, s} \subseteq {package[this.of].state, "none"}
                                   /\ PrintStatus(c, DeriveBuildPipelineState(b, s))
      BY <1>7, <2>1 DEF PackageStatus, States, GetTaskState, TaskState
    <2>3. ASSUME NEW a \in {"DONE", "FAILED"}, a = DeriveBuildPipelineState(b, s),
                 Answered(c, {}, a)
          PROVE  Inv'
      <3>1. PICK f \in Follower : /\ follower' = [follower EXCEPT ![c] = f] /\ f.of = this.of
                                  /\ f.at = "answered" /\ f.shown = {} /\ f.state = a
        BY <2>1, <2>3, AnsweredIs DEF Shown, Answer
      <3>2. Kept(f)
        BY <2>1, <2>2, <2>3, <3>1, AnswersAre DEF Kept
      <3> QED
        BY <1>1, <1>2, <2>1, <3>1, <3>2, AskStep
    <2> QED
      BY <1>4, <2>1, <2>2, <2>3 DEF PrintStatus
  <1>8. ASSUME NEW step \in {"status", "log", "buildlog", "repolog"}, NEW k \in Packages,
               Asks(c, step, k), lastISO' = lastISO
        PROVE  Inv'
    BY <1>1, <1>3, <1>8, InFollower DEF Asks
  <1>9. ASSUME NEW step \in {"isostatus", "isolog"}, FollowISO(c, step) PROVE Inv'
    <2>1. lastISO' = lastISO
      BY <1>9 DEF FollowISO
    <2>2. ASSUME NEW p \in Sent, Asks(c, step, p) PROVE Inv'
      <3>1. p \in ISOs
        BY DEF Sent
      <3> QED
        BY <1>1, <1>3, <2>1, <2>2, <3>1, InFollower DEF Asks
    <2> QED
      BY <1>4, <1>9, <2>1, <2>2 DEF FollowISO
  <1>10. CASE PackageLog(c) \/ FetchBuildLog(c)
    <2>1. this.of \in Packages /\ lastISO' = lastISO
      BY <1>1, <1>10, FollowerIs DEF PackageLog, FetchBuildLog, At
    <2> QED
      BY <1>4, <1>8, <1>10, <2>1 DEF PackageLog, FetchBuildLog
  <1>11. CASE GiveUp(c)
    BY <1>4, <1>11 DEF GiveUp
  <1>12. ASSUME NEW k \in Packages, Follow(c, k) PROVE Inv'
    BY <1>8, <1>12 DEF Follow
  <1> QED
    BY <1>5, <1>6, <1>7, <1>9, <1>10, <1>11, <1>12

\* What is shown is what the chief has at that moment.
LEMMA ShowStep == \A c \in Followers : Inv /\ (ISOLog(c) \/ FetchRepoLog(c)) => Inv'
  <1> SUFFICES ASSUME NEW c \in Followers, Inv, ISOLog(c) \/ FetchRepoLog(c) PROVE Inv'
    OBVIOUS
  <1> DEFINE this == follower[c]
  <1>1. this \in Follower /\ UNCHANGED <<isoVars, package>> /\ lastISO' \in Sent \cup {None}
    BY DEF Inv, TypeOK, ISOLog, FetchRepoLog
  <1>2. CASE Leaves(c)
    <2>1. PICK f \in Follower : follower' = [follower EXCEPT ![c] = f] /\ f.at = "idle"
      BY <1>2, InFollower DEF Leaves
    <2> QED
      BY <1>1, <2>1, AskStep DEF Kept
  <1>3. CASE ISOLog(c) /\ ~Leaves(c)
    <2>1. /\ this.of \in ISOs /\ this.of \in logs /\ Answered(c, {"iso"}, "none")
          /\ {"iso"} \in Shown /\ "none" \in Answer
      BY <1>1, <1>3, FollowerIs DEF ISOLog, At, Fetch, Shown, Answer
    <2>2. PICK f \in Follower : /\ follower' = [follower EXCEPT ![c] = f]
                                /\ f.of \in logs /\ f.shown = {"iso"} /\ f.state = "none"
      <3>1. PICK shown \in Shown, s \in Answer : shown = {"iso"} /\ s = "none" /\ Answered(c, shown, s)
        BY <2>1
      <3>2. this.of \in ISOs \cup Packages
        BY <2>1
      <3>3. PICK f \in Follower : /\ follower' = [follower EXCEPT ![c] = f]
                                  /\ f.of = this.of /\ f.shown = shown /\ f.state = s
        BY ONLY <3>1, <3>2, AnsweredIs
      <3> QED
        BY <2>1, <3>1, <3>3
    <2> QED
      BY <1>1, <2>2, AskStep DEF Kept
  <1>4. CASE FetchRepoLog(c) /\ ~Leaves(c)
    <2>1. /\ this.of \in Packages /\ "repo" \in package[this.of].logs
          /\ Answered(c, {"build", "repo"}, "none") /\ {"build", "repo"} \in Shown /\ "none" \in Answer
      BY <1>1, <1>4, FollowerIs DEF FetchRepoLog, At, Fetch, Shown, Answer
    <2>2. PICK f \in Follower :
            /\ follower' = [follower EXCEPT ![c] = f]
            /\ f.of \in Packages /\ "repo" \in package[f.of].logs /\ f.shown = {"build", "repo"}
            /\ f.state = "none"
      <3>1. PICK shown \in Shown, s \in Answer : shown = {"build", "repo"} /\ s = "none" /\ Answered(c, shown, s)
        BY <2>1
      <3>2. this.of \in ISOs \cup Packages
        BY <2>1
      <3>3. PICK f \in Follower : /\ follower' = [follower EXCEPT ![c] = f]
                                  /\ f.of = this.of /\ f.shown = shown /\ f.state = s
        BY ONLY <3>1, <3>2, AnsweredIs
      <3> QED
        BY <2>1, <3>1, <3>3
    <2> QED
      BY <1>1, <2>2, AskStep DEF Kept
  <1> QED
    BY <1>2, <1>3, <1>4

\* A package pipeline goes on; the log of its injection comes when that is decided.
LEMMA PackageMoves ==
  ASSUME NEW k \in Packages, Inv, PackageStep(k)
  PROVE  \E n \in PackageRecord :
           /\ package' = [package EXCEPT ![k] = n] /\ package[k].logs \subseteq n.logs
           /\ "repo" \in n.logs => n.task = "repo" /\ n.outcome # "none"
           /\ package[k].state # "FAILURE"
  <1> DEFINE r == package[k]
  <1>1. /\ r.task \in {"build", "repo"} /\ r.logs \in SUBSET {"build", "repo"}
        /\ r.state \in TaskState /\ r.outcome \in {"none"} \cup Final
        /\ r = [task |-> r.task, state |-> r.state, outcome |-> r.outcome, logs |-> r.logs]
        /\ "repo" \in r.logs => r.task = "repo" /\ r.outcome # "none"
    BY DEF Inv, TypeOK, PackageLogs, PackageRecord
  <1>2. {"PENDING", "RECEIVED", "STARTED", "SUCCESS", "FAILURE"} \subseteq TaskState
    BY DEF TaskState, InProgressState, Final
  <1>3. ASSUME NEW n, PackageBecomes(k, n),
               NEW t \in {"build", "repo"}, NEW s \in TaskState, NEW o \in {"none"} \cup Final,
               NEW l \in SUBSET {"build", "repo"},
               n = [task |-> t, state |-> s, outcome |-> o, logs |-> l],
               r.logs \subseteq l, "repo" \in l => t = "repo" /\ o # "none", r.state # "FAILURE"
        PROVE  \E m \in PackageRecord :
                 /\ package' = [package EXCEPT ![k] = m] /\ r.logs \subseteq m.logs
                 /\ "repo" \in m.logs => m.task = "repo" /\ m.outcome # "none"
                 /\ r.state # "FAILURE"
    <2>1. n \in PackageRecord
      BY <1>3 DEF PackageRecord
    <2>2. n.task = t /\ n.outcome = o /\ n.logs = l
      BY <1>3
    <2>3. package' = [package EXCEPT ![k] = n]
      BY <1>3 DEF PackageBecomes
    <2> QED
      BY <1>3, <2>1, <2>2, <2>3
  <1>4. CASE BeginPackage(k, r)
    <2>1. PICK s \in {"RECEIVED", "STARTED"} :
            PackageBecomes(k, [r EXCEPT !.state = s]) /\ r.state # "FAILURE"
      BY <1>4 DEF BeginPackage, Queued
    <2>2. [r EXCEPT !.state = s] = [task |-> r.task, state |-> s, outcome |-> r.outcome, logs |-> r.logs]
      BY <1>1
    <2> QED
      BY <1>1, <1>2, <1>3, <2>1, <2>2
  <1>5. CASE Running(r) /\ FinishPackage(k, r)
    <2>1. PICK o \in Final, l \in {{}, {r.task}} :
            PackageBecomes(k, [task |-> r.task, state |-> r.state, outcome |-> o,
                               logs |-> r.logs \cup l])
      BY <1>5 DEF FinishPackage
    <2>2. r.state = "STARTED" /\ o # "none" /\ r.logs \cup l \in SUBSET {"build", "repo"}
      BY <1>1, <1>5 DEF Running, Final
    <2>3. "repo" \in r.logs \cup l => r.task = "repo"
      BY <1>1
    <2> QED
      BY <1>1, <1>3, <2>1, <2>2, <2>3
  <1>6. CASE StorePackage(k, r)
    <2>1. /\ PackageBecomes(k, [r EXCEPT !.state = r.outcome])
          /\ r.state = "STARTED" /\ r.outcome \in TaskState
      BY <1>1, <1>2, <1>6 DEF StorePackage, Final
    <2>2. [r EXCEPT !.state = r.outcome] =
            [task |-> r.task, state |-> r.outcome, outcome |-> r.outcome, logs |-> r.logs]
      BY <1>1
    <2> QED
      BY <1>1, <1>3, <2>1, <2>2
  <1>7. CASE ChainRepo(k, r)
    <2>1. /\ PackageBecomes(k, [task |-> "repo", state |-> "PENDING", outcome |-> "none",
                                logs |-> r.logs])
          /\ r.state = "SUCCESS" /\ "repo" \notin r.logs
      BY <1>1, <1>7 DEF ChainRepo
    <2> QED
      BY <1>1, <1>2, <1>3, <2>1
  <1> QED
    BY <1>4, <1>5, <1>6, <1>7 DEF PackageStep

LEMMA PackageNext == \A k \in Packages : Inv /\ PackageStep(k) => Inv'
  <1> SUFFICES ASSUME NEW k \in Packages, Inv, PackageStep(k) PROVE Inv'
    OBVIOUS
  <1> DEFINE r == package[k]
  <1>1. UNCHANGED <<isoVars, follower, lastISO>>
    BY DEF PackageStep, BeginPackage, FinishPackage, StorePackage, ChainRepo, PackageBecomes
  <1>2. package \in [Packages -> PackageRecord]
    BY DEF Inv, TypeOK
  <1>3. PICK n \in PackageRecord :
          /\ package' = [package EXCEPT ![k] = n] /\ r.logs \subseteq n.logs
          /\ "repo" \in n.logs => n.task = "repo" /\ n.outcome # "none"
          /\ r.state # "FAILURE"
    BY PackageMoves
  <1>4. \A m \in Packages : package'[m] = IF m = k THEN n ELSE package[m]
    BY <1>2, <1>3
  <1>5. ISOInv'
    BY <1>1 DEF isoVars, chiefISO, Inv, ISOInv, ISOTypeOK, Sent, Waiting, AtWork, Images, Logged,
                Outcomes, HasImage, IsOver, WorksOn, Works, Task
  <1>6. TypeOK'
    BY <1>1, <1>2, <1>3, <1>5 DEF isoVars, chiefISO, Inv, TypeOK, ISOInv, Sent
  <1>7. PackageLogs'
    BY <1>1, <1>3, <1>4 DEF isoVars, chiefISO, Inv, PackageLogs
  <1>8. Shows'
    <2> SUFFICES ASSUME NEW c \in Followers PROVE Kept(follower[c])'
      BY DEF Shows
    <2>1. Kept(follower[c])
      BY DEF Inv, Shows
    <2> QED
      BY <1>1, <1>3, <1>4, <2>1 DEF isoVars, chiefISO, Kept
  <1> QED
    BY <1>5, <1>6, <1>7, <1>8 DEF Inv

-----------------------------------------------------------------------------
(* The theorems.                                                            *)

LEMMA InitInv == Init => Inv
  <1> SUFFICES ASSUME Init PROVE Inv
    OBVIOUS
  <1>1. /\ queue = {} /\ logs = {} /\ lost = {} /\ rows = Past /\ worker = Idle
        /\ told = [p \in ISOs |-> {}] /\ lastISO = None
        /\ state \in [ISOs -> {"none"} \cup Final] /\ (\A p \in ISOs : state[p] = "none" <=> p \notin Past)
        /\ \A p \in ISOs : chief[p] = IF p \in Past THEN "answered" ELSE "new"
        /\ \A p \in ISOs : image[p] = IF state[p] = "SUCCESS" THEN p ELSE None
        /\ current \in {None} \cup {p \in Past : state[p] = "SUCCESS"}
    BY DEF Init, ISOInit
  <1>2. ISOTypeOK
    <2>1. submittedAt \in [ISOs -> Nat]
      <3>1. Cardinality(Past) \in Nat
        BY ISOAssumption, FS_Subset, FS_CardinalityType
      <3> QED
        BY <3>1 DEF Init, ISOInit
    <2>2. /\ chief \in [ISOs -> {"new", "pending", "sent", "recorded", "answered", "rejected", "cut"}]
          /\ image \in [ISOs -> Export]
          /\ told \in [ISOs -> SUBSET {"SUCCESS", "FAILED"}]
      BY DEF Init, ISOInit, Export
    <2>3. state \in [ISOs -> TaskState]
      BY <1>1 DEF TaskState, Final
    <2>4. current \in Export
      BY <1>1, ISOAssumption DEF Export
    <2>5. rows \subseteq Sent
      BY <1>1, ISOAssumption DEF Sent
    <2> QED
      BY <1>1, <2>1, <2>2, <2>3, <2>4, <2>5, InWorker DEF ISOTypeOK
  <1>3. Idle.phase = "idle"
    BY DEF Idle
  <1>4. (\A p \in ISOs : Waiting(p)) /\ AtWork /\ Logged
    BY <1>1, <1>3 DEF Waiting, AtWork, Logged, WorksOn, Works
  <1>5. Images
    <2>1. \A p \in ISOs : image[p] \in {None, p}
      BY <1>1
    <2>2. HasImage => state[current] \in Final
      BY <1>1 DEF HasImage, Final
    <2> QED
      BY <2>1, <2>2 DEF Images, IsOver
  <1>6. Outcomes
    BY <1>1, ISOAssumption DEF Outcomes
  <1>7. TypeOK /\ Shows /\ PackageLogs
    <2>1. [task |-> "build", state |-> "PENDING", outcome |-> "none", logs |-> {}] \in PackageRecord
      BY DEF PackageRecord, TaskState, InProgressState
    <2>2. TypeOK
      BY <1>1, <1>2, <2>1, InFollower DEF Init, TypeOK
    <2>3. Shows /\ PackageLogs
      BY InFollower DEF Init, Shows, Kept, PackageLogs
    <2> QED
      BY <2>2, <2>3
  <1> QED
    BY <1>2, <1>4, <1>5, <1>6, <1>7 DEF Inv, ISOInv

LEMMA NextInv == Inv /\ [Next]_vars => Inv'
  <1> SUFFICES ASSUME Inv, [Next]_vars PROVE Inv'
    OBVIOUS
  <1>1. CASE UNCHANGED vars
    BY <1>1 DEF vars, isoVars, chiefISO, Inv, TypeOK, ISOInv, ISOTypeOK, Sent, Waiting, AtWork,
                Images, Logged, Outcomes, HasImage, IsOver, WorksOn, Works, Task, Shows, Kept,
                PackageLogs
  <1>2. ASSUME NEW c \in Followers, Command(c) PROVE Inv'
    BY <1>2, SubmitStep, RequestStep, ShowStep DEF Command
  <1>3. ASSUME NEW k \in Packages, PackageStep(k) PROVE Inv'
    BY <1>3, PackageNext
  <1>4. CASE Server(ISOStep)
    <2>1. /\ ISOInv' /\ logs \subseteq logs' /\ Sent \subseteq Sent'
          /\ \A q \in ISOs : state[q] \in Final => state'[q] = state[q]
      BY <1>4, ISONext, Monotone DEF Server, Inv
    <2>2. UNCHANGED <<package, follower, lastISO>>
      BY <1>4 DEF Server
    <2>3. TypeOK'
      BY <2>1, <2>2 DEF Inv, TypeOK, ISOInv
    <2>4. PackageLogs'
      BY <2>2 DEF Inv, PackageLogs
    <2>5. Shows'
      <3> SUFFICES ASSUME NEW c \in Followers PROVE Kept(follower[c])'
        BY DEF Shows
      <3>1. Kept(follower[c])
        BY DEF Inv, Shows
      <3> QED
        BY <2>1, <2>2, <3>1 DEF Kept, Final
    <2> QED
      BY <2>1, <2>3, <2>4, <2>5 DEF Inv
  <1> QED
    BY <1>1, <1>2, <1>3, <1>4 DEF Next, Server, ISOStep

LEMMA Invariant == Spec => []Inv
  BY InitInv, NextInv, PTL DEF Spec

\* The values of all variables stay in their sets, and a row of iso_jobs is of a task
\* that was sent.
THEOREM TypeCorrect == Spec => []TypeOK
  <1>1. Inv => TypeOK
    BY DEF Inv
  <1> QED
    BY <1>1, Invariant, PTL

\* The webhook hears one status of a task at most, and none that differs from the result
\* stored later, for any number of attempts whose answers are lost.
THEOREM NotificationsDoAgree == Spec => []NotificationsAgree
  <1>1. Inv => NotificationsAgree
    <2> SUFFICES ASSUME Inv, NEW p \in ISOs
                 PROVE  /\ Cardinality(told[p]) <= 1
                        /\ state[p] = "SUCCESS" => told[p] \subseteq {"SUCCESS"}
                        /\ state[p] = "FAILURE" => told[p] \subseteq {"FAILED"}
      BY DEF NotificationsAgree
    <2>1. told[p] \subseteq {"SUCCESS"} \/ told[p] \subseteq {"FAILED"}
      BY DEF Inv, ISOInv, Outcomes
    <2>2. CASE told[p] = {}
      BY <2>2, FS_EmptySet DEF Inv, ISOInv, Outcomes
    <2>3. ASSUME NEW s, told[p] = {s} PROVE Cardinality(told[p]) <= 1
      BY <2>3, FS_Singleton
    <2>4. Cardinality(told[p]) <= 1
      <3>1. told[p] = {} \/ told[p] = {"SUCCESS"} \/ told[p] = {"FAILED"}
        BY <2>1
      <3> QED
        BY <2>2, <2>3, <3>1, FS_EmptySet
    <2> QED
      BY <2>4 DEF Inv, ISOInv, Outcomes
  <1> QED
    BY <1>1, Invariant, PTL

\* A task that is reported or stored as a success has found an image, and if that is not
\* its own, then of a task that was over or whose worker had died.
THEOREM SuccessDoesHaveImage == Spec => []SuccessHasImage
  <1>1. Inv => SuccessHasImage
    <2> SUFFICES ASSUME Inv, NEW p \in ISOs, state[p] = "SUCCESS" \/ "SUCCESS" \in told[p]
                 PROVE  /\ image[p] # None
                        /\ image[p] # p => state[image[p]] \in Final \/ image[p] \in lost
      BY DEF SuccessHasImage
    <2>1. image[p] # None
      BY DEF Inv, ISOInv, Outcomes
    <2>2. image[p] # p => IsOver(image[p])
      BY <2>1 DEF Inv, ISOInv, Images
    <2> QED
      BY <2>1, <2>2 DEF IsOver
  <1> QED
    BY <1>1, Invariant, PTL

\* What status and log answer stays true of the pipeline, for any number of users and
\* pipelines: logs are of tasks whose commands are over, a failure is final, and so is an ISO's success.
THEOREM AnswersStayFinal == Spec => []AnswersAreFinal
  <1>1. Inv => AnswersAreFinal
    <2> SUFFICES ASSUME Inv, NEW c \in Followers, At(c, "answered")
                 PROVE  LET p == follower[c].of IN
                        /\ "iso" \in follower[c].shown =>
                             \/ p \in lost \/ state[p] \in Final
                             \/ worker.phase \in {"notify", "return"} /\ worker.task = p
                        /\ "repo" \in follower[c].shown =>
                             package[p].task = "repo" /\ package[p].outcome # "none"
                        /\ follower[c].state = "FAILED" =>
                             (IF p \in ISOs THEN state[p] ELSE package[p].state) = "FAILURE"
                        /\ follower[c].state = "DONE" /\ p \in ISOs => state[p] = "SUCCESS"
      BY DEF AnswersAreFinal
    <2>1. Kept(follower[c]) /\ follower[c].at = "answered"
      BY DEF Inv, Shows, At
    <2>2. /\ "iso" \in follower[c].shown => follower[c].of \in logs
          /\ "repo" \in follower[c].shown =>
               follower[c].of \in Packages /\ "repo" \in package[follower[c].of].logs
      BY <2>1 DEF Kept
    <2>3. follower[c].state = "FAILED" =>
            (IF follower[c].of \in ISOs THEN state[follower[c].of]
                                        ELSE package[follower[c].of].state) = "FAILURE"
      BY <2>1, FollowersAssumption DEF Kept
    <2>4. follower[c].state = "DONE" /\ follower[c].of \in ISOs => state[follower[c].of] = "SUCCESS"
      BY <2>1 DEF Kept
    <2> QED
      BY <2>2, <2>3, <2>4 DEF Inv, ISOInv, Logged, IsOver, Task, PackageLogs
  <1> QED
    BY <1>1, Invariant, PTL

-----------------------------------------------------------------------------
(* A lost task stays lost, and the timestamps of BuildISO order the           *)
(* submissions.                                                              *)

Gone == \A p \in lost : p \notin queue /\ ~WorksOn(p) /\ chief[p] \notin {"new", "pending"}

Stamps ==
  /\ \A p \in ISOs : submittedAt[p] <= Seen
  /\ \A p, q \in ISOs : submittedAt[p] = submittedAt[q] => p = q \/ submittedAt[p] = 0
  /\ \A p \in ISOs : chief[p] = "new" => submittedAt[p] = 0
  /\ \A p \in ISOs : chief[p] \notin {"new", "rejected"} => submittedAt[p] # 0

\* An attempt to notify keeps the task and its outcome.
LEMMA Notified ==
  ASSUME ISOInv, SendJobNotification
  PROVE  /\ worker'.task = worker.task /\ worker'.ok = worker.ok
         /\ worker'.phase \in {"notify", "return"}
  <1>1. worker \in [phase : {"notify"}, task : ISOs, ok : BOOLEAN, attempt : 1 .. Attempts]
    BY WorkerIs DEF SendJobNotification, Works, ISOInv, ISOTypeOK
  <1>2. worker' = [worker EXCEPT !.attempt = worker.attempt + 1] \/ Returns(worker.ok)
    BY DEF SendJobNotification
  <1>3. CASE worker' = [worker EXCEPT !.attempt = worker.attempt + 1]
    BY <1>1, <1>3
  <1>4. CASE Returns(worker.ok)
    BY <1>4 DEF Returns, Task
  <1> QED
    BY <1>2, <1>3, <1>4

\* What a step of the chief, the worker or a failure does to a task's message.
LEMMA MessageMoves ==
  ASSUME ISOInv, Gone, ISOStep
  PROVE  /\ UNCHANGED submittedAt
         /\ \A q \in ISOs :
              /\ chief'[q] = "new" <=> chief[q] = "new"
              /\ chief'[q] = "pending" => chief[q] = "pending"
              /\ chief[q] = "rejected" => chief'[q] = "rejected"
              /\ q \in queue' => q \in queue \/ chief[q] = "pending"
              /\ WorksOn(q)' => WorksOn(q) \/ q \in queue
              /\ q \in lost' => q \in lost \/ ((q \in queue \/ WorksOn(q)) /\ q \notin queue' /\ ~WorksOn(q)')
  <1>1. UNCHANGED submittedAt
    BY DEF ISOStep, WorkerStep, Failure, ChiefStep, TakeTask, SetReceived, SetStarted, Prepare,
           RunScript, FindImage, UploadLog, SendJobNotification, StoreResult, WorkerDies,
           ChiefStops, ForeignDies, SendISOTask, RecordISOJob, CleanupOldJobs, chiefISO
  <1>2. chief \in [ISOs -> {"new", "pending", "sent", "recorded", "answered", "rejected", "cut"}]
    BY DEF ISOInv, ISOTypeOK
  <1>3. ASSUME NEW p \in ISOs, ChiefStep(p) \/ ChiefStops(p)
        PROVE  \A q \in ISOs :
              /\ chief'[q] = "new" <=> chief[q] = "new"
              /\ chief'[q] = "pending" => chief[q] = "pending"
              /\ chief[q] = "rejected" => chief'[q] = "rejected"
              /\ q \in queue' => q \in queue \/ chief[q] = "pending"
              /\ worker' = worker /\ lost' = lost
    <2>1. PICK to \in {"sent", "recorded", "answered", "rejected", "cut"} :
            chief' = [chief EXCEPT ![p] = to] /\ chief[p] \in {"pending", "sent", "recorded"}
      BY <1>3 DEF ChiefStep, ChiefStops, SendISOTask, RecordISOJob, CleanupOldJobs, Handler
    <2>2. queue' = queue \/ (chief[p] = "pending" /\ queue' = queue \cup {p})
      BY <1>3 DEF ChiefStep, ChiefStops, SendISOTask, RecordISOJob, CleanupOldJobs, Handler
    <2>3. worker' = worker /\ lost' = lost
      BY <1>3 DEF ChiefStep, ChiefStops, SendISOTask, RecordISOJob, CleanupOldJobs
    <2> QED
      BY <1>2, <2>1, <2>2, <2>3
  <1>4. ASSUME NEW p \in ISOs, TakeTask(p)
        PROVE  UNCHANGED <<chief, lost>> /\ queue' \subseteq queue /\ p \in queue /\ worker'.task = p
    BY <1>4 DEF TakeTask, chiefISO
  <1>5. ASSUME SetReceived \/ SetStarted \/ Prepare \/ RunScript \/ FindImage \/ UploadLog
               \/ SendJobNotification
        PROVE  UNCHANGED <<chief, lost, queue>> /\ ~Works("idle") /\ worker'.task = worker.task
    <2>1. CASE SendJobNotification
      BY <2>1, Notified DEF SendJobNotification, chiefISO, Works
    <2>2. CASE ~SendJobNotification
      BY <1>5, <2>2 DEF SetReceived, SetStarted, Prepare, RunScript, FindImage, UploadLog,
                        chiefISO, Works, Proceeds, Ends, Returns, Task
    <2> QED
      BY <2>1, <2>2
  <1>6. ASSUME StoreResult \/ WorkerDies
        PROVE  /\ UNCHANGED <<chief, queue>> /\ ~Works("idle") /\ worker' = Idle
               /\ lost' \subseteq lost \cup {Task}
    BY <1>6 DEF StoreResult, WorkerDies, chiefISO, Works
  <1>7. ASSUME NEW p \in ISOs, ForeignDies(p)
        PROVE  /\ UNCHANGED <<chief, worker>> /\ p \in queue /\ queue' = queue \ {p}
               /\ lost' = lost \cup {p}
    BY <1>7 DEF ForeignDies, chiefISO
  <1>8. Idle.phase = "idle"
    BY DEF Idle
  <1>9. \A q \in ISOs : q \in queue => ~WorksOn(q)
    BY DEF ISOInv, Waiting
  <1>10. CASE \E p \in ISOs : ChiefStep(p) \/ ChiefStops(p)
    BY <1>1, <1>3, <1>10 DEF WorksOn, Works, Task
  <1>11. CASE \E p \in ISOs : TakeTask(p)
    <2>1. PICK p \in ISOs : TakeTask(p)
      BY <1>11
    <2>2. UNCHANGED <<chief, lost>> /\ queue' \subseteq queue /\ p \in queue /\ worker'.task = p
      BY <1>4, <2>1
    <2>3. \A q \in ISOs : WorksOn(q)' => q = p
      BY <2>2 DEF WorksOn, Task
    <2> QED
      BY <1>1, <2>2, <2>3
  <1>12. CASE SetReceived \/ SetStarted \/ Prepare \/ RunScript \/ FindImage \/ UploadLog
              \/ SendJobNotification
    BY <1>1, <1>5, <1>12 DEF WorksOn, Works, Task
  <1>13. CASE StoreResult \/ WorkerDies
    BY <1>1, <1>6, <1>8, <1>9, <1>13 DEF WorksOn, Works, Task
  <1>14. CASE \E p \in ISOs : ForeignDies(p)
    BY <1>1, <1>7, <1>9, <1>14 DEF WorksOn, Works, Task
  <1> QED
    BY <1>10, <1>11, <1>12, <1>13, <1>14 DEF ISOStep, WorkerStep, Failure

\* A step of Followers starts a submission, goes on with one or leaves ISO pipelines alone.
LEMMA StepIs == [Next]_vars => UNCHANGED isoVars \/ ISOStep \/ \E p \in ISOs : BuildISO(p)
  <1>1. CASE UNCHANGED vars
    BY <1>1 DEF vars
  <1>2. ASSUME NEW c \in Followers, Command(c)
        PROVE  UNCHANGED isoVars \/ \E p \in ISOs : BuildISO(p)
    BY <1>2 DEF Command, SubmitISO, FollowISO, Follow, SaveISOID, GiveUp, ISOStatus, ISOLog,
                PackageStatus, PackageLog, FetchBuildLog, FetchRepoLog
  <1>3. ASSUME NEW k \in Packages, PackageStep(k) PROVE UNCHANGED isoVars
    BY <1>3 DEF PackageStep, BeginPackage, FinishPackage, StorePackage, ChainRepo, PackageBecomes
  <1> QED
    BY <1>1, <1>2, <1>3 DEF Next, Server, ISOStep

LEMMA BuildGone == \A p \in ISOs : ISOInv /\ Gone /\ BuildISO(p) => Gone'
  <1> SUFFICES ASSUME NEW p \in ISOs, ISOInv, Gone, BuildISO(p) PROVE Gone'
    OBVIOUS
  <1>1. /\ chief[p] = "new" /\ UNCHANGED <<queue, worker, lost>>
        /\ lost \subseteq ISOs /\ \A q \in ISOs : q # p => chief'[q] = chief[q]
    BY DEF BuildISO, Handler, ISOInv, ISOTypeOK
  <1> QED
    BY <1>1 DEF Gone, WorksOn, Works, Task

\* The timestamp of a new submission is later than all before it.
LEMMA BuildStamps == \A p \in ISOs : ISOInv /\ Stamps /\ BuildISO(p) => Stamps'
  <1> SUFFICES ASSUME NEW p \in ISOs, ISOInv, Stamps, BuildISO(p) PROVE Stamps'
    OBVIOUS
  <1> DEFINE Old == {q \in ISOs : submittedAt[q] # 0}
             New == {q \in ISOs : submittedAt'[q] # 0}
  <1>1. /\ chief[p] = "new" /\ submittedAt[p] = 0 /\ Seen \in Nat
        /\ submittedAt \in [ISOs -> Nat] /\ chief'[p] \in {"pending", "rejected"}
        /\ \A q \in ISOs : q # p => chief'[q] = chief[q]
    BY SeenIsNat DEF BuildISO, Handler, ISOInv, ISOTypeOK, Stamps
  <1>2. CASE UNCHANGED submittedAt /\ chief'[p] = "rejected"
    BY <1>1, <1>2 DEF Stamps, Seen
  <1>3. CASE submittedAt' = [submittedAt EXCEPT ![p] = Seen + 1]
    <2>1. \A q \in ISOs : submittedAt'[q] = IF q = p THEN Seen + 1 ELSE submittedAt[q]
      BY <1>1, <1>3
    <2>2. New = Old \cup {p} /\ p \notin Old /\ IsFiniteSet(Old)
      BY <1>1, <2>1, ISOAssumption, FS_Subset
    <2>3. Seen' = Seen + 1
      <3>1. Cardinality(New) = Cardinality(Old) + 1
        <4> HIDE DEF Old, New
        <4> QED
          BY <2>2, FS_AddElement
      <3> QED
        BY <3>1 DEF Seen
    <2> QED
      BY <1>1, <2>1, <2>3 DEF Stamps
  <1> QED
    BY <1>1, <1>2, <1>3 DEF BuildISO, Handler, ISOInv, ISOTypeOK

LEMMA InitOrder == Init => Gone /\ Stamps
  <1> SUFFICES ASSUME Init PROVE Gone /\ Stamps
    OBVIOUS
  <1>1. /\ submittedAt \in [ISOs -> 0 .. Cardinality(Past)]
        /\ \A p \in ISOs : submittedAt[p] = 0 <=> p \notin Past
        /\ \A p, q \in Past : submittedAt[p] = submittedAt[q] => p = q
        /\ \A p \in ISOs : chief[p] = IF p \in Past THEN "answered" ELSE "new"
        /\ lost = {}
    BY DEF Init, ISOInit
  <1>2. {p \in ISOs : submittedAt[p] # 0} = Past
    BY <1>1, ISOAssumption
  <1>3. Cardinality(Past) \in Nat /\ Seen = Cardinality(Past)
    BY <1>2, ISOAssumption, FS_Subset, FS_CardinalityType DEF Seen
  <1> QED
    BY <1>1, <1>3 DEF Gone, Stamps

LEMMA NextOrder == Inv /\ Gone /\ Stamps /\ [Next]_vars => Gone' /\ Stamps'
  <1> SUFFICES ASSUME Inv, Gone, Stamps, [Next]_vars PROVE Gone' /\ Stamps'
    OBVIOUS
  <1>1. ISOInv
    BY DEF Inv
  <1>2. CASE UNCHANGED isoVars
    BY <1>2 DEF isoVars, chiefISO, Gone, Stamps, Seen, WorksOn, Works, Task
  <1>3. CASE ISOStep
    <2>1. Gone'
      <3>1. lost \subseteq ISOs /\ lost' \subseteq ISOs
        BY <1>1, <1>3, ISONext DEF ISOInv, ISOTypeOK
      <3>2. ASSUME NEW q \in ISOs, q \in lost'
            PROVE  q \notin queue' /\ ~WorksOn(q)' /\ chief'[q] \notin {"new", "pending"}
        <4>1. q \in lost => q \notin queue /\ ~WorksOn(q) /\ chief[q] \notin {"new", "pending"}
          BY DEF Gone
        <4>2. q \in queue \/ WorksOn(q) => chief[q] \notin {"new", "pending"}
          BY <1>1 DEF ISOInv, Waiting
        <4> QED
          BY <1>1, <1>3, <3>2, <4>1, <4>2, MessageMoves
      <3> QED
        BY <3>1, <3>2 DEF Gone, WorksOn, Works, Task
    <2>2. Stamps'
      <3>1. /\ UNCHANGED submittedAt
            /\ \A q \in ISOs : /\ chief'[q] = "new" <=> chief[q] = "new"
                               /\ chief[q] = "rejected" => chief'[q] = "rejected"
        BY <1>1, <1>3, MessageMoves
      <3>2. \A q \in ISOs : chief[q] \in {"new", "pending", "sent", "recorded", "answered", "rejected", "cut"}
        BY <1>1 DEF ISOInv, ISOTypeOK
      <3> QED
        BY <3>1, <3>2 DEF Stamps, Seen
    <2> QED
      BY <2>1, <2>2
  <1>4. ASSUME NEW p \in ISOs, BuildISO(p) PROVE Gone' /\ Stamps'
    BY <1>1, <1>4, BuildGone, BuildStamps
  <1>5. UNCHANGED isoVars \/ ISOStep \/ \E p \in ISOs : BuildISO(p)
    BY StepIs
  <1> QED
    BY <1>2, <1>3, <1>4, <1>5

LEMMA Ordered == Spec => [](Inv /\ Gone /\ Stamps)
  BY InitInv, InitOrder, NextInv, NextOrder, PTL DEF Spec

-----------------------------------------------------------------------------
(* Rows of iso_jobs.                                                        *)

\* The rows of a trimmed table, and those it loses.
LEMMA TrimKeepsNewest ==
  ASSUME NEW p \in ISOs, ISOInv, Stamps, CleanupOldJobs(p),
         NEW v \in rows, v \notin rows'
  PROVE  /\ rows' = Newest(rows)
         /\ Cardinality({q \in rows' : submittedAt[q] > submittedAt[v]}) >= MaxISOJobs
         /\ IsFiniteSet(rows') /\ Cardinality(rows') <= MaxISOJobs
  <1> DEFINE S == rows
  <1>1. rows' = Newest(S)
    BY DEF CleanupOldJobs
  <1>2. Newest(S) = MostRecent(S, submittedAt, MaxISOJobs)
    BY DEF Newest, MostRecent, Later
  <1>3. /\ IsFiniteSet(S) /\ S \subseteq ISOs /\ v \in S
        /\ MaxISOJobs \in Nat /\ \A q \in S : submittedAt[q] \in Nat
    <2>1. S \subseteq ISOs
      BY DEF ISOInv, ISOTypeOK, Sent
    <2> QED
      BY <2>1, ISOAssumption, FS_Subset DEF ISOInv, ISOTypeOK
  <1>4. \A q, u \in S : submittedAt[q] = submittedAt[u] => q = u
    <2>1. \A q \in S : q \in ISOs /\ submittedAt[q] # 0
      BY DEF ISOInv, ISOTypeOK, Sent, Stamps, CleanupOldJobs, Handler
    <2> HIDE DEF S
    <2> QED
      BY <2>1 DEF Stamps
  <1> HIDE DEF S
  <1>5. Cardinality(Later(rows', submittedAt, v)) >= MaxISOJobs
    BY <1>1, <1>2, <1>3, NewestAreMany
  <1>6. Cardinality(rows') <= MaxISOJobs /\ IsFiniteSet(rows')
    <2>1. Cardinality(MostRecent(S, submittedAt, MaxISOJobs)) <= MaxISOJobs
      BY <1>3, <1>4, NewestAreFew
    <2>2. rows' \subseteq S
      BY <1>1 DEF Newest
    <2> QED
      BY <1>1, <1>2, <1>3, <2>1, <2>2, FS_Subset
  <1> QED
    BY <1>1, <1>5, <1>6 DEF Later, S

LEMMA OnlyCleanupTrims ==
  ASSUME [Next]_vars, NEW v \in rows, v \notin rows'
  PROVE  \E p \in ISOs : CleanupOldJobs(p)
  <1>1. CASE ISOStep
    BY <1>1 DEF ISOStep, WorkerStep, Failure, ChiefStep, TakeTask, SetReceived, SetStarted, Prepare,
         RunScript, FindImage, UploadLog, SendJobNotification, StoreResult, WorkerDies,
         ChiefStops, ForeignDies, SendISOTask, RecordISOJob, chiefISO
  <1> QED
    BY <1>1, StepIs DEF isoVars, chiefISO, BuildISO

\* A row of iso_jobs disappears only while MaxISOJobs rows submitted later remain, in
\* whatever order the answers of several submissions are recorded.
THEOREM ISORowsEvictOldest == Spec => ISOEvictsOldest
  <1>1. ASSUME Inv, Stamps, [Next]_vars, NEW p \in ISOs, p \in rows, p \notin rows'
        PROVE  Cardinality({q \in rows' : submittedAt[q] > submittedAt[p]}) >= MaxISOJobs
    BY <1>1, OnlyCleanupTrims, TrimKeepsNewest DEF Inv
  <1>2. Inv /\ Stamps /\ [Next]_vars =>
          [\A p \in ISOs : p \in rows /\ p \notin rows' =>
             Cardinality({q \in rows' : submittedAt[q] > submittedAt[p]}) >= MaxISOJobs]_isoVars
    BY <1>1
  <1> QED
    BY <1>2, Ordered, PTL DEF Spec, ISOEvictsOldest

\* A step that removes rows of iso_jobs leaves exactly MaxISOJobs of them.
TrimsToMaxISOJobs ==
  [][\A p \in ISOs : p \in rows /\ p \notin rows' => Cardinality(rows') = MaxISOJobs]_isoVars

THEOREM ISORowsTrimmed == Spec => TrimsToMaxISOJobs
  <1>1. ASSUME Inv, Stamps, [Next]_vars, NEW p \in ISOs, p \in rows, p \notin rows'
        PROVE  Cardinality(rows') = MaxISOJobs
    <2> DEFINE after == {q \in rows' : submittedAt[q] > submittedAt[p]}
    <2>1. /\ Cardinality(after) >= MaxISOJobs
          /\ IsFiniteSet(rows') /\ Cardinality(rows') <= MaxISOJobs
      BY <1>1, OnlyCleanupTrims, TrimKeepsNewest DEF Inv
    <2>2. after \subseteq rows'
      OBVIOUS
    <2> HIDE DEF after
    <2>3. /\ Cardinality(after) <= Cardinality(rows')
          /\ Cardinality(after) \in Nat /\ Cardinality(rows') \in Nat
      BY <2>1, <2>2, FS_Subset, FS_CardinalityType
    <2> QED
      BY <2>1, <2>3, ISOAssumption
  <1>2. Inv /\ Stamps /\ [Next]_vars =>
          [\A p \in ISOs : p \in rows /\ p \notin rows' => Cardinality(rows') = MaxISOJobs]_isoVars
    BY <1>1
  <1> QED
    BY <1>2, Ordered, PTL DEF Spec, TrimsToMaxISOJobs

-----------------------------------------------------------------------------
(* The refinement of AbstractISO: every step moves at most one task.        *)

\* A task's stage depends on nothing but its state, its message and the worker at it.
LEMMA Untouched ==
  ASSUME NEW q \in ISOs, state'[q] = state[q],
         q \in queue' <=> q \in queue, q \in lost' <=> q \in lost,
         worker' = worker \/ (~WorksOn(q) /\ ~WorksOn(q)')
  PROVE  StageOf(q)' = StageOf(q)
  BY DEF StageOf, WorksOn, Works, Task

LEMMA ISOMoves ==
  ASSUME NEW p \in ISOs, NEW from, NEW to, StageOf(p) \in from, StageOf(p)' = to,
         \A q \in ISOs : q # p => StageOf(q)' = StageOf(q), UNCHANGED told
  PROVE  Abstract!Move(p, from, to)
  BY DEF Abstract!Move

Stays == (\A q \in ISOs : StageOf(q)' = StageOf(q)) /\ UNCHANGED told

\* The stages by what the worker does.
LEMMA StageAtWork ==
  ASSUME ISOInv, Gone, NEW p \in ISOs, WorksOn(p)
  PROVE  /\ p \notin lost /\ p \notin queue /\ state[p] \notin Final
         /\ worker.phase \in Early => StageOf(p) = "building"
         /\ worker.phase \in {"log", "notify", "return"} => StageOf(p) = Outcome(worker.ok)
         /\ worker.phase \in Early \cup {"log", "notify", "return"}
  <1>1. p \notin lost /\ p \notin queue /\ state[p] \in InProgressState
    BY DEF Gone, ISOInv, Waiting, AtWork, WorksOn
  <1>2. worker.phase \in Early \cup {"log", "notify", "return"}
    BY WorkerIs DEF WorksOn, Works, ISOInv, ISOTypeOK
  <1> QED
    BY <1>1, <1>2 DEF StageOf, WorksOn, InProgressState, Final, Early, Task

LEMMA BuildKeepsStages ==
  ASSUME ISOInv, Gone, NEW p \in ISOs, BuildISO(p)
  PROVE  Stays
  <1>1. /\ p \notin queue /\ ~WorksOn(p) /\ state[p] = "none" /\ chief[p] = "new"
        /\ UNCHANGED <<queue, worker, told, lost>>
    BY DEF BuildISO, Handler, ISOInv, Waiting
  <1>2. /\ state'[p] \in {"none", "PENDING"} /\ \A q \in ISOs : q # p => state'[q] = state[q]
    BY <1>1 DEF BuildISO, ISOInv, ISOTypeOK
  <1>3. \A q \in ISOs : q # p => StageOf(q)' = StageOf(q)
    BY <1>1, <1>2, Untouched
  <1>4. StageOf(p) = StageOf(p)'
    BY <1>1, <1>2 DEF StageOf, WorksOn, Works, Task, Final
  <1> QED
    BY <1>1, <1>3, <1>4 DEF Stays

LEMMA SendMoves ==
  ASSUME ISOInv, Gone, NEW p \in ISOs, SendISOTask(p)
  PROVE  Abstract!Next \/ Stays
  <1>1. /\ chief[p] = "pending" /\ p \notin queue /\ ~WorksOn(p) /\ state[p] = "PENDING"
        /\ p \notin lost
        /\ UNCHANGED <<state, worker, told, lost>>
    BY DEF SendISOTask, Handler, ISOInv, Waiting, Gone
  <1>2. \A q \in ISOs : q # p => StageOf(q)' = StageOf(q)
    BY <1>1, Untouched DEF SendISOTask
  <1>3. CASE queue' = queue
    BY <1>1, <1>3, Untouched DEF Stays
  <1>4. CASE queue' = queue \cup {p}
    <2>1. StageOf(p) = "new" /\ StageOf(p)' = "queued"
      BY <1>1, <1>4 DEF StageOf, WorksOn, Works, Task, Final
    <2>2. Abstract!Move(p, {"new"}, "queued")
      BY <1>1, <1>2, <2>1, ISOMoves
    <2> QED
      BY <2>2 DEF Abstract!Next, Abstract!Send
  <1> QED
    BY <1>3, <1>4 DEF SendISOTask

LEMMA TakeMoves ==
  ASSUME ISOInv, Gone, NEW p \in ISOs, TakeTask(p)
  PROVE  Abstract!Next
  <1>1. /\ p \in queue /\ p \notin lost /\ state[p] = "PENDING" /\ worker.phase = "idle"
        /\ queue' = queue \ {p} /\ worker'.phase = "taken" /\ worker'.task = p
        /\ UNCHANGED <<state, told, lost>>
    BY DEF TakeTask, Works, ISOInv, Waiting, Gone
  <1>2. \A q \in ISOs : q # p => ~WorksOn(q) /\ ~WorksOn(q)'
    BY <1>1 DEF WorksOn, Works, Task
  <1>3. \A q \in ISOs : q # p => StageOf(q)' = StageOf(q)
    BY <1>1, <1>2, Untouched
  <1>4. StageOf(p) = "queued" /\ StageOf(p)' = "building"
    BY <1>1 DEF StageOf, Works, Task, Final
  <1>5. Abstract!Move(p, {"queued"}, "building")
    BY <1>1, <1>3, <1>4, ISOMoves
  <1> QED
    BY <1>5 DEF Abstract!Next, Abstract!Start

\* The worker goes on with its task without ending it.
LEMMA WorkMoves ==
  ASSUME ISOInv, Gone, NEW p \in ISOs, WorksOn(p), WorksOn(p)',
         state'[p] \notin Final, \A q \in ISOs : q # p => state'[q] = state[q],
         UNCHANGED <<queue, lost, told>>,
         \/ worker'.phase \in Early
         \/ worker'.phase \in {"log", "notify", "return"} /\ worker'.ok \in BOOLEAN,
         worker.phase \notin Early => worker'.phase \notin Early /\ worker'.ok = worker.ok
  PROVE  Abstract!Next \/ Stays
  <1>1. \A q \in ISOs : q # p => StageOf(q)' = StageOf(q)
    BY Untouched DEF WorksOn, Task
  <1>2. /\ worker.phase \in Early => StageOf(p) = "building"
        /\ worker.phase \notin Early => StageOf(p) = Outcome(worker.ok)
    BY StageAtWork
  <1>3. /\ worker'.phase \in Early => StageOf(p)' = "building"
        /\ worker'.phase \notin Early => StageOf(p)' = Outcome(worker'.ok)
    BY StageAtWork DEF StageOf, WorksOn, Task, Works, Early, Final
  <1>4. CASE StageOf(p)' = StageOf(p)
    <2>1. \A q \in ISOs : StageOf(q)' = StageOf(q)
      BY <1>1, <1>4
    <2> QED
      BY <2>1 DEF Stays
  <1>5. CASE StageOf(p) = "building" /\ StageOf(p)' \in {"succeeding", "failing"}
    <2>1. Abstract!Move(p, {"building"}, StageOf(p)')
      BY <1>1, <1>5, ISOMoves
    <2> QED
      BY <1>5, <2>1 DEF Abstract!Next, Abstract!Succeed, Abstract!Fail
  <1> QED
    BY <1>2, <1>3, <1>4, <1>5 DEF Outcome

LEMMA ProceedMoves ==
  ASSUME ISOInv, Gone,
         SetReceived \/ SetStarted \/ Prepare \/ RunScript \/ FindImage \/ UploadLog
  PROVE  Abstract!Next \/ Stays
  <1>1. PICK p \in ISOs : WorksOn(p) /\ p = worker.task
    BY WorkerIs DEF SetReceived, SetStarted, Prepare, RunScript, FindImage, UploadLog, Works,
                    WorksOn, Task, ISOInv, ISOTypeOK
  <1>2. UNCHANGED <<queue, lost, told>>
    BY DEF SetReceived, SetStarted, Prepare, RunScript, FindImage, UploadLog
  <1>3. state[p] \notin Final
    BY <1>1, StageAtWork
  <1>4. state'[p] \notin Final /\ \A q \in ISOs : q # p => state'[q] = state[q]
    <2>1. CASE UNCHANGED state
      BY <1>3, <2>1
    <2>2. ASSUME NEW s \in {"RECEIVED", "STARTED"}, Stores(s)
          PROVE  state'[p] \notin Final /\ \A q \in ISOs : q # p => state'[q] = state[q]
      BY <1>1, <2>2 DEF Stores, Task, Final, ISOInv, ISOTypeOK
    <2> QED
      BY <2>1, <2>2 DEF SetReceived, SetStarted, Prepare, RunScript, FindImage, UploadLog
  <1>5. worker.phase \notin Early => worker.phase = "log" /\ UploadLog
    BY DEF SetReceived, SetStarted, Prepare, RunScript, FindImage, UploadLog, Works, Early
  <1>6. worker.phase = "log" => worker.ok \in BOOLEAN
    BY WorkerIs DEF ISOInv, ISOTypeOK
  <1>7. HasImage \in BOOLEAN
    BY DEF HasImage, ISOInv, ISOTypeOK, Export
  <1>8. /\ worker'.task = p
        /\ \/ worker'.phase \in Early
           \/ worker'.phase \in {"log", "notify", "return"} /\ worker'.ok \in BOOLEAN
        /\ UploadLog => worker'.phase = "notify" /\ worker'.ok = worker.ok
    <2>1. CASE SetReceived \/ SetStarted \/ Prepare \/ RunScript
      <3>1. worker.phase # "log"
        BY <2>1 DEF SetReceived, SetStarted, Prepare, RunScript, Works
      <3>2. \/ \E ph \in Early : Proceeds(ph)
            \/ Ends(FALSE) \/ Returns(FALSE)
        BY <2>1 DEF SetReceived, SetStarted, Prepare, RunScript, Early
      <3>3. ~UploadLog
        BY <3>1 DEF UploadLog, Works
      <3>4. ASSUME NEW ph \in Early, Proceeds(ph) PROVE worker'.task = p /\ worker'.phase \in Early
        BY <1>1, <3>4 DEF Proceeds, Task
      <3>5. ASSUME NEW b \in BOOLEAN, Ends(b) \/ Returns(b)
            PROVE  worker'.task = p /\ worker'.phase \in {"log", "return"} /\ worker'.ok \in BOOLEAN
        BY <1>1, <3>5 DEF Ends, Returns, Task
      <3> QED
        BY <3>2, <3>3, <3>4, <3>5
    <2>2. CASE FindImage
      <3>1. PICK b \in BOOLEAN : b = HasImage
        BY <1>7
      <3> QED
        BY <1>1, <2>2, <3>1 DEF FindImage, UploadLog, Works, Ends, Task
    <2>3. CASE UploadLog
      BY <1>1, <1>6, <2>3 DEF UploadLog, Works, Task
    <2> QED
      BY <2>1, <2>2, <2>3
  <1>9. WorksOn(p)'
    BY <1>8 DEF WorksOn, Works, Task, Early
  <1> QED
    BY <1>1, <1>2, <1>4, <1>5, <1>8, <1>9, WorkMoves DEF Early

\* What the webhook hears is the outcome that was decided before.
LEMMA NotifyMoves ==
  ASSUME ISOInv, Gone, SendJobNotification
  PROVE  Abstract!Next \/ Stays
  <1>1. PICK p \in ISOs : WorksOn(p) /\ p = worker.task /\ worker.phase = "notify" /\ worker.ok \in BOOLEAN
    BY WorkerIs DEF SendJobNotification, Works, WorksOn, Task, ISOInv, ISOTypeOK
  <1>2. /\ worker'.task = p /\ worker'.ok = worker.ok /\ worker'.phase \in {"notify", "return"}
        /\ UNCHANGED <<state, queue, lost>>
    BY <1>1, Notified DEF SendJobNotification
  <1>3. /\ StageOf(p) = Outcome(worker.ok) /\ p \notin lost /\ p \notin queue
        /\ state[p] \notin Final
    BY <1>1, StageAtWork
  <1>4. StageOf(p)' = StageOf(p)
    BY <1>2, <1>3 DEF StageOf, Works, Task, Final
  <1>5. \A q \in ISOs : StageOf(q)' = StageOf(q)
    <2>1. ASSUME NEW q \in ISOs, q # p PROVE StageOf(q)' = StageOf(q)
      BY <1>1, <1>2, <2>1, Untouched DEF WorksOn, Task
    <2> QED
      BY <1>4, <2>1
  <1>6. CASE UNCHANGED told
    BY <1>5, <1>6 DEF Stays
  <1>7. CASE Deliver(p, worker.ok)
    <2>1. told[p] \subseteq {Status(worker.ok)} /\ told \in [ISOs -> SUBSET {"SUCCESS", "FAILED"}]
      BY <1>1 DEF ISOInv, ISOTypeOK, AtWork, Works, Task
    <2>2. told' = [told EXCEPT ![p] = {Status(worker.ok)}]
      BY <1>7, <2>1 DEF Deliver
    <2>3. /\ StageOf(p) \in {"succeeding", "failing"}
          /\ Status(worker.ok) = IF StageOf(p) = "succeeding" THEN "SUCCESS" ELSE "FAILED"
      BY <1>1, <1>3 DEF Outcome, Status
    <2>4. Abstract!Announce(p)
      BY <1>5, <2>2, <2>3 DEF Abstract!Announce, Abstract!Decided
    <2> QED
      BY <2>4 DEF Abstract!Next
  <1> QED
    BY <1>1, <1>6, <1>7 DEF SendJobNotification, Task

LEMMA EndMoves ==
  ASSUME ISOInv, Gone, StoreResult \/ WorkerDies
  PROVE  Abstract!Next
  <1>1. PICK p \in ISOs : WorksOn(p) /\ p = worker.task
    BY WorkerIs DEF StoreResult, WorkerDies, Works, WorksOn, Task, ISOInv, ISOTypeOK
  <1>2. /\ worker' = Idle /\ Idle.phase = "idle" /\ UNCHANGED <<queue, told>>
        /\ \A q \in ISOs : q # p => (q \in lost' <=> q \in lost)
    BY <1>1 DEF StoreResult, WorkerDies, Idle, Task
  <1>3. /\ p \notin lost /\ p \notin queue /\ state[p] \notin Final
        /\ state \in [ISOs -> TaskState]
    BY <1>1, StageAtWork DEF ISOInv, ISOTypeOK
  <1>4. \A q \in ISOs : q # p => state'[q] = state[q]
    BY <1>1, <1>3 DEF StoreResult, WorkerDies, Stores, Task
  <1>5. \A q \in ISOs : q # p => StageOf(q)' = StageOf(q)
    BY <1>1, <1>2, <1>4, Untouched DEF WorksOn, Works, Task
  <1>6. CASE StoreResult /\ lost' = lost
    <2>1. worker.phase = "return" /\ worker.ok \in BOOLEAN
      BY <1>6, WorkerIs DEF StoreResult, Works, ISOInv, ISOTypeOK
    <2>2. StageOf(p) = Outcome(worker.ok)
      BY <1>1, <2>1, StageAtWork
    <2>3. state'[p] = IF worker.ok THEN "SUCCESS" ELSE "FAILURE"
      <3>1. lost \cup {Task} # lost
        BY <1>1, <1>3 DEF Task
      <3> QED
        BY <1>1, <1>3, <1>6, <3>1 DEF StoreResult, Stores, Task
    <2>4. /\ worker.ok => StageOf(p)' = "done"
          /\ ~worker.ok => StageOf(p)' = "failed"
      <3>1. /\ state'[p] = "SUCCESS" => StageOf(p)' = "done"
            /\ state'[p] = "FAILURE" => StageOf(p)' = "failed"
        BY DEF StageOf, Final
      <3> QED
        BY <2>3, <3>1
    <2>5. \/ Abstract!Move(p, {"succeeding"}, "done")
          \/ Abstract!Move(p, {"failing"}, "failed")
      BY <1>2, <1>5, <2>1, <2>2, <2>4, ISOMoves DEF Outcome
    <2> QED
      BY <2>5 DEF Abstract!Next, Abstract!Finish
  <1>7. CASE lost' = lost \cup {p} /\ UNCHANGED state
    <2>1. StageOf(p) \in {"building", "succeeding", "failing"}
      BY <1>1, StageAtWork DEF Outcome
    <2>2. StageOf(p)' = "lost"
      BY <1>3, <1>7 DEF StageOf, Final
    <2>3. Abstract!Move(p, Abstract!Undecided \cup Abstract!Decided, "lost")
      BY <1>2, <1>5, <2>1, <2>2, ISOMoves DEF Abstract!Undecided, Abstract!Decided
    <2> QED
      BY <2>3 DEF Abstract!Next, Abstract!Lose
  <1> QED
    BY <1>1, <1>6, <1>7 DEF StoreResult, WorkerDies, Task

LEMMA ForeignMoves ==
  ASSUME ISOInv, Gone, NEW p \in ISOs, ForeignDies(p)
  PROVE  Abstract!Next
  <1>1. /\ p \in queue /\ p \notin lost /\ state[p] = "PENDING" /\ ~WorksOn(p)
        /\ queue' = queue \ {p} /\ lost' = lost \cup {p} /\ UNCHANGED <<state, worker, told>>
    BY DEF ForeignDies, ISOInv, Waiting, Gone
  <1>2. \A q \in ISOs : q # p => StageOf(q)' = StageOf(q)
    BY <1>1, Untouched
  <1>3. StageOf(p) = "queued" /\ StageOf(p)' = "lost"
    BY <1>1 DEF StageOf, Final
  <1>4. Abstract!Move(p, Abstract!Undecided \cup Abstract!Decided, "lost")
    BY <1>1, <1>2, <1>3, ISOMoves DEF Abstract!Undecided
  <1> QED
    BY <1>4 DEF Abstract!Next, Abstract!Lose

LEMMA OthersStay ==
  ASSUME ISOInv, NEW p \in ISOs, RecordISOJob(p) \/ CleanupOldJobs(p) \/ ChiefStops(p)
  PROVE  Stays
  <1>1. UNCHANGED <<state, queue, worker, told, lost>>
    BY DEF RecordISOJob, CleanupOldJobs, ChiefStops
  <1> QED
    BY <1>1, Untouched DEF Stays

\* An ISO pipeline is built at most once, its outcome is decided before anybody hears of
\* it, what the webhook is told and what is stored is that outcome, and a task that was
\* lost is not taken up again: the chief, the iso worker and those that follow ISOs keep
\* the promise of AbstractISO.
THEOREM ISORefinement == Spec => ImplementsAbstractISO
  <1>1. Init => Abstract!Init
    <2> SUFFICES ASSUME Init PROVE Abstract!Init
      OBVIOUS
    <2>1. /\ lost = {} /\ queue = {} /\ worker = Idle /\ Idle.phase = "idle"
          /\ told = [p \in ISOs |-> {}] /\ state \in [ISOs -> {"none"} \cup Final]
      BY DEF Init, ISOInit, Idle
    <2>2. \A p \in ISOs : StageOf(p) \in {"new", "done", "failed"}
      BY <2>1 DEF StageOf, Works, Final
    <2> QED
      BY <2>1, <2>2 DEF Abstract!Init
  <1>2. Inv /\ Gone /\ [Next]_vars => [Abstract!Next]_(Abstract!life)
    <2> SUFFICES ASSUME Inv, Gone, [Next]_vars PROVE Abstract!Next \/ UNCHANGED Abstract!life
      OBVIOUS
    <2>1. ISOInv
      BY DEF Inv
    <2>2. Abstract!Next \/ Stays
      <3>1. CASE UNCHANGED isoVars
        BY <3>1, Untouched DEF isoVars, chiefISO, Stays
      <3>2. CASE WorkerStep
        BY <2>1, <3>2, TakeMoves, ProceedMoves, NotifyMoves, EndMoves DEF WorkerStep
      <3>3. CASE Failure
        BY <2>1, <3>3, EndMoves, ForeignMoves, OthersStay DEF Failure
      <3>4. ASSUME NEW p \in ISOs, ChiefStep(p) PROVE Abstract!Next \/ Stays
        BY <2>1, <3>4, SendMoves, OthersStay DEF ChiefStep
      <3>5. ASSUME NEW p \in ISOs, BuildISO(p) PROVE Stays
        BY <2>1, <3>5, BuildKeepsStages
      <3> QED
        BY <3>1, <3>2, <3>3, <3>4, <3>5, StepIs DEF ISOStep
    <2>3. Stays => UNCHANGED Abstract!life
      BY DEF Stays, Abstract!life
    <2> QED
      BY <2>2, <2>3
  <1> QED
    BY <1>1, <1>2, Ordered, PTL DEF Spec, ImplementsAbstractISO, Abstract!Spec
=============================================================================
