----------------------- MODULE InstanceRegistryProofs -----------------------
(***************************************************************************)
(* Theorems about InstanceRegistry for every set of workers and hosts, every *)
(* assignment of ids, all intervals and timeouts, and clocks that differ      *)
(* either way and may be changed.                                           *)
(***************************************************************************)
EXTENDS InstanceRegistry, TLAPS

\* Ages stay within their bound and do not grow apart.
LEMMA AgesGrow ==
  /\ Old \in Ages /\ Old \in Beats
  /\ 0 \in Ages
  /\ \A a \in Ages : Older(a) \in Ages
  /\ \A b \in Beats : Older(b) \in Beats
  /\ \A a \in Ages, b \in Beats : a <= b + Skew => Older(a) <= Older(b) + Skew
  BY RegistryAssumption DEF Ages, Beats, Older

\* A stamp leaves with an age that its process's clock allows.
LEMMA StampAges ==
  ASSUME NEW w \in Workers, NEW beat \in Clocks[w]
  PROVE  beat \in -Skew .. Skew /\ beat \in Beats
  <1>1. Clocks[w] \subseteq -Skew .. Skew
    BY RegistryAssumption
  <1>2. Skew \in Nat /\ Old \in Nat /\ Skew < Old
    BY RegistryAssumption
  <1> QED
    BY <1>1, <1>2 DEF Beats

\* An id names a host and a type; a key is a record, or absent.
LEMMA Identities ==
  /\ \A w \in Workers : GenerateInstanceID(w) \in Ids
  /\ Absent \notin [beat : Beats, set : Ages]
  <1>1. Ages \subseteq Int /\ Beats \subseteq Int
    BY RegistryAssumption DEF Ages, Beats
  <1>2. [beat : Beats, set : Ages] \subseteq [beat : Int, set : Int]
    BY <1>1
  <1> QED
    BY <1>2, RegistryAssumption DEF GenerateInstanceID, Ids

LEMMA TypeInit == Init => TypeOK
  BY AgesGrow, RegistryAssumption DEF Init, TypeOK, Command, Pending, Cleanup, Idle, View, NoView

\* A process starts, beats or dies: its own age and what it has sent change.
LEMMA WorkerType ==
  ASSUME TypeOK, NEW w \in Workers, StartWorker(w) \/ Beat(w) \/ WorkerDies(w)
  PROVE  TypeOK'
  <1>1. 0 \in Ages
    BY AgesGrow
  <1>2. age' \in [Workers -> Ages] /\ up' \subseteq Workers
    BY <1>1 DEF StartWorker, Beat, WorkerDies, Send, TypeOK
  <1>3. wire' \in [Workers -> [next : Command, beat : Beats]]
    BY StampAges DEF StartWorker, Beat, WorkerDies, Send, TypeOK, Command, Pending
  <1>4. UNCHANGED <<record, index, typeIndex, cleanup, view>>
    BY DEF StartWorker, Beat, WorkerDies, Send, redisVars
  <1> QED
    BY <1>2, <1>3, <1>4 DEF TypeOK

\* One of a heartbeat's commands is executed, or the rest is lost.
LEMMA CommandType ==
  ASSUME TypeOK, NEW w \in Workers, Step(w) \/ LoseCommands(w)
  PROVE  TypeOK'
  <1>1. wire[w] \in [next : Command, beat : Beats] /\ GenerateInstanceID(w) \in Ids
    BY Identities DEF TypeOK
  <1>2. wire' \in [Workers -> [next : Command, beat : Beats]]
    BY AgesGrow DEF Step, LoseCommands, SetRecord, AddToIndex, AddToTypeIndex, Executed, Sent,
       TypeOK, Command, Pending
  <1>3. record' \in [Ids -> [beat : Beats, set : Ages] \cup {Absent}]
    BY <1>1, AgesGrow DEF Step, LoseCommands, SetRecord, AddToIndex, AddToTypeIndex,
       TypeOK, redisVars
  <1>4. index' \subseteq Ids /\ typeIndex' \in [Types -> SUBSET Ids]
    <2>1. TypeOf[w] \in Types
      BY RegistryAssumption
    <2> QED
      BY <1>1, <2>1 DEF Step, LoseCommands, SetRecord, AddToIndex, AddToTypeIndex,
         TypeOK, redisVars
  <1>5. UNCHANGED <<up, age, cleanup, view>>
    BY DEF Step, LoseCommands, SetRecord, AddToIndex, AddToTypeIndex, Executed, redisVars
  <1> QED
    BY <1>2, <1>3, <1>4, <1>5 DEF TypeOK

\* The cleanup goes from one call to the next.
LEMMA CleanupType ==
  ASSUME TypeOK,
         StartCleanup \/ EndCleanup \/ CleanupCalls \/ \E id \in Ids : Examine(id)
  PROVE  TypeOK'
  <1>1. cleanup' \in Cleanup
    <2>1. CASE StartCleanup \/ EndCleanup
      BY <2>1 DEF StartCleanup, EndCleanup, TypeOK, Cleanup, Idle
    <2>2. CASE CleanupCalls
      BY <2>2 DEF CleanupCalls, DeleteRecord, RemoveFromIndex, RemoveFromTypeIndex,
         CleanupMoves, TypeOK, Cleanup
    <2>3. CASE \E id \in Ids : Examine(id)
      BY <2>3 DEF Examine, Examined, ExamineAs, TypeOK, Cleanup
    <2> QED
      BY <2>1, <2>2, <2>3
  <1>2. record' \in [Ids -> [beat : Beats, set : Ages] \cup {Absent}]
    BY DEF StartCleanup, EndCleanup, CleanupCalls, DeleteRecord, RemoveFromIndex,
       RemoveFromTypeIndex, Examine, ExamineAs, TypeOK, redisVars
  <1>3. index' \subseteq Ids /\ typeIndex' \in [Types -> SUBSET Ids]
    BY DEF StartCleanup, EndCleanup, CleanupCalls, DeleteRecord, RemoveFromIndex,
       RemoveFromTypeIndex, Examine, ExamineAs, TypeOK, redisVars
  <1>4. UNCHANGED <<up, age, wire, view>>
    BY DEF StartCleanup, EndCleanup, CleanupCalls, DeleteRecord, RemoveFromIndex,
       RemoveFromTypeIndex, CleanupMoves, Examine, ExamineAs, workerVars
  <1> QED
    BY <1>1, <1>2, <1>3, <1>4 DEF TypeOK

\* The chief stops, or a listing goes on.
LEMMA ListType ==
  ASSUME TypeOK, ChiefStops \/ StartList \/ \E id \in Ids : GetInstance(id)
  PROVE  TypeOK'
  <1>1. view' \in View
    <2>1. CASE ChiefStops
      BY <2>1 DEF ChiefStops, View, NoView
    <2>2. CASE StartList
      BY <2>2 DEF StartList, TypeOK, View
    <2>3. CASE \E id \in Ids : GetInstance(id)
      <3>1. PICK id \in Ids : GetInstance(id)
        BY <2>3
      <3>2. view \in [todo : SUBSET Ids, online : SUBSET Ids]
        BY DEF TypeOK, View
      <3>3. \/ view' = [todo |-> view.todo \ {id}, online |-> view.online]
            \/ view' = [todo |-> view.todo \ {id}, online |-> view.online \cup {id}]
        BY <3>1, <3>2 DEF GetInstance
      <3> QED
        BY <3>2, <3>3 DEF View
    <2> QED
      BY <2>1, <2>2, <2>3
  <1>2. cleanup' \in Cleanup
    <2>1. Idle \in Cleanup
      BY DEF Idle, Cleanup
    <2>2. cleanup' \in {cleanup, Idle}
      BY DEF ChiefStops, StartList, GetInstance
    <2> QED
      BY <2>1, <2>2 DEF TypeOK
  <1>3. UNCHANGED <<up, age, wire, record, index, typeIndex>>
    BY DEF ChiefStops, StartList, GetInstance, workerVars, redisVars
  <1> QED
    BY <1>1, <1>2, <1>3 DEF TypeOK

LEMMA TickType == TypeOK /\ Tick => TypeOK'
  <1> SUFFICES ASSUME TypeOK, Tick PROVE TypeOK'
    OBVIOUS
  <1>1. age' \in [Workers -> Ages]
    BY AgesGrow DEF Tick, TypeOK
  <1>2. wire' \in [Workers -> [next : Command, beat : Beats]]
    <2>1. \A w \in Workers : wire[w] \in [next : Command, beat : Beats]
      BY DEF TypeOK
    <2> QED
      BY <2>1, AgesGrow DEF Tick
  <1>3. record' \in [Ids -> [beat : Beats, set : Ages] \cup {Absent}]
    <2>1. ASSUME NEW id \in Ids, record[id] # Absent, ~(record[id].set + 1 >= RemoveAfter)
          PROVE  [beat |-> Older(record[id].beat), set |-> record[id].set + 1]
                   \in [beat : Beats, set : Ages]
      <3>1. record[id] \in [beat : Beats, set : Ages]
        BY <2>1 DEF TypeOK
      <3>2. record[id].set + 1 \in Ages
        BY <2>1, <3>1, RegistryAssumption DEF Ages
      <3> QED
        BY <3>1, <3>2, AgesGrow
    <2> QED
      BY <2>1 DEF Tick
  <1> QED
    BY <1>1, <1>2, <1>3 DEF Tick, TypeOK

LEMMA TypeStep == TypeOK /\ [Next]_vars => TypeOK'
  <1> SUFFICES ASSUME TypeOK, [Next]_vars PROVE TypeOK'
    OBVIOUS
  <1>1. CASE UNCHANGED vars
    BY <1>1 DEF vars, workerVars, redisVars, TypeOK
  <1> QED
    BY <1>1, WorkerType, CommandType, CleanupType, ListType, TickType DEF Next

\* Every variable of the registry keeps its type: processes, commands on their way,
\* keys and indices, the cleanup and a listing.
THEOREM TypeCorrect == Spec => []TypeOK
  <1> QED
    BY TypeInit, TypeStep, PTL DEF Spec

-----------------------------------------------------------------------------
\* A heartbeat that was sent is no younger than its process has been gone, but for the
\* difference of the clocks, and a key is as old as the heartbeat of one of the
\* processes with its id.
SentAlive  == \A w \in Workers : w \in up \/ age[w] <= wire[w].beat + Skew
KeyIsAlive == \A id \in Ids : record[id] # Absent => Runs(id, record[id].beat + Skew)

AliveInv == TypeOK /\ SentAlive /\ KeyIsAlive

LEMMA AliveInit == Init => AliveInv
  <1> SUFFICES ASSUME Init PROVE SentAlive /\ KeyIsAlive
    BY TypeInit DEF AliveInv
  <1>1. Old \in Nat /\ Skew \in Nat
    BY RegistryAssumption
  <1> QED
    BY <1>1 DEF Init, SentAlive, KeyIsAlive

\* A process that has just started, beaten or died is as alive as before.
LEMMA WorkerAlive ==
  ASSUME AliveInv, NEW w \in Workers, StartWorker(w) \/ Beat(w) \/ WorkerDies(w)
  PROVE  SentAlive' /\ KeyIsAlive'
  <1>1. /\ age' = [age EXCEPT ![w] = 0]
        /\ record' = record
        /\ \A v \in Workers : v # w => (v \in up' <=> v \in up)
    BY DEF StartWorker, Beat, WorkerDies, Send, redisVars
  <1>2. TypeOK' /\ TypeOK
    BY WorkerType DEF AliveInv
  <1>3. \A v \in Workers : age'[v] = IF v = w THEN 0 ELSE age[v]
    BY <1>1, <1>2 DEF TypeOK
  <1>5. SentAlive'
    <2>1. ASSUME NEW v \in Workers, v # w
          PROVE  v \in up' \/ age'[v] <= wire'[v].beat + Skew
      <3>1. wire'[v] = wire[v]
        BY <2>1, <1>2 DEF StartWorker, Beat, WorkerDies, Send, TypeOK
      <3> QED
        BY <1>1, <1>3, <2>1, <3>1 DEF AliveInv, SentAlive
    <2>2. age'[w] <= wire'[w].beat + Skew
      <3>1. wire'[w].beat \in Int /\ wire'[w].beat >= -Skew /\ Skew \in Nat
        BY <1>2, RegistryAssumption DEF TypeOK, Beats
      <3> QED
        BY <1>3, <3>1
    <2> QED
      BY <2>1, <2>2 DEF SentAlive
  <1>6. KeyIsAlive'
    <2>1. ASSUME NEW id \in Ids, record'[id] # Absent
          PROVE  Runs(id, record[id].beat + Skew)'
      <3>1. PICK v \in Workers : /\ GenerateInstanceID(v) = id
                                 /\ v \in up \/ age[v] <= record[id].beat + Skew
        BY <2>1, <1>1 DEF AliveInv, KeyIsAlive, Runs
      <3>2. record[id].beat \in Int /\ record[id].beat >= -Skew /\ Skew \in Nat
        BY <2>1, <1>1, <1>2, RegistryAssumption DEF TypeOK, Beats
      <3>3. CASE v = w
        BY <3>1, <3>2, <3>3, <1>1, <1>3 DEF Runs
      <3>4. CASE v # w
        BY <3>1, <3>4, <1>1, <1>3 DEF Runs
      <3> QED
        BY <3>3, <3>4
    <2> QED
      BY <2>1, <1>1 DEF KeyIsAlive
  <1> QED
    BY <1>5, <1>6

\* Only SET writes a key, with the age of the heartbeat that it was sent in.
LEMMA CommandAlive ==
  ASSUME AliveInv, NEW w \in Workers, Step(w) \/ LoseCommands(w)
  PROVE  SentAlive' /\ KeyIsAlive'
  <1>1. UNCHANGED <<up, age>>
    BY DEF Step, LoseCommands, SetRecord, AddToIndex, AddToTypeIndex, Executed, Sent
  <1>2. \A v \in Workers : wire'[v].beat \in {wire[v].beat, Old}
    BY DEF Step, LoseCommands, SetRecord, AddToIndex, AddToTypeIndex, Executed, Sent, AliveInv, TypeOK
  <1>3. SentAlive'
    <2>1. ASSUME NEW v \in Workers, v \notin up'
          PROVE  age'[v] <= wire'[v].beat + Skew
      <3>1. /\ age'[v] \in Nat /\ age'[v] <= Old
            /\ Old \in Nat /\ Skew \in Nat
        BY <1>1, RegistryAssumption DEF AliveInv, TypeOK, Ages
      <3>2. CASE wire'[v].beat = Old
        BY <3>1, <3>2
      <3>3. CASE wire'[v].beat = wire[v].beat
        BY <1>1, <2>1, <3>3 DEF AliveInv, SentAlive
      <3> QED
        BY <1>2, <3>2, <3>3
    <2> QED
      BY <2>1 DEF SentAlive
  <1>4. CASE SetRecord(w)
    <2>1. \A id \in Ids : record'[id] = IF id = GenerateInstanceID(w)
                                        THEN [beat |-> wire[w].beat, set |-> 0] ELSE record[id]
      BY <1>4 DEF SetRecord, AliveInv, TypeOK
    <2>2. ASSUME NEW id \in Ids, record'[id] # Absent
          PROVE  Runs(id, record[id].beat + Skew)'
      <3>1. CASE id = GenerateInstanceID(w)
        BY <1>1, <2>1, <3>1 DEF AliveInv, SentAlive, Runs
      <3>2. CASE id # GenerateInstanceID(w)
        BY <1>1, <2>1, <2>2, <3>2 DEF AliveInv, KeyIsAlive, Runs
      <3> QED
        BY <3>1, <3>2
    <2> QED
      BY <1>3, <2>2 DEF KeyIsAlive
  <1>5. CASE UNCHANGED record
    BY <1>1, <1>3, <1>5 DEF AliveInv, KeyIsAlive, Runs
  <1> QED
    BY <1>4, <1>5 DEF Step, LoseCommands, AddToIndex, AddToTypeIndex, redisVars

\* Keys, commands and processes grow old together.
LEMMA TickAlive == AliveInv /\ Tick => SentAlive' /\ KeyIsAlive'
  <1> SUFFICES ASSUME AliveInv, Tick PROVE SentAlive' /\ KeyIsAlive'
    OBVIOUS
  <1>1. /\ up' = up
        /\ \A w \in Workers : age[w] \in Ages /\ age'[w] = Older(age[w])
        /\ \A w \in Workers : wire[w].beat \in Beats /\ wire'[w].beat = Older(wire[w].beat)
    BY DEF Tick, AliveInv, TypeOK
  <1>2. SentAlive'
    BY <1>1, AgesGrow DEF AliveInv, SentAlive
  <1>3. ASSUME NEW id \in Ids, record'[id] # Absent
        PROVE  /\ record[id] # Absent /\ record[id].beat \in Beats
               /\ record'[id].beat = Older(record[id].beat)
    BY <1>3 DEF Tick, AliveInv, TypeOK
  <1>4. ASSUME NEW id \in Ids, record'[id] # Absent
        PROVE  Runs(id, record[id].beat + Skew)'
    <2>1. PICK w \in Workers : /\ GenerateInstanceID(w) = id
                               /\ w \in up \/ age[w] <= record[id].beat + Skew
      BY <1>3, <1>4 DEF AliveInv, KeyIsAlive, Runs
    <2>2. w \in up' \/ age'[w] <= record'[id].beat + Skew
      BY <1>1, <1>3, <1>4, <2>1, AgesGrow
    <2> QED
      BY <2>1, <2>2 DEF Runs
  <1> QED
    BY <1>2, <1>4 DEF KeyIsAlive

\* The cleanup only removes keys, and the chief's other steps touch none.
LEMMA ChiefAlive ==
  ASSUME AliveInv,
         \/ StartCleanup \/ EndCleanup \/ CleanupCalls \/ ChiefStops \/ StartList
         \/ \E id \in Ids : Examine(id) \/ GetInstance(id)
  PROVE  SentAlive' /\ KeyIsAlive'
  <1>1. UNCHANGED <<up, age, wire>>
    BY DEF StartCleanup, EndCleanup, CleanupCalls, DeleteRecord, RemoveFromIndex,
       RemoveFromTypeIndex, CleanupMoves, ChiefStops, StartList, Examine, ExamineAs,
       GetInstance, workerVars
  <1>2. \A id \in Ids : record'[id] \in {record[id], Absent}
    BY DEF StartCleanup, EndCleanup, CleanupCalls, DeleteRecord, RemoveFromIndex,
       RemoveFromTypeIndex, ChiefStops, StartList, Examine, ExamineAs, GetInstance,
       redisVars, AliveInv, TypeOK
  <1> QED
    BY <1>1, <1>2 DEF AliveInv, SentAlive, KeyIsAlive, Runs

LEMMA AliveStep == AliveInv /\ [Next]_vars => AliveInv'
  <1> SUFFICES ASSUME AliveInv, [Next]_vars PROVE SentAlive' /\ KeyIsAlive'
    BY TypeStep DEF AliveInv
  <1>1. CASE UNCHANGED vars
    BY <1>1 DEF vars, workerVars, redisVars, AliveInv, SentAlive, KeyIsAlive, Runs
  <1> QED
    BY <1>1, WorkerAlive, CommandAlive, TickAlive, ChiefAlive DEF Next

\* Only a Get shows an instance online.
LEMMA OnlineStep ==
  AliveInv /\ [Next]_vars => [\A id \in view'.online \ view.online : Runs(id, OfflineAfter + Skew)]_vars
  <1> SUFFICES ASSUME AliveInv, [Next]_vars,
                      NEW id \in view'.online \ view.online
               PROVE  Runs(id, OfflineAfter + Skew)
    OBVIOUS
  <1>1. view' # view /\ view.online \subseteq Ids
    BY DEF AliveInv, TypeOK, View
  <1>2. ~ \E w \in Workers :
           StartWorker(w) \/ Beat(w) \/ WorkerDies(w) \/ Step(w) \/ LoseCommands(w)
    BY <1>1 DEF StartWorker, Beat, WorkerDies, Send, Step, SetRecord, AddToIndex,
       AddToTypeIndex, LoseCommands
  <1>3. ~(StartCleanup \/ EndCleanup \/ CleanupCalls \/ Tick \/ \E i \in Ids : Examine(i))
    BY <1>1 DEF StartCleanup, EndCleanup, CleanupCalls, DeleteRecord, RemoveFromIndex,
       RemoveFromTypeIndex, Tick, Examine, ExamineAs
  <1>4. ~(ChiefStops \/ StartList \/ UNCHANGED vars)
    BY <1>1 DEF ChiefStops, StartList, NoView, vars
  <1>5. PICK i \in Ids : GetInstance(i)
    BY <1>2, <1>3, <1>4 DEF Next
  <1>6. i = id /\ record[i] # Absent /\ record[i].beat <= OfflineAfter
    BY <1>1, <1>5 DEF GetInstance, AliveInv, TypeOK, View
  <1>7. PICK w \in Workers : /\ GenerateInstanceID(w) = id
                             /\ w \in up \/ age[w] <= record[id].beat + Skew
    BY <1>5, <1>6 DEF AliveInv, KeyIsAlive, Runs
  <1>8. /\ age[w] \in Int /\ record[id].beat \in Int
        /\ OfflineAfter \in Nat /\ Skew \in Nat
    BY <1>5, <1>6, <1>7, RegistryAssumption DEF AliveInv, TypeOK, Ages, Beats
  <1>9. w \in up \/ age[w] <= OfflineAfter + Skew
    BY <1>6, <1>7, <1>8
  <1> QED
    BY <1>7, <1>9 DEF Runs

\* A list never shows an instance online whose processes have all been gone for longer
\* than the timeout and the difference of the clocks: neither a late command nor another
\* process with the same id adds to it, and a clock that is ahead by no more than it is.
THEOREM ShownOnlineIsAlive == Spec => OnlineIsAlive
  <1> QED
    BY AliveInit, AliveStep, OnlineStep, PTL DEF Spec, OnlineIsAlive

-----------------------------------------------------------------------------
\* A command on its way was sent within the interval, and a key is written by a process
\* that then runs or has been gone for no longer.
PendingIsYoung == \A w \in Workers : wire[w].next \in Pending => age[w] <= Interval
KeyIsRecent ==
  \A id \in Ids : record[id] # Absent =>
    record[id].set < RemoveAfter /\ Runs(id, record[id].set + Interval)

LifeInv == TypeOK /\ PendingIsYoung /\ KeyIsRecent

LEMMA LifeInit == Init => LifeInv
  BY TypeInit DEF Init, LifeInv, PendingIsYoung, KeyIsRecent, Pending

\* What starts, beats or dies is of age 0.
LEMMA WorkerLife ==
  ASSUME LifeInv, NEW w \in Workers, StartWorker(w) \/ Beat(w) \/ WorkerDies(w)
  PROVE  PendingIsYoung' /\ KeyIsRecent'
  <1>1. /\ age' = [age EXCEPT ![w] = 0]
        /\ record' = record
        /\ \A v \in Workers : v # w => (v \in up' <=> v \in up)
    BY DEF StartWorker, Beat, WorkerDies, Send, redisVars
  <1>2. TypeOK
    BY DEF LifeInv
  <1>3. \A v \in Workers : age'[v] = IF v = w THEN 0 ELSE age[v]
    BY <1>1, <1>2 DEF TypeOK
  <1>4. \A v \in Workers : v # w => wire'[v] = wire[v]
    BY <1>2 DEF StartWorker, Beat, WorkerDies, Send, TypeOK
  <1>5. PendingIsYoung'
    BY <1>3, <1>4, RegistryAssumption DEF LifeInv, PendingIsYoung
  <1>6. ASSUME NEW id \in Ids, record'[id] # Absent
        PROVE  Runs(id, record[id].set + Interval)'
    <2>1. PICK v \in Workers : /\ GenerateInstanceID(v) = id
                               /\ v \in up \/ age[v] <= record[id].set + Interval
      BY <1>1, <1>6 DEF LifeInv, KeyIsRecent, Runs
    <2>2. record[id].set \in Nat
      BY <1>1, <1>2, <1>6, RegistryAssumption DEF TypeOK, Ages
    <2>3. CASE v = w
      BY <1>1, <1>3, <2>1, <2>2, <2>3, RegistryAssumption DEF Runs
    <2>4. CASE v # w
      BY <1>1, <1>3, <2>1, <2>4 DEF Runs
    <2> QED
      BY <2>3, <2>4
  <1> QED
    BY <1>1, <1>5, <1>6 DEF LifeInv, KeyIsRecent

\* SET finds its process running, or gone for no longer than a command may be on its way.
LEMMA CommandLife ==
  ASSUME LifeInv, NEW w \in Workers, Step(w) \/ LoseCommands(w)
  PROVE  PendingIsYoung' /\ KeyIsRecent'
  <1>1. UNCHANGED <<up, age>>
    BY DEF Step, LoseCommands, SetRecord, AddToIndex, AddToTypeIndex, Executed, Sent
  <1>2. wire[w].next \in Pending /\ \A v \in Workers : v # w => wire'[v] = wire[v]
    BY DEF Step, LoseCommands, SetRecord, AddToIndex, AddToTypeIndex, Executed, Sent, LifeInv,
           TypeOK, Pending
  <1>3. PendingIsYoung'
    BY <1>1, <1>2 DEF LifeInv, PendingIsYoung
  <1>4. CASE SetRecord(w)
    <2>1. \A id \in Ids : record'[id] = IF id = GenerateInstanceID(w)
                                        THEN [beat |-> wire[w].beat, set |-> 0] ELSE record[id]
      BY <1>4 DEF SetRecord, LifeInv, TypeOK
    <2>2. ASSUME NEW id \in Ids, record'[id] # Absent
          PROVE  record'[id].set < RemoveAfter /\ Runs(id, record[id].set + Interval)'
      <3>1. CASE id = GenerateInstanceID(w)
        BY <1>1, <1>2, <2>1, <3>1, RegistryAssumption DEF LifeInv, PendingIsYoung, Runs
      <3>2. CASE id # GenerateInstanceID(w)
        BY <1>1, <2>1, <2>2, <3>2 DEF LifeInv, KeyIsRecent, Runs
      <3> QED
        BY <3>1, <3>2
    <2> QED
      BY <1>3, <2>2 DEF KeyIsRecent
  <1>5. CASE UNCHANGED record
    BY <1>1, <1>3, <1>5 DEF LifeInv, KeyIsRecent, Runs
  <1> QED
    BY <1>4, <1>5 DEF Step, LoseCommands, AddToIndex, AddToTypeIndex, redisVars

\* Redis drops a key before its process has been gone for longer than it may be.
LEMMA TickLife == LifeInv /\ Tick => PendingIsYoung' /\ KeyIsRecent'
  <1> SUFFICES ASSUME LifeInv, Tick PROVE PendingIsYoung' /\ KeyIsRecent'
    OBVIOUS
  <1>1. /\ up' = up
        /\ \A w \in Workers :
             /\ age[w] \in Nat /\ age'[w] \in Nat /\ age'[w] <= age[w] + 1
             /\ wire'[w].next = wire[w].next
             /\ wire[w].next \in Pending => age[w] < Interval
    BY RegistryAssumption DEF Tick, LifeInv, TypeOK, Older, Ages
  <1>2. PendingIsYoung'
    BY <1>1, RegistryAssumption DEF PendingIsYoung
  <1>3. ASSUME NEW id \in Ids, record'[id] # Absent
        PROVE  record'[id].set < RemoveAfter /\ Runs(id, record[id].set + Interval)'
    <2>1. /\ record[id] # Absent /\ record[id].set \in Nat
          /\ record'[id].set = record[id].set + 1 /\ record'[id].set < RemoveAfter
      BY <1>3, RegistryAssumption DEF Tick, LifeInv, TypeOK, Ages
    <2>2. PICK w \in Workers : /\ GenerateInstanceID(w) = id
                               /\ w \in up \/ age[w] <= record[id].set + Interval
      BY <2>1 DEF LifeInv, KeyIsRecent, Runs
    <2>3. w \in up' \/ age'[w] <= record'[id].set + Interval
      BY <1>1, <2>1, <2>2, RegistryAssumption
    <2> QED
      BY <2>1, <2>2, <2>3 DEF Runs
  <1> QED
    BY <1>2, <1>3 DEF KeyIsRecent

LEMMA ChiefLife ==
  ASSUME LifeInv,
         \/ StartCleanup \/ EndCleanup \/ CleanupCalls \/ ChiefStops \/ StartList
         \/ \E id \in Ids : Examine(id) \/ GetInstance(id)
  PROVE  PendingIsYoung' /\ KeyIsRecent'
  <1>1. UNCHANGED <<up, age, wire>>
    BY DEF StartCleanup, EndCleanup, CleanupCalls, DeleteRecord, RemoveFromIndex,
       RemoveFromTypeIndex, CleanupMoves, ChiefStops, StartList, Examine, ExamineAs,
       GetInstance, workerVars
  <1>2. \A id \in Ids : record'[id] \in {record[id], Absent}
    BY DEF StartCleanup, EndCleanup, CleanupCalls, DeleteRecord, RemoveFromIndex,
       RemoveFromTypeIndex, ChiefStops, StartList, Examine, ExamineAs, GetInstance,
       redisVars, LifeInv, TypeOK
  <1> QED
    BY <1>1, <1>2 DEF LifeInv, PendingIsYoung, KeyIsRecent, Runs

LEMMA LifeStep == LifeInv /\ [Next]_vars => LifeInv'
  <1> SUFFICES ASSUME LifeInv, [Next]_vars PROVE PendingIsYoung' /\ KeyIsRecent'
    BY TypeStep DEF LifeInv
  <1>1. CASE UNCHANGED vars
    BY <1>1 DEF vars, workerVars, redisVars, LifeInv, PendingIsYoung, KeyIsRecent, Runs
  <1> QED
    BY <1>1, WorkerLife, CommandLife, TickLife, ChiefLife DEF Next

\* A key without a living process is gone after its time to live (redisStorageTTL) and
\* the interval of the heartbeat that was on its way: the safety that the eventual
\* cleanup of dead instances rests on.
THEOREM KeysDie == Spec => []KeysMeanLife
  <1>1. ASSUME LifeInv, NEW id \in Ids, record[id] # Absent
        PROVE  Runs(id, RemoveAfter + Interval - 1)
    <2>1. record[id].set \in Nat /\ record[id].set < RemoveAfter
      BY <1>1, RegistryAssumption DEF LifeInv, TypeOK, Ages, KeyIsRecent
    <2>2. PICK w \in Workers : /\ GenerateInstanceID(w) = id
                               /\ w \in up \/ age[w] <= record[id].set + Interval
      BY <1>1 DEF LifeInv, KeyIsRecent, Runs
    <2>3. age[w] \in Nat /\ RemoveAfter \in Nat /\ Interval \in Nat
      BY <1>1, RegistryAssumption DEF LifeInv, TypeOK, Ages
    <2>4. w \in up \/ age[w] <= RemoveAfter + Interval - 1
      BY <2>1, <2>2, <2>3
    <2> QED
      BY <2>2, <2>4 DEF Runs
  <1>2. LifeInv => KeysMeanLife
    BY <1>1 DEF KeysMeanLife
  <1> QED
    BY <1>2, LifeInit, LifeStep, PTL DEF Spec
=============================================================================
