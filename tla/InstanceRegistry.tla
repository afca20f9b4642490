-------------------------- MODULE InstanceRegistry --------------------------
(***************************************************************************)
(* Worker processes report themselves to Redis, the chief lists them and   *)
(* removes the ones that fell silent. An instance is a key with a time to   *)
(* live plus an entry in a global and in a per-type index; no transaction   *)
(* spans the three.                                                         *)
(*                                                                          *)
(* Time is kept as ages, in ticks, that stop counting at Old: the code only *)
(* compares them with its timeouts.                                         *)
(***************************************************************************)
EXTENDS Integers, FiniteSets

CONSTANTS
  Workers,       \* worker processes
  Hosts, Types,  \* host names; builder, repo, iso
  HostOf, TypeOf,
  SecondPart,    \* hosts with a dash -> what follows their first dash, up to the next
  Interval,      \* ticks between two heartbeats of a process
  OfflineAfter,  \* InstanceTimeout
  RemoveAfter,   \* redisStorageTTL and instanceRemovalTimeout, both 24 hours
  Skew,          \* how far a worker's clock and the chief's may differ, either way
  Clocks,        \* what is added to the age of a worker's stamps: its clock may be changed
  Old,           \* ages stop counting here
  Absent         \* no key, no type

\* Several processes of a type may share a host. What follows a dash in a host's
\* name may be a type's name, or anything else.
ASSUME RegistryAssumption ==
  /\ HostOf \in [Workers -> Hosts] /\ TypeOf \in [Workers -> Types]
  /\ DOMAIN SecondPart \subseteq Hosts
  /\ \A h \in DOMAIN SecondPart : SecondPart[h] \in Types \cup {Absent}
  /\ Absent \notin Types /\ Absent \notin [beat : Int, set : Int]
  /\ Interval \in Nat \ {0} /\ OfflineAfter \in Nat /\ Skew \in Nat
  /\ Clocks \in [Workers -> SUBSET (-Skew .. Skew)]
  /\ RemoveAfter \in Nat \ {0} /\ OfflineAfter <= RemoveAfter
  /\ Old \in Nat /\ RemoveAfter + Interval <= Old /\ OfflineAfter + Skew < Old

VARIABLES
  up,          \* the processes that run
  age,         \* ticks since a process's last heartbeat began, or since it died
  wire,        \* a heartbeat's commands on their way: the next one, and the stamp's age
  record,      \* the instance keys: age of LastHeartbeat, age of the key itself
  index,       \* irgsh:instances:index
  typeIndex,   \* irgsh:instances:<type>:index
  cleanup,     \* how far CleanupStaleInstances is
  view         \* how far a ListInstances is, and what it has found

workerVars == <<up, age, wire>>
redisVars  == <<record, index, typeIndex>>
vars == <<workerVars, redisVars, cleanup, view>>

Ids == Hosts \X Types
GenerateInstanceID(w) == <<HostOf[w], TypeOf[w]>>

\* The second dash-separated part of an id: its type, unless the host has a dash.
ParsedType(id) == IF id[1] \in DOMAIN SecondPart THEN SecondPart[id[1]] ELSE id[2]

\* The stamp of a clock that is ahead has a negative age.
Ages     == 0 .. Old
Beats    == -Skew .. Old
Older(a) == IF a < Old THEN a + 1 ELSE Old

Pending == {"set", "global", "type"}
Command == Pending \cup {"none", "lost"}
Cleanup == [phase : {"idle"}] \cup
           [phase : {"scan"}, todo : SUBSET Ids] \cup
           [phase : {"stale", "gone", "unlisted"}, todo : SUBSET Ids, id : Ids]
Idle == [phase |-> "idle"]
View == [todo : SUBSET Ids, online : SUBSET Ids]
NoView == [todo |-> {}, online |-> {}]

TypeOK ==
  /\ up \subseteq Workers
  /\ age \in [Workers -> Ages]
  /\ wire \in [Workers -> [next : Command, beat : Beats]]
  /\ record \in [Ids -> [beat : Beats, set : Ages] \cup {Absent}]
  /\ index \subseteq Ids
  /\ typeIndex \in [Types -> SUBSET Ids]
  /\ cleanup \in Cleanup
  /\ view \in View

Init ==
  /\ up = {}
  /\ age = [w \in Workers |-> Old]
  /\ wire = [w \in Workers |-> [next |-> "none", beat |-> Old]]
  /\ record = [id \in Ids |-> Absent]
  /\ index = {}
  /\ typeIndex = [t \in Types |-> {}]
  /\ cleanup = Idle
  /\ view = NoView

\* What ListInstances of all instances, and of the id's type, would show now.
Listed(id) == record[id] # Absent /\ id \in index /\ id \in typeIndex[id[2]]

-----------------------------------------------------------------------------
(* StartHeartbeatLoop and UpdateInstance.                                   *)

\* CollectMetrics and the stamp, by the worker's own clock; the three commands leave
\* in one write.
Send(w) ==
  /\ age' = [age EXCEPT ![w] = 0]
  /\ \E beat \in Clocks[w] :
       wire' = [wire EXCEPT ![w] = [next |-> "set", beat |-> beat]]
  /\ UNCHANGED <<redisVars, cleanup, view>>

\* A process begins with a heartbeat, then one per tick of its ticker.
StartWorker(w) == w \notin up /\ wire[w].next \notin Pending /\ up' = up \cup {w} /\ Send(w)
Beat(w) == w \in up /\ wire[w].next \notin Pending /\ age[w] >= Interval /\ Send(w) /\ UNCHANGED up

\* Nothing deregisters a process; what it has sent is not called back.
WorkerDies(w) ==
  /\ w \in up
  /\ up' = up \ {w}
  /\ age' = [age EXCEPT ![w] = 0]
  /\ UNCHANGED <<wire, redisVars, cleanup, view>>

\* Once SET is through, or lost, nothing refers to the stamp.
Sent(w, next) == wire' = [wire EXCEPT ![w] = [next |-> next, beat |-> Old]]

Executed(w, cmd, next) ==
  /\ wire[w].next = cmd
  /\ Sent(w, next)
  /\ UNCHANGED <<up, age, cleanup>>

\* Mutant: a process that is in the index is not added again.
SetAddsOnce(w) ==
  /\ Executed(w, "set", IF GenerateInstanceID(w) \in index THEN "none" ELSE "global")
  /\ record' = [record EXCEPT ![GenerateInstanceID(w)] = [beat |-> wire[w].beat, set |-> 0]]
  /\ UNCHANGED <<index, typeIndex, view>>

SetRecord(w) ==
  /\ Executed(w, "set", "global")
  /\ record' = [record EXCEPT ![GenerateInstanceID(w)] = [beat |-> wire[w].beat, set |-> 0]]
  /\ UNCHANGED <<index, typeIndex, view>>

\* Mutant: the type's name instead of the id.
AddTypeName(w) ==
  /\ Executed(w, "global", "type")
  /\ index' = index \cup {TypeOf[w]}
  /\ UNCHANGED <<record, typeIndex, view>>

AddToIndex(w) ==
  /\ Executed(w, "global", "type")
  /\ index' = index \cup {GenerateInstanceID(w)}
  /\ UNCHANGED <<record, typeIndex, view>>

AddToTypeIndex(w) ==
  /\ Executed(w, "type", "none")
  /\ typeIndex' = [typeIndex EXCEPT ![TypeOf[w]] = @ \cup {GenerateInstanceID(w)}]
  /\ UNCHANGED <<record, index, view>>

\* The connection breaks: the rest is not executed, the error only logged.
LoseCommands(w) ==
  /\ wire[w].next \in Pending
  /\ Sent(w, "lost")
  /\ UNCHANGED <<up, age, redisVars, cleanup, view>>

-----------------------------------------------------------------------------
(* CleanupStaleInstances: every call may fail.                              *)

StartCleanup ==
  /\ cleanup = Idle
  /\ cleanup' = [phase |-> "scan", todo |-> index]
  /\ UNCHANGED <<workerVars, redisVars, view>>

EndCleanup ==
  /\ cleanup.phase = "scan" /\ cleanup.todo = {}
  /\ cleanup' = Idle
  /\ UNCHANGED <<workerVars, redisVars, view>>

\* Mutant: a key that is gone is skipped, like one that cannot be read.
ExaminedWithKey(id) ==
  IF record[id] # Absent /\ record[id].beat > RemoveAfter THEN "stale" ELSE "kept"

\* redis.Nil, too old, or neither.
Examined(id) ==
  IF record[id] = Absent THEN "gone"
  ELSE IF record[id].beat > RemoveAfter THEN "stale" ELSE "kept"

ExamineAs(id, outcome) ==
  /\ cleanup.phase = "scan" /\ id \in cleanup.todo
  /\ cleanup' = IF outcome = "kept"
                THEN [phase |-> "scan", todo |-> cleanup.todo \ {id}]
                ELSE [phase |-> outcome, todo |-> cleanup.todo \ {id}, id |-> id]
  /\ UNCHANGED <<workerVars, redisVars, view>>

\* An id whose Get fails is kept.
Examine(id) == \E outcome \in {Examined(id), "kept"} : ExamineAs(id, outcome)

CleanupMoves(from, to) ==
  /\ cleanup.phase = from
  /\ cleanup' = IF to = "scan" THEN [phase |-> "scan", todo |-> cleanup.todo]
                ELSE [cleanup EXCEPT !.phase = to]
  /\ UNCHANGED workerVars

\* Mutant: a stale instance is stored again, as offline, instead of deleted.
StoreOffline ==
  /\ CleanupMoves("stale", "gone")
  /\ record' \in {record, [record EXCEPT ![cleanup.id] =
                           IF @ = Absent THEN Absent ELSE [beat |-> @.beat, set |-> 0]]}
  /\ UNCHANGED <<index, typeIndex, view>>

\* Del, then the two SRem of removeFromIndices; an error leaves things as they are.
DeleteRecord ==
  /\ CleanupMoves("stale", "gone")
  /\ record' \in {record, [record EXCEPT ![cleanup.id] = Absent]}
  /\ UNCHANGED <<index, typeIndex, view>>

RemoveFromIndex ==
  /\ CleanupMoves("gone", "unlisted")
  /\ index' \in {index, index \ {cleanup.id}}
  /\ UNCHANGED <<record, typeIndex, view>>

RemoveFromTypeIndex ==
  /\ CleanupMoves("unlisted", "scan")
  /\ LET t == ParsedType(cleanup.id) IN
       \/ /\ t \in Types
          /\ typeIndex' = [typeIndex EXCEPT ![t] = @ \ {cleanup.id}]
       \/ UNCHANGED typeIndex
  /\ UNCHANGED <<record, index, view>>

\* The chief stops: nothing is undone, and a new chief begins with its ticker.
ChiefStops ==
  /\ cleanup' = Idle
  /\ view' = NoView
  /\ UNCHANGED <<workerVars, redisVars>>

-----------------------------------------------------------------------------
(* ListInstances: the members of an index, then one Get for each.           *)

StartList ==
  /\ view.todo = {}
  /\ \E ids \in {index} \cup {typeIndex[t] : t \in Types} :
       view' = [todo |-> ids, online |-> {}]
  /\ UNCHANGED <<workerVars, redisVars, cleanup>>

\* Mutant: the stored status, which is always online.
GetWithKey(id) ==
  /\ id \in view.todo
  /\ \/ view' = [view EXCEPT !.todo = @ \ {id}]
     \/ /\ record[id] # Absent
        /\ view' = [view EXCEPT !.todo = @ \ {id}, !.online = @ \cup {id}]
  /\ UNCHANGED <<workerVars, redisVars, cleanup>>

\* Shown online, or offline; a key that is gone, or a failing Get, skips the id.
GetInstance(id) ==
  /\ id \in view.todo
  /\ \/ view' = [view EXCEPT !.todo = @ \ {id}]
     \/ /\ record[id] # Absent /\ record[id].beat <= OfflineAfter
        /\ view' = [view EXCEPT !.todo = @ \ {id}, !.online = @ \cup {id}]
  /\ UNCHANGED <<workerVars, redisVars, cleanup>>

-----------------------------------------------------------------------------
\* Time passes. Redis drops keys whose time to live is over. A ticker fires on
\* time, and the Redis client gives a pipeline up (timeouts of seconds) before
\* the next one is due: neither outlasts the interval.
Tick ==
  /\ \A w \in Workers : w \in up \/ wire[w].next \in Pending => age[w] < Interval
  /\ age' = [w \in Workers |-> Older(age[w])]
  /\ wire' = [w \in Workers |-> [wire[w] EXCEPT !.beat = Older(@)]]
  /\ record' = [id \in Ids |->
       IF record[id] = Absent \/ record[id].set + 1 >= RemoveAfter THEN Absent
       ELSE [beat |-> Older(record[id].beat), set |-> record[id].set + 1]]
  /\ UNCHANGED <<up, index, typeIndex, cleanup, view>>

Step(w) == SetRecord(w) \/ AddToIndex(w) \/ AddToTypeIndex(w)
CleanupCalls == DeleteRecord \/ RemoveFromIndex \/ RemoveFromTypeIndex

Next ==
  \/ \E w \in Workers :
       StartWorker(w) \/ Beat(w) \/ WorkerDies(w) \/ Step(w) \/ LoseCommands(w)
  \/ StartCleanup \/ EndCleanup \/ CleanupCalls \/ ChiefStops
  \/ \E id \in Ids : Examine(id) \/ GetInstance(id)
  \/ StartList
  \/ Tick

Spec == Init /\ [][Next]_vars

\* Time passes, tickers tick, Redis executes or the connection breaks. The chief may
\* stop, and its calls may fail, again and again, but not every time for ever.
Fairness ==
  /\ WF_vars(Tick)
  /\ \A w \in Workers : WF_vars(Beat(w)) /\ WF_vars(Step(w))
  /\ WF_vars(StartCleanup \/ EndCleanup \/ CleanupCalls)
  /\ SF_vars(\E id \in Ids : ExamineAs(id, Examined(id)))
  /\ SF_vars(RemoveFromIndex /\ index' # index)

FairSpec == Spec /\ Fairness

-----------------------------------------------------------------------------
Runs(id, within) ==
  \E w \in Workers : GenerateInstanceID(w) = id /\ (w \in up \/ age[w] <= within)

\* An instance that a list shows online had a running process no longer ago than the
\* timeout and the difference of the clocks: whatever was still on its way when the
\* process died, however many processes share the id.
OnlineIsAlive ==
  [][\A id \in view'.online \ view.online : Runs(id, OfflineAfter + Skew)]_vars

\* No key outlives the processes with its id by more than its time to live and the one
\* heartbeat that may have been on its way, whoever else writes the key and however
\* the cleanup fails.
KeysMeanLife == \A id \in Ids : record[id] # Absent => Runs(id, RemoveAfter + Interval - 1)

\* The cleanup may wipe the fresh heartbeat of a process that came back between
\* its Get and its Del: a process that goes on is listed again all the same, unless
\* a heartbeat of its is lost.
AliveIsListed ==
  \A w \in Workers :
    w \in up ~> (w \notin up \/ wire[w].next = "lost" \/ Listed(GenerateInstanceID(w)))

\* An id without processes loses its key and its place in the global index, also
\* when cleanups fail halfway or the chief stops in between.
DeadIsForgotten ==
  \A id \in Ids :
    <>[](\A w \in up : GenerateInstanceID(w) # id) => <>[](record[id] = Absent /\ id \notin index)
=============================================================================
