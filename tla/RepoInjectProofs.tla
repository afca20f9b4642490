--------------------------- MODULE RepoInjectProofs ---------------------------
(***************************************************************************)
(* Theorems about RepoInject for any number of pipelines, any versions and  *)
(* any binary packages: what a pipeline that reports success has done to the *)
(* repository, and what later pipelines, syncs and flushes leave of it.     *)
(***************************************************************************)
EXTENDS RepoInject, TLAPS

\* The command a task is at tells what kind of pipeline it is.
Branch ==
  /\ task.phase = "remove" => task.experimental
  /\ task.phase \in {"removesrc", "removebin"} => ~task.experimental /\ task.forced
  /\ task.phase = "removebin" => released = {}

\* What a sync brought is upstream's.
Origins ==
  \A d \in Dists, k \in Kinds :
    repo[d][k] # Absent /\ repo[d][k].version \in UpstreamVersions => repo[d][k].build = Upstream

\* The binaries that includedeb left, and the source that includedsc left, are there
\* while no flush came after them.
Injected ==
  /\ task.phase = "dsc" /\ (Target \notin disturbed \/ "flush" \notin task.met) =>
       \A k \in Binaries : Holds(repo[Target][k], task)
  /\ task.phase \in {"export", "success"} /\ "flush" \notin task.met =>
       \A k \in Kinds : Holds(repo[Target][k], task)

\* A pipeline that got its binaries into the development distribution is the first of
\* its version.
FirstOfVersion ==
  task.phase \in {"dsc", "export"} /\ ~task.experimental /\ "flush" \notin task.met =>
    \A r \in released : r.version = task.version => r.build = task.build

\* A source has all of its binaries, or newer ones.
SourceHasBinaries ==
  \A d \in Dists \ disturbed, k \in Binaries :
    repo[d]["src"] # Absent => Holds(repo[d][k], repo[d]["src"])

\* What the removals have made room for.
ForcedOut == Stripped[task.version] = task.version =>
  \A k \in Kinds : repo["dev"][k] # Absent => repo["dev"][k].version # task.version
Room ==
  /\ task.phase = "removebin" /\ task.met = {} => ForcedOut
  /\ task.phase = "debs" /\ task.met = {} /\ (task.forced \/ task.experimental) =>
       /\ \A k \in named : repo[Target][k] = Absent
       /\ task.experimental \/ ForcedOut
  /\ task.phase = "dsc" /\ task.met = {} /\ (task.forced \/ task.experimental) =>
       repo[Target]["src"] = Absent

Inv ==
  /\ TypeOK /\ Branch /\ Origins /\ Injected /\ FirstOfVersion
  /\ SourceHasBinaries /\ ReleasedStays /\ OneBuildPerVersion /\ Room /\ RemovalMakesRoom

-----------------------------------------------------------------------------
(* The operators that the commands are built from.                          *)

\* The task, when there is one, and what it keeps from command to command.
Same == /\ task'.build = task.build /\ task'.version = task.version
        /\ task'.experimental = task.experimental /\ task'.forced = task.forced

LEMMA TaskIs == TypeOK /\ task.phase \in Phase => task \in Task /\ task # NoTask
  BY DEF TypeOK, NoTask, Phase

LEMMA GoesTo ==
  ASSUME TypeOK, NEW from \in Phase, NEW to \in Phase, Goes(from, to)
  PROVE  task \in Task /\ task.phase = from
         /\ task' \in Task /\ task'.phase = to /\ task'.met = task.met /\ Same
  <1>1. task \in Task
    BY TaskIs DEF Goes
  <1> QED
    BY <1>1 DEF Goes, Task, Same

LEMMA FailsWith ==
  ASSUME TypeOK, NEW from \in Phase, NEW events \in SUBSET Events, Fails(from, events)
  PROVE  task \in Task /\ task.phase = from
         /\ task' \in Task /\ task'.phase = "failed" /\ task'.met = task.met \cup events /\ Same
  <1>1. task \in Task
    BY TaskIs DEF Fails
  <1>2. "failed" \in Phase
    BY DEF Phase
  <1> QED
    BY <1>1, <1>2 DEF Fails, Task, Same

LEMMA IgnoresFault ==
  ASSUME TypeOK, NEW from \in Phase, NEW to \in Phase, Ignores(from, to)
  PROVE  task \in Task /\ task.phase = from
         /\ task' \in Task /\ task'.phase = to /\ task'.met = task.met \cup {"fault"} /\ Same
  <1>1. task \in Task
    BY TaskIs DEF Ignores
  <1>2. "fault" \in Events
    BY DEF Events
  <1> QED
    BY <1>1, <1>2 DEF Ignores, Task, Same

LEMMA MeetsEvent ==
  ASSUME TypeOK, NEW event \in Events, Meets(event)
  PROVE  \/ task = NoTask /\ task' = NoTask
         \/ /\ task \in Task /\ task' \in Task /\ task'.phase = task.phase
            /\ task'.met = task.met \cup {event} /\ Same
  <1>1. CASE task = NoTask
    BY <1>1 DEF Meets
  <1>2. CASE task # NoTask
    BY <1>2 DEF Meets, TypeOK, Task, Same
  <1> QED
    BY <1>1, <1>2

Contents == [Dists -> [Kinds -> Entry \cup {Absent}]]

LEMMA EntryIs ==
  /\ Absent \notin Entry
  /\ \A e \in Entry : e.version \in Nat /\ e.version \in Versions \cup UpstreamVersions
  <1>1. Entry \subseteq [version : Nat, build : (1 .. Builds) \cup {Upstream}]
    BY RepoAssumption DEF Entry, Build
  <1> QED
    BY <1>1, RepoAssumption DEF Entry

LEMMA EntryAt ==
  ASSUME TypeOK, NEW d \in Dists, NEW k \in Kinds, repo[d][k] # Absent
  PROVE  repo[d][k] \in Entry /\ repo[d][k].version \in Nat
  <1>1. repo[d][k] \in Entry
    BY DEF TypeOK
  <1> QED
    BY <1>1, EntryIs

LEMMA TaskVersion ==
  task \in Task => task.version \in Versions /\ task.version \in Nat
  BY RepoAssumption DEF Task

LEMMA RemovedIs ==
  ASSUME TypeOK, NEW d \in Dists, NEW kinds
  PROVE  /\ Removed(d, kinds) \in Contents
         /\ \A e \in Dists, k \in Kinds :
              Removed(d, kinds)[e][k] = IF e = d /\ k \in kinds THEN Absent ELSE repo[e][k]
  BY DEF Removed, TypeOK, Contents

LEMMA IncludedIs ==
  ASSUME TypeOK, task \in Task, NEW d \in Dists, NEW kinds
  PROVE  /\ Included(d, kinds) \in Contents
         /\ \A e \in Dists, k \in Kinds :
              Included(d, kinds)[e][k] =
                IF e = d /\ k \in kinds THEN [version |-> task.version, build |-> task.build]
                ELSE repo[e][k]
  <1>1. [version |-> task.version, build |-> task.build] \in Entry
    BY DEF Task, Entry
  <1> QED
    BY <1>1 DEF Included, TypeOK, Contents

LEMMA KindsAre == Binaries \subseteq Kinds /\ "src" \in Kinds
  BY DEF Kinds

LEMMA NamedIs ==
  ASSUME TypeOK
  PROVE  /\ "src" \in named /\ named \subseteq Kinds
         /\ named = {"src"} \/ \E k \in Binaries : k \in named
  <1>1. PICK k \in Kinds : named = {"src", k}
    BY DEF TypeOK, Namings
  <1> QED
    BY <1>1 DEF Kinds

LEMMA TargetIs == Target \in Dists /\ "dev" \in Dists
  BY DEF Target, Dists

-----------------------------------------------------------------------------
(* Types.                                                                   *)

LEMMA TypeInit == Init => TypeOK
  BY RepoAssumption DEF Init, TypeOK, Empty, Dists, Files, NoTask

\* A change of the task, and one of the repository, as the commands make them.
LEMMA TypeByParts ==
  ASSUME TypeOK, task' \in Task \cup {NoTask}, repo' \in Contents,
         UNCHANGED <<named, conf, init, started>>,
         disturbed' \subseteq Dists, released' \subseteq [version : Versions, build : Build]
  PROVE  TypeOK'
  BY DEF TypeOK, Contents

LEMMA TypeQuiet ==
  ASSUME TypeOK, task' \in Task \cup {NoTask}, UNCHANGED <<repoVars, released>>,
         started' \in 0 .. Builds
  PROVE  TypeOK'
  BY DEF TypeOK, repoVars

LEMMA StartType ==
  ASSUME TypeOK, NEW v \in Versions, NEW experimental \in BOOLEAN, NEW forced \in BOOLEAN,
         StartRepo(v, experimental, forced)
  PROVE  /\ TypeOK' /\ task'.phase = "download" /\ task' \in Task
         /\ UNCHANGED <<repoVars, released>>
  <1>1. started + 1 \in Build /\ started' \in 0 .. Builds
    BY RepoAssumption DEF StartRepo, TypeOK, Build
  <1>2. task' \in Task /\ task'.phase = "download"
    BY <1>1 DEF StartRepo, Task, Phase
  <1>3. UNCHANGED <<repoVars, released>>
    BY DEF StartRepo
  <1> QED
    BY <1>1, <1>2, <1>3, TypeQuiet

\* A command that fails, or a task that ends, changes the task alone.
LEMMA EndType ==
  ASSUME TypeOK, ReturnTask \/ WorkerDies
  PROVE  TypeOK' /\ task' = NoTask /\ UNCHANGED <<repoVars, released>>
  <1>1. task' = NoTask /\ UNCHANGED <<repoVars, started, released>>
    BY DEF ReturnTask, WorkerDies
  <1> QED
    BY <1>1, TypeQuiet DEF TypeOK

-----------------------------------------------------------------------------
(* Steps that leave the repository as it is.                                *)

\* The task goes where nothing is claimed of it.
LEMMA Calm ==
  ASSUME Inv, TypeOK', UNCHANGED <<repo, disturbed, released>>, Branch',
         task'.phase \notin {"removebin", "dsc", "export", "success"},
         task'.phase \in {"debs", "failed"} =>
           task'.met # {} \/ ~(task'.forced \/ task'.experimental)
  PROVE  Inv'
  <1>1. Origins' /\ SourceHasBinaries' /\ ReleasedStays' /\ OneBuildPerVersion'
    BY DEF Inv, Origins, SourceHasBinaries, ReleasedStays, OneBuildPerVersion, Holds
  <1>2. Injected' /\ FirstOfVersion'
    BY DEF Injected, FirstOfVersion
  <1>3. Room' /\ RemovalMakesRoom'
    BY DEF Room, RemovalMakesRoom
  <1> QED
    BY <1>1, <1>2, <1>3 DEF Inv

\* The task stays where it is.
LEMMA Still ==
  ASSUME Inv, TypeOK', UNCHANGED <<named, repo, disturbed, released, task>>
  PROVE  Inv'
  <1>1. Branch' /\ Origins' /\ SourceHasBinaries' /\ ReleasedStays' /\ OneBuildPerVersion'
    BY DEF Inv, Branch, Origins, SourceHasBinaries, ReleasedStays, OneBuildPerVersion, Holds
  <1>2. Injected' /\ FirstOfVersion'
    BY DEF Inv, Injected, FirstOfVersion, Holds, Target
  <1>3. Room'
    BY DEF Inv, Room, Target, ForcedOut
  <1>4. RemovalMakesRoom'
    BY DEF Inv, RemovalMakesRoom, Target, Clash, Fresh
  <1> QED
    BY <1>1, <1>2, <1>3, <1>4 DEF Inv

\* A task begins, and one that ends leaves what it has done.
LEMMA TaskStep ==
  ASSUME Inv,
         \/ ReturnTask \/ WorkerDies
         \/ \E v \in Versions, experimental, forced \in BOOLEAN :
              StartRepo(v, experimental, forced)
  PROVE  Inv'
  <1>1. TypeOK' /\ UNCHANGED <<repoVars, released>> /\ task'.phase \in {"none", "download"}
    BY StartType, EndType DEF Inv, NoTask
  <1>2. Branch'
    BY <1>1 DEF Branch
  <1> QED
    BY <1>1, <1>2, Calm DEF repoVars

LEMMA FetchStep == Inv /\ FetchArtifact => Inv'
  <1> SUFFICES ASSUME Inv, FetchArtifact PROVE Inv'
    OBVIOUS
  <1>1. TypeOK /\ "download" \in Phase /\ FirstCommand \in Phase /\ {"fault"} \in SUBSET Events
    BY DEF Inv, Phase, FirstCommand, Events
  <1>2. /\ task \in Task /\ task.phase = "download" /\ task' \in Task /\ Same
        /\ \/ task'.phase = FirstCommand
           \/ task'.phase = "failed" /\ task'.met # {}
    BY <1>1, GoesTo, FailsWith DEF FetchArtifact
  <1>3. TypeOK' /\ UNCHANGED <<repo, disturbed, released>>
    BY <1>1, <1>2, TypeQuiet DEF FetchArtifact, TypeOK, repoVars
  <1>4. task'.phase = "remove" => task'.experimental
    BY <1>2 DEF FirstCommand, Same
  <1>5. task'.phase = "removesrc" => ~task'.experimental /\ task'.forced
    BY <1>2 DEF FirstCommand, Same
  <1>6. task'.phase = "debs" => ~(task'.forced \/ task'.experimental)
    BY <1>2 DEF FirstCommand, Same
  <1>7. task'.phase \in {"remove", "removesrc", "debs", "failed"}
    BY <1>2 DEF FirstCommand
  <1> QED
    BY <1>2, <1>3, <1>4, <1>5, <1>6, <1>7, Calm DEF Branch, FirstCommand

-----------------------------------------------------------------------------
(* The removals.                                                            *)

\* A removal takes entries away, and no claim is made of the task after it but that
\* there is room.
LEMMA Removal ==
  ASSUME Inv, TypeOK', NEW d \in Dists, NEW kinds, repo' = Removed(d, kinds),
         task'.phase \in {"removebin", "debs"}, Branch', Room',
         \/ released' = {}
         \/ d # "dev" /\ released' = released,
         \/ "src" \in kinds /\ disturbed' = disturbed \ {d}
         \/ disturbed' = disturbed \cup {d}
  PROVE  Inv'
  <1>1. \A e \in Dists, k \in Kinds :
          repo'[e][k] = IF e = d /\ k \in kinds THEN Absent ELSE repo[e][k]
    BY RemovedIs DEF Inv
  <1>2. Origins'
    BY <1>1 DEF Inv, Origins
  <1>3. Injected' /\ FirstOfVersion' /\ RemovalMakesRoom'
    BY DEF Injected, FirstOfVersion, RemovalMakesRoom
  <1>4. SourceHasBinaries'
    <2>1. ASSUME NEW e \in Dists \ disturbed', NEW k \in Binaries, repo'[e]["src"] # Absent
          PROVE  Holds(repo[e][k], repo[e]["src"])'
      <3>1. e # d /\ e \notin disturbed
        BY <1>1, <2>1, KindsAre
      <3>2. repo'[e][k] = repo[e][k] /\ repo'[e]["src"] = repo[e]["src"]
        BY <1>1, <3>1, KindsAre
      <3> QED
        BY <2>1, <3>1, <3>2 DEF Inv, SourceHasBinaries, Holds
    <2> QED
      BY <2>1 DEF SourceHasBinaries
  <1>5. ReleasedStays' /\ OneBuildPerVersion'
    BY <1>1, TargetIs DEF Inv, ReleasedStays, OneBuildPerVersion, Holds
  <1> QED
    BY <1>2, <1>3, <1>4, <1>5 DEF Inv

LEMMA RemoveExistingStep == Inv /\ RemoveExisting => Inv'
  <1> SUFFICES ASSUME Inv, RemoveExisting PROVE Inv'
    OBVIOUS
  <1>1. TypeOK /\ "remove" \in Phase /\ "debs" \in Phase
    BY DEF Inv, Phase
  <1>2. CASE Ignores("remove", "debs") /\ UNCHANGED <<repo, disturbed>>
    <2>1. task' \in Task /\ task'.phase = "debs" /\ task'.met # {}
      BY <1>1, <1>2, IgnoresFault
    <2>2. TypeOK' /\ UNCHANGED <<repo, disturbed, released>>
      BY <1>1, <1>2, <2>1, TypeQuiet DEF RemoveExisting, TypeOK, repoVars
    <2> QED
      BY <2>1, <2>2, Calm DEF Branch
  <1>3. CASE /\ Goes("remove", "debs")
             /\ repo' = Removed(Target, named) /\ disturbed' = disturbed \ {Target}
    <2>1. /\ task \in Task /\ task.phase = "remove" /\ task.experimental
          /\ task' \in Task /\ task'.phase = "debs" /\ Same
      BY <1>1, <1>3, GoesTo DEF Inv, Branch
    <2>2. Target = "experimental" /\ Target' = "experimental" /\ task'.experimental
      BY <2>1 DEF Target, Same
    <2>3. TypeOK'
      BY <1>1, <1>3, <2>1, TargetIs, RemovedIs, TypeByParts DEF RemoveExisting, TypeOK
    <2>4. \A k \in named' : repo'[Target'][k] = Absent
      <3>1. named' = named
        BY DEF RemoveExisting
      <3> QED
        BY <1>1, <1>3, <2>2, <3>1, TargetIs, RemovedIs, NamedIs
    <2>5. Room' /\ Branch'
      BY <2>1, <2>2, <2>4 DEF Room, Branch
    <2>6. "src" \in named /\ released' = released
      BY <1>1, NamedIs DEF RemoveExisting
    <2> QED
      BY <1>3, <2>1, <2>2, <2>3, <2>5, <2>6, TargetIs, Removal
  <1> QED
    BY <1>2, <1>3 DEF RemoveExisting

LEMMA RemoveSourceStep == Inv /\ RemoveSource => Inv'
  <1> SUFFICES ASSUME Inv, RemoveSource PROVE Inv'
    OBVIOUS
  <1>1. TypeOK /\ "removesrc" \in Phase /\ "removebin" \in Phase /\ released' = {}
    BY DEF Inv, Phase, RemoveSource
  <1>2. /\ task \in Task /\ task.phase = "removesrc" /\ task' \in Task
        /\ task'.phase = "removebin" /\ Same
    BY <1>1, GoesTo, IgnoresFault DEF RemoveSource
  <1>3. Branch'
    BY <1>1, <1>2 DEF Branch, Inv, Same
  <1>4. CASE Ignores("removesrc", "removebin") /\ UNCHANGED <<repo, disturbed>>
    <2>1. task'.met # {}
      BY <1>1, <1>4, IgnoresFault
    <2>2. TypeOK'
      BY <1>1, <1>2, <1>4 DEF RemoveSource, TypeOK
    <2>3. Origins' /\ SourceHasBinaries' /\ ReleasedStays' /\ OneBuildPerVersion'
      BY <1>1, <1>4 DEF Inv, Origins, SourceHasBinaries, ReleasedStays, OneBuildPerVersion, Holds
    <2>4. Injected' /\ FirstOfVersion' /\ RemovalMakesRoom' /\ Room'
      BY <1>2, <2>1 DEF Injected, FirstOfVersion, RemovalMakesRoom, Room
    <2> QED
      BY <1>3, <2>2, <2>3, <2>4 DEF Inv
  <1>5. CASE /\ repo' = Removed("dev", FromSource("dev", Stripped[task.version]))
             /\ disturbed' = disturbed \cup {"dev"}
    <2>1. \A k \in Kinds : repo'["dev"][k] = IF k \in FromSource("dev", Stripped[task.version])
                                             THEN Absent ELSE repo["dev"][k]
      BY <1>1, <1>5, RemovedIs, TargetIs
    <2>2. ForcedOut'
      BY <1>2, <2>1 DEF ForcedOut, FromSource, Same
    <2>3. Room'
      BY <1>2, <2>2 DEF Room
    <2>4. TypeOK'
      BY <1>1, <1>2, <1>5, TargetIs, RemovedIs, TypeByParts DEF RemoveSource, TypeOK
    <2> QED
      BY <1>1, <1>2, <1>3, <1>5, <2>3, <2>4, TargetIs, Removal
  <1> QED
    BY <1>4, <1>5 DEF RemoveSource

LEMMA RemoveBinaryStep == Inv /\ RemoveBinary => Inv'
  <1> SUFFICES ASSUME Inv, RemoveBinary PROVE Inv'
    OBVIOUS
  <1>1. TypeOK /\ "removebin" \in Phase /\ "debs" \in Phase
    BY DEF Inv, Phase
  <1>2. CASE Ignores("removebin", "debs") /\ UNCHANGED <<repo, disturbed>>
    <2>1. task' \in Task /\ task'.phase = "debs" /\ task'.met # {}
      BY <1>1, <1>2, IgnoresFault
    <2>2. TypeOK' /\ UNCHANGED <<repo, disturbed, released>>
      BY <1>1, <1>2, <2>1, TypeQuiet DEF RemoveBinary, TypeOK, repoVars
    <2> QED
      BY <2>1, <2>2, Calm DEF Branch
  <1>3. CASE /\ Goes("removebin", "debs")
             /\ repo' = Removed("dev", named) /\ disturbed' = disturbed \ {"dev"}
    <2>1. /\ task \in Task /\ task.phase = "removebin" /\ ~task.experimental /\ released = {}
          /\ task' \in Task /\ task'.phase = "debs" /\ task'.met = task.met /\ Same
      BY <1>1, <1>3, GoesTo DEF Inv, Branch
    <2>2. /\ Target' = "dev" /\ released' = {}
          /\ named' = named /\ "src" \in named /\ named \subseteq Kinds
      BY <1>1, <2>1, NamedIs DEF Target, Same, RemoveBinary
    <2>3. TypeOK'
      BY <1>1, <1>3, <2>1, TargetIs, RemovedIs, TypeByParts DEF RemoveBinary, TypeOK
    <2>4. \A k \in Kinds : repo'["dev"][k] = IF k \in named THEN Absent ELSE repo["dev"][k]
      BY <1>1, <1>3, TargetIs, RemovedIs
    <2>5. task'.met = {} => ForcedOut'
      <3>1. task'.met = {} => ForcedOut
        BY <2>1 DEF Inv, Room
      <3> QED
        BY <2>1, <2>4, <3>1 DEF ForcedOut, Same
    <2>6. Room' /\ Branch'
      BY <2>1, <2>2, <2>4, <2>5 DEF Room, Branch
    <2> QED
      BY <1>3, <2>1, <2>2, <2>3, <2>6, TargetIs, Removal
  <1> QED
    BY <1>2, <1>3 DEF RemoveBinary

-----------------------------------------------------------------------------
(* The injections and the export.                                           *)

\* What is included was missing or older: nothing that was released is lost.
LEMMA Inclusion ==
  ASSUME Inv, task \in Task, NEW kinds \in SUBSET Fresh(Target, Kinds),
         repo' = Included(Target, kinds), released' = released
  PROVE  /\ \A e \in Dists, k \in Kinds :
              repo'[e][k] = IF e = Target /\ k \in kinds
                            THEN [version |-> task.version, build |-> task.build]
                            ELSE repo[e][k]
         /\ Origins' /\ ReleasedStays' /\ OneBuildPerVersion'
  <1>1. \A e \in Dists, k \in Kinds :
          repo'[e][k] = IF e = Target /\ k \in kinds
                        THEN [version |-> task.version, build |-> task.build]
                        ELSE repo[e][k]
    BY IncludedIs, TargetIs DEF Inv
  <1>2. task.version \in Versions /\ task.version \in Nat /\ task.version \notin UpstreamVersions
    BY RepoAssumption DEF Task
  <1>3. Origins'
    BY <1>1, <1>2 DEF Inv, Origins
  <1>4. ASSUME NEW r \in released, NEW k \in Kinds
        PROVE  Holds(repo'["dev"][k], r)
    <2>1. Holds(repo["dev"][k], r) /\ r.version \in Nat
      BY RepoAssumption DEF Inv, ReleasedStays, TypeOK
    <2>2. CASE "dev" = Target /\ k \in kinds
      <3>1. repo["dev"][k].version < task.version /\ repo["dev"][k].version \in Nat
        BY <2>1, <2>2, TargetIs, EntryIs DEF Holds, Fresh, Inv, TypeOK
      <3>2. repo'["dev"][k] = [version |-> task.version, build |-> task.build]
        BY <1>1, <2>2, TargetIs
      <3>3. [version |-> task.version, build |-> task.build] # Absent
        BY EntryIs DEF Task, Entry
      <3> QED
        BY <1>2, <2>1, <3>1, <3>2, <3>3 DEF Holds
    <2>3. CASE ~("dev" = Target /\ k \in kinds)
      BY <1>1, <2>1, <2>3, TargetIs
    <2> QED
      BY <2>2, <2>3
  <1> QED
    BY <1>1, <1>3, <1>4 DEF Inv, ReleasedStays, OneBuildPerVersion, Holds

\* Binaries of a higher version do no harm to a source that has all of its own.
LEMMA BinariesRise ==
  ASSUME Inv, task \in Task, NEW kinds \in SUBSET Fresh(Target, Binaries),
         repo' = Included(Target, kinds), UNCHANGED <<released, disturbed>>
  PROVE  SourceHasBinaries'
  <1>1. kinds \in SUBSET Fresh(Target, Kinds) /\ "src" \notin kinds
    BY KindsAre, RepoAssumption DEF Fresh
  <1>2. \A e \in Dists, k \in Kinds :
          repo'[e][k] = IF e = Target /\ k \in kinds
                        THEN [version |-> task.version, build |-> task.build]
                        ELSE repo[e][k]
    BY <1>1, Inclusion
  <1>3. ASSUME NEW e \in Dists \ disturbed', NEW k \in Binaries, repo'[e]["src"] # Absent
        PROVE  Holds(repo[e][k], repo[e]["src"])'
    <2>1. repo'[e]["src"] = repo[e]["src"]
      BY <1>1, <1>2, KindsAre
    <2>2. Holds(repo[e][k], repo[e]["src"])
      BY <1>3, <2>1 DEF Inv, SourceHasBinaries
    <2>3. /\ k \in Kinds /\ "src" \in Kinds /\ e \in Dists
          /\ repo[e][k].version \in Nat /\ repo[e]["src"].version \in Nat /\ task.version \in Nat
      <3>1. k \in Kinds /\ "src" \in Kinds /\ e \in Dists
        BY KindsAre
      <3>2. repo[e][k] # Absent /\ repo[e]["src"] # Absent
        BY <1>3, <2>1, <2>2 DEF Holds
      <3> QED
        BY <3>1, <3>2, EntryAt, TaskVersion DEF Inv
    <2>4. CASE e = Target /\ k \in kinds
      <3>1. repo[e][k].version < task.version
        BY <2>2, <2>4 DEF Fresh, Holds
      <3>2. repo'[e][k] = [version |-> task.version, build |-> task.build] /\ repo'[e][k] # Absent
        BY <1>2, <2>3, <2>4, EntryIs DEF Task, Entry
      <3> QED
        BY <2>1, <2>2, <2>3, <3>1, <3>2 DEF Holds
    <2>5. CASE ~(e = Target /\ k \in kinds)
      BY <1>2, <2>1, <2>2, <2>3, <2>5
    <2> QED
      BY <2>4, <2>5
  <1> QED
    BY <1>3 DEF SourceHasBinaries

LEMMA DebsSucceed ==
  ASSUME Inv, IncludeDebs, Goes("debs", "dsc"), ~Refused(Target, Binaries),
         repo' = Included(Target, Fresh(Target, Binaries))
  PROVE  Inv'
  <1> DEFINE kinds == Fresh(Target, Binaries)
  <1>1. TypeOK /\ "debs" \in Phase /\ "dsc" \in Phase
    BY DEF Inv, Phase
  <1>2. /\ task \in Task /\ task.phase = "debs" /\ task' \in Task
        /\ task'.phase = "dsc" /\ task'.met = task.met /\ Same /\ Target' = Target
    BY <1>1, GoesTo DEF Same, Target
  <1>3. UNCHANGED <<released, disturbed>>
    BY DEF IncludeDebs
  <1>4. kinds \in SUBSET Fresh(Target, Kinds)
    BY KindsAre DEF Fresh
  <1>5. /\ \A e \in Dists, k \in Kinds :
             repo'[e][k] = IF e = Target /\ k \in kinds
                           THEN [version |-> task.version, build |-> task.build]
                           ELSE repo[e][k]
        /\ Origins' /\ ReleasedStays' /\ OneBuildPerVersion'
    BY <1>2, <1>3, <1>4, Inclusion
  <1>6. SourceHasBinaries'
    BY <1>2, <1>3, BinariesRise
  <1>7. TypeOK'
    BY <1>1, <1>2, <1>3, TargetIs, IncludedIs, TypeByParts DEF IncludeDebs, TypeOK
  <1>8. ASSUME NEW k \in Binaries PROVE Holds(repo'[Target][k], task')
    <2>1. k \in Kinds /\ Target \in Dists /\ task.version \in Nat
      BY KindsAre, TargetIs, <1>2, RepoAssumption DEF Task
    <2>2. CASE k \in kinds
      <3>1. repo'[Target][k] = [version |-> task.version, build |-> task.build]
            /\ repo'[Target][k] # Absent
        BY <1>2, <1>5, <2>1, <2>2, EntryIs DEF Task, Entry
      <3> QED
        BY <1>2, <2>1, <3>1 DEF Holds, Same
    <2>3. CASE k \notin kinds
      <3>1. repo'[Target][k] = repo[Target][k] /\ repo[Target][k] # Absent
            /\ ~(repo[Target][k].version < task.version)
        BY <1>5, <2>1, <2>3 DEF Fresh
      <3>2. repo[Target][k].version \in Nat
        BY <1>1, <2>1, <3>1, EntryIs DEF TypeOK
      <3>3. repo[Target][k].version = task.version => repo[Target][k].build = task.build
        BY <3>1 DEF Refused, Clash
      <3> QED
        BY <1>2, <2>1, <3>1, <3>2, <3>3 DEF Holds, Same
    <2> QED
      BY <2>2, <2>3
  <1>9. Injected'
    BY <1>2, <1>8 DEF Injected
  <1>10. ASSUME ~task.experimental, NEW r \in released, r.version = task.version
         PROVE  r.build = task.build
    \* The released build of this version, or a later one, left includedeb nothing to add.
    <2>1. Target = "dev"
      BY <1>10 DEF Target
    <2>2. \A k \in Binaries : Holds(repo["dev"][k], r)
      BY KindsAre DEF Inv, ReleasedStays
    <2>3. PICK k \in Binaries : k \in Fresh("dev", Binaries)
      BY <2>1 DEF Refused, Fresh
    <2>4. repo["dev"][k].version \in Nat /\ task.version \in Nat
      <3>1. repo["dev"][k] # Absent
        BY <2>2 DEF Holds
      <3> QED
        BY <1>1, <1>2, <3>1, KindsAre, TargetIs, EntryAt, TaskVersion
    <2> QED
      BY <1>10, <2>2, <2>3, <2>4 DEF Fresh, Holds
  <1>11. FirstOfVersion'
    BY <1>2, <1>3, <1>10 DEF FirstOfVersion, Same
  <1>12. Room'
    <2>1. "src" \notin kinds /\ "src" \in named
      BY <1>1, NamedIs, RepoAssumption DEF Fresh
    <2> QED
      BY <1>2, <1>5, <2>1, KindsAre, TargetIs DEF Room, Inv, Same
  <1>13. Branch' /\ RemovalMakesRoom'
    BY <1>2 DEF Branch, RemovalMakesRoom
  <1> QED
    BY <1>5, <1>6, <1>7, <1>9, <1>11, <1>12, <1>13 DEF Inv

LEMMA DebsFail ==
  ASSUME Inv, IncludeDebs, NEW taken \in SUBSET Fresh(Target, Binaries),
         Fails("debs", IF Refused(Target, Binaries) /\ Ready(Target) THEN {} ELSE {"fault"}),
         repo' = Included(Target, taken)
  PROVE  Inv'
  <1> DEFINE events == IF Refused(Target, Binaries) /\ Ready(Target) THEN {} ELSE {"fault"}
  <1>1. TypeOK /\ "debs" \in Phase /\ events \in SUBSET Events
    BY DEF Inv, Phase, Events
  <1>2. /\ task \in Task /\ task.phase = "debs" /\ task' \in Task
        /\ task'.phase = "failed" /\ task'.met = task.met \cup events /\ Same /\ Target' = Target
    BY <1>1, FailsWith DEF Same, Target
  <1>3. UNCHANGED <<released, disturbed>>
    BY DEF IncludeDebs
  <1>4. taken \in SUBSET Fresh(Target, Kinds)
    BY KindsAre DEF Fresh
  <1>5. /\ \A e \in Dists, k \in Kinds :
             repo'[e][k] = IF e = Target /\ k \in taken
                           THEN [version |-> task.version, build |-> task.build]
                           ELSE repo[e][k]
        /\ Origins' /\ ReleasedStays' /\ OneBuildPerVersion'
    BY <1>2, <1>3, <1>4, Inclusion
  <1>6. SourceHasBinaries'
    BY <1>2, <1>3, BinariesRise
  <1>7. TypeOK'
    BY <1>1, <1>2, <1>3, TargetIs, IncludedIs, TypeByParts DEF IncludeDebs, TypeOK
  <1>8. Branch' /\ Injected' /\ FirstOfVersion' /\ Room'
    BY <1>2 DEF Branch, Injected, FirstOfVersion, Room
  <1>9. ASSUME task'.met = {}, task'.forced \/ task'.experimental
        PROVE  /\ \/ Clash(Target, Binaries \ named)'
                  \/ (named = {"src"} /\ Fresh(Target, Binaries) = {})'
               /\ Clash(Target, Binaries \ named)' =>
                    task'.experimental \/ Stripped[task'.version] # task'.version
    <2>1. Refused(Target, Binaries) /\ task.met = {} /\ (task.forced \/ task.experimental)
      BY <1>2, <1>9 DEF Same
    <2>2. /\ \A k \in named : repo[Target][k] = Absent
          /\ task.experimental \/ ForcedOut
          /\ named' = named
      BY <1>2, <2>1 DEF Inv, Room, IncludeDebs
    <2>3. task.version \in Nat /\ Target \in Dists
      BY <1>2, TaskVersion, TargetIs
    \* What clashes was not taken, and bears another name.
    <2>4. ASSUME NEW k \in Binaries, repo[Target][k] # Absent,
                 repo[Target][k].version = task.version, repo[Target][k].build # task.build
          PROVE  Clash(Target, Binaries \ named)'
      <3>1. k \notin named /\ k \in Kinds /\ k \notin taken
        BY <2>2, <2>3, <2>4, KindsAre DEF Fresh
      <3>2. repo'[Target][k] = repo[Target][k]
        BY <1>5, <2>3, <3>1
      <3> QED
        BY <1>2, <2>2, <2>4, <3>1, <3>2 DEF Clash, Same
    \* Nothing is taken of what is there already, and a binary of the source's name is not.
    <2>5. ASSUME Fresh(Target, Binaries) = {}
          PROVE  named = {"src"} /\ Fresh(Target, Binaries)' = {}
      <3>1. named = {"src"}
        <4>1. \A k \in Binaries : repo[Target][k] # Absent
          BY <2>5 DEF Fresh
        <4> QED
          BY <1>1, <2>2, <4>1, NamedIs
      <3>2. repo'[Target] = repo[Target]
        <4>1. taken = {}
          BY <2>5
        <4>2. \A k \in Kinds : repo'[Target][k] = repo[Target][k]
          BY <1>5, <2>3, <4>1
        <4> QED
          BY <1>1, <1>7, <2>3, <4>2 DEF TypeOK
      <3>3. Fresh(Target, Binaries)' = {}
        BY <1>2, <2>5, <3>2 DEF Fresh, Same
      <3> QED
        BY <3>1, <3>3
    <2>6. Clash(Target, Binaries \ named)' => task'.experimental \/ Stripped[task'.version] # task'.version
      <3>1. SUFFICES ASSUME NEW k \in Binaries, repo'[Target][k] # Absent,
                            repo'[Target][k].version = task.version,
                            repo'[Target][k].build # task.build,
                            ~task.experimental, ForcedOut, Stripped[task.version] = task.version
                     PROVE  FALSE
        BY <1>2, <2>2 DEF Clash, Same
      <3>2. k \in Kinds /\ Target = "dev"
        BY <3>1, KindsAre DEF Target
      <3>3. k \notin taken
        BY <1>5, <2>3, <3>1, <3>2
      <3>4. repo'[Target][k] = repo[Target][k]
        BY <1>5, <2>3, <3>2, <3>3
      <3> QED
        BY <3>1, <3>2, <3>4 DEF ForcedOut
    <2>7. Clash(Target, Binaries \ named)' \/ (named = {"src"} /\ Fresh(Target, Binaries) = {})'
      <3>1. CASE Clash(Target, Binaries)
        BY <2>4, <3>1 DEF Clash
      <3>2. CASE Fresh(Target, Binaries) = {}
        <4>1. named = {"src"} /\ Fresh(Target, Binaries)' = {}
          BY <2>5, <3>2
        <4> QED
          BY <2>2, <4>1
      <3> QED
        BY <2>1, <3>1, <3>2 DEF Refused
    <2> QED
      BY <2>6, <2>7
  <1>10. RemovalMakesRoom'
    BY <1>9 DEF RemovalMakesRoom
  <1> QED
    BY <1>5, <1>6, <1>7, <1>8, <1>10 DEF Inv

LEMMA IncludeDebsStep == Inv /\ IncludeDebs => Inv'
  <1> SUFFICES ASSUME Inv, IncludeDebs PROVE Inv'
    OBVIOUS
  <1>1. CASE /\ Goes("debs", "dsc") /\ Ready(Target) /\ ~Refused(Target, Binaries)
             /\ repo' = Included(Target, Fresh(Target, Binaries))
    BY <1>1, DebsSucceed
  <1>2. CASE /\ Fails("debs", IF Refused(Target, Binaries) /\ Ready(Target) THEN {} ELSE {"fault"})
             /\ \E taken \in IF Ready(Target) THEN SUBSET Fresh(Target, Binaries) ELSE {{}} :
                  repo' = Included(Target, taken)
    <2>1. PICK taken \in SUBSET Fresh(Target, Binaries) : repo' = Included(Target, taken)
      BY <1>2
    <2> QED
      BY <1>2, <2>1, DebsFail
  <1> QED
    BY <1>1, <1>2 DEF IncludeDebs

LEMMA DscSucceeds ==
  ASSUME Inv, IncludeDsc, Goes("dsc", "export"), ~Refused(Target, {"src"}),
         repo' = Included(Target, {"src"})
  PROVE  Inv'
  <1>1. TypeOK /\ "dsc" \in Phase /\ "export" \in Phase
    BY DEF Inv, Phase
  <1>2. /\ task \in Task /\ task.phase = "dsc" /\ task' \in Task
        /\ task'.phase = "export" /\ task'.met = task.met /\ Same /\ Target' = Target
    BY <1>1, GoesTo DEF Same, Target
  <1>3. UNCHANGED <<released, disturbed>>
    BY DEF IncludeDsc
  <1>4. {"src"} \in SUBSET Fresh(Target, Kinds)
    BY KindsAre DEF Refused, Fresh
  <1>5. /\ \A e \in Dists, k \in Kinds :
             repo'[e][k] = IF e = Target /\ k \in {"src"}
                           THEN [version |-> task.version, build |-> task.build]
                           ELSE repo[e][k]
        /\ Origins' /\ ReleasedStays' /\ OneBuildPerVersion'
    BY <1>2, <1>3, <1>4, Inclusion
  <1>6. \A k \in Binaries : k \in Kinds /\ k # "src"
    BY KindsAre, RepoAssumption
  <1>7. /\ repo'[Target]["src"] # Absent
        /\ repo'[Target]["src"].version = task.version /\ repo'[Target]["src"].build = task.build
    <2>1. repo'[Target]["src"] = [version |-> task.version, build |-> task.build]
      BY <1>5, KindsAre, TargetIs
    <2>2. [version |-> task.version, build |-> task.build] \in Entry
      BY <1>2 DEF Task, Entry
    <2> QED
      BY <2>1, <2>2, EntryIs
  <1>8. SourceHasBinaries'
    <2>1. ASSUME NEW e \in Dists \ disturbed', NEW k \in Binaries, repo'[e]["src"] # Absent
          PROVE  Holds(repo[e][k], repo[e]["src"])'
      <3>1. repo'[e][k] = repo[e][k]
        BY <1>5, <1>6
      <3>2. CASE e = Target
        <4>1. Holds(repo[e][k], task)
          BY <1>2, <1>3, <3>2 DEF Inv, Injected
        <4> QED
          BY <1>7, <3>1, <3>2, <4>1 DEF Holds
      <3>3. CASE e # Target
        <4>1. repo'[e]["src"] = repo[e]["src"]
          BY <1>5, <3>3, KindsAre
        <4> QED
          BY <1>3, <2>1, <3>1, <4>1 DEF Inv, SourceHasBinaries, Holds
      <3> QED
        BY <3>2, <3>3
    <2> QED
      BY <2>1 DEF SourceHasBinaries
  <1>9. TypeOK'
    BY <1>1, <1>2, <1>3, TargetIs, IncludedIs, TypeByParts DEF IncludeDsc, TypeOK
  <1>10. Injected'
    <2>1. ASSUME "flush" \notin task.met, NEW k \in Kinds
          PROVE  Holds(repo'[Target][k], task')
      <3>1. task.version \in Nat
        BY <1>2, TaskVersion
      <3>2. CASE k = "src"
        BY <1>2, <1>7, <3>1, <3>2 DEF Holds, Same
      <3>3. CASE k # "src"
        <4>1. k \in Binaries
          BY <3>3 DEF Kinds
        <4>2. Holds(repo[Target][k], task)
          BY <1>2, <2>1, <4>1 DEF Inv, Injected
        <4> QED
          BY <1>2, <1>5, <3>3, <4>2, TargetIs DEF Holds, Same
      <3> QED
        BY <3>2, <3>3
    <2> QED
      BY <1>2, <2>1 DEF Injected
  <1>11. FirstOfVersion'
    BY <1>2, <1>3 DEF Inv, FirstOfVersion, Same
  <1>12. Branch' /\ Room' /\ RemovalMakesRoom'
    BY <1>2 DEF Branch, Room, RemovalMakesRoom
  <1> QED
    BY <1>5, <1>8, <1>9, <1>10, <1>11, <1>12 DEF Inv

LEMMA IncludeDscStep == Inv /\ IncludeDsc => Inv'
  <1> SUFFICES ASSUME Inv, IncludeDsc PROVE Inv'
    OBVIOUS
  <1>1. CASE /\ Goes("dsc", "export") /\ Ready(Target) /\ ~Refused(Target, {"src"})
             /\ repo' = Included(Target, {"src"})
    BY <1>1, DscSucceeds
  <1>2. CASE /\ Fails("dsc", IF Refused(Target, {"src"}) /\ Ready(Target) THEN {} ELSE {"fault"})
             /\ UNCHANGED repo
    <2> DEFINE events == IF Refused(Target, {"src"}) /\ Ready(Target) THEN {} ELSE {"fault"}
    <2>1. TypeOK /\ "dsc" \in Phase /\ events \in SUBSET Events
      BY DEF Inv, Phase, Events
    <2>2. /\ task \in Task /\ task.phase = "dsc" /\ task' \in Task
          /\ task'.phase = "failed" /\ task'.met = task.met \cup events /\ Same
      BY <1>2, <2>1, FailsWith
    <2>3. TypeOK' /\ UNCHANGED <<repo, disturbed, released>>
      BY <1>2, <2>1, <2>2, TypeQuiet DEF IncludeDsc, TypeOK, repoVars
    <2>4. task'.met # {} \/ ~(task'.forced \/ task'.experimental)
      <3>1. SUFFICES ASSUME task.met = {}, task.forced \/ task.experimental,
                            Refused(Target, {"src"})
                     PROVE  FALSE
        BY <2>2 DEF Same
      <3>2. repo[Target]["src"] = Absent
        BY <2>2, <3>1 DEF Inv, Room
      <3> QED
        BY <3>1, <3>2 DEF Refused, Clash, Fresh
    <2> QED
      BY <2>2, <2>3, <2>4, Calm DEF Branch
  <1> QED
    BY <1>1, <1>2 DEF IncludeDsc

LEMMA ExportRepoStep == Inv /\ ExportRepo => Inv'
  <1> SUFFICES ASSUME Inv, ExportRepo PROVE Inv'
    OBVIOUS
  <1>1. /\ TypeOK /\ "export" \in Phase /\ "success" \in Phase /\ {"fault"} \in SUBSET Events
        /\ UNCHANGED repoVars /\ UNCHANGED started
    BY DEF Inv, Phase, Events, ExportRepo
  <1>2. CASE Fails("export", {"fault"}) /\ UNCHANGED released
    <2>1. task' \in Task /\ task'.phase = "failed" /\ task'.met # {}
      BY <1>1, <1>2, FailsWith
    <2>2. TypeOK'
      BY <1>1, <1>2, <2>1, TypeQuiet DEF TypeOK
    <2> QED
      BY <1>1, <1>2, <2>1, <2>2, Calm DEF Branch, repoVars
  <1>3. CASE /\ Goes("export", "success")
             /\ released' = IF task.experimental \/ "flush" \in task.met THEN released
                            ELSE released \cup {[version |-> task.version, build |-> task.build]}
    <2>1. /\ task \in Task /\ task.phase = "export" /\ task' \in Task
          /\ task'.phase = "success" /\ task'.met = task.met /\ Same /\ Target' = Target
      BY <1>1, <1>3, GoesTo DEF Same, Target
    <2>2. UNCHANGED <<named, repo, disturbed, conf, init>>
      BY <1>1 DEF repoVars
    <2>3. ASSUME NEW r \in released', r \notin released
          PROVE  /\ Target = "dev" /\ ~task.experimental /\ "flush" \notin task.met
                 /\ r.version = task.version /\ r.build = task.build
      BY <1>3, <2>3 DEF Target
    <2>4. TypeOK'
      BY <1>1, <1>3, <2>1, <2>2 DEF TypeOK, Task
    <2>5. ReleasedStays'
      <3>1. ASSUME NEW r \in released', NEW k \in Kinds
            PROVE  Holds(repo["dev"][k], r)
        <4>1. CASE r \in released
          BY <4>1 DEF Inv, ReleasedStays
        <4>2. CASE r \notin released
          <5>1. Holds(repo["dev"][k], task)
            BY <2>1, <2>3, <4>2 DEF Inv, Injected
          <5> QED
            BY <2>3, <4>2, <5>1 DEF Holds
        <4> QED
          BY <4>1, <4>2
      <3> QED
        BY <2>2, <3>1 DEF ReleasedStays, Holds
    <2>6. OneBuildPerVersion'
      <3>1. ASSUME NEW r \in released', NEW s \in released', r.version = s.version
            PROVE  r.build = s.build
        <4>1. CASE r \in released /\ s \in released
          BY <3>1, <4>1 DEF Inv, OneBuildPerVersion
        <4>2. CASE r \notin released /\ s \in released
          BY <2>1, <2>3, <3>1, <4>2 DEF Inv, FirstOfVersion
        <4>3. CASE r \in released /\ s \notin released
          BY <2>1, <2>3, <3>1, <4>3 DEF Inv, FirstOfVersion
        <4>4. CASE r \notin released /\ s \notin released
          BY <2>3, <4>4
        <4> QED
          BY <4>1, <4>2, <4>3, <4>4
      <3> QED
        BY <3>1 DEF OneBuildPerVersion
    <2>7. Injected'
      BY <2>1, <2>2 DEF Inv, Injected, Holds, Same
    <2>8. Origins' /\ SourceHasBinaries'
      BY <2>2 DEF Inv, Origins, SourceHasBinaries, Holds
    <2>9. Branch' /\ FirstOfVersion' /\ Room' /\ RemovalMakesRoom'
      BY <2>1 DEF Branch, FirstOfVersion, Room, RemovalMakesRoom
    <2> QED
      BY <2>4, <2>5, <2>6, <2>7, <2>8, <2>9 DEF Inv
  <1> QED
    BY <1>2, <1>3 DEF ExportRepo

-----------------------------------------------------------------------------
(* The administrator's commands.                                            *)

\* A flushed distribution is empty, and a task that it met claims nothing any more.
LEMMA PrepareStep ==
  ASSUME Inv, NEW d \in Dists, PrepareTemplate(d)
  PROVE  Inv'
  <1>1. TypeOK /\ "flush" \in Events
    BY DEF Inv, Events
  <1>2. \/ task = NoTask /\ task' = NoTask
        \/ /\ task \in Task /\ task' \in Task /\ task'.phase = task.phase
           /\ task'.met = task.met \cup {"flush"} /\ Same
    BY <1>1, MeetsEvent DEF PrepareTemplate
  <1>3. \A e \in Dists, k \in Kinds : repo'[e][k] = IF e = d THEN Absent ELSE repo[e][k]
    BY <1>1 DEF PrepareTemplate, TypeOK, Empty
  <1>4. TypeOK'
    <2>1. repo' \in Contents
      BY <1>1 DEF PrepareTemplate, TypeOK, Contents, Empty
    <2>2. conf' \in [Dists -> Files] /\ init' \in Dists \cup {"no"}
      BY <1>1 DEF PrepareTemplate, TypeOK, Files
    <2>3. disturbed' \subseteq Dists /\ started' = started /\ named' = named
      BY <1>1 DEF PrepareTemplate, TypeOK
    <2>4. released' \subseteq [version : Versions, build : Build]
      BY <1>1 DEF PrepareTemplate, TypeOK
    <2> QED
      BY <1>1, <1>2, <2>1, <2>2, <2>3, <2>4 DEF TypeOK, Contents
  <1>5. released' = {} \/ (d # "dev" /\ released' = released)
    BY DEF PrepareTemplate
  <1>6. Branch'
    BY <1>2, <1>5 DEF Inv, Branch, Same, NoTask
  <1>7. Origins'
    BY <1>3 DEF Inv, Origins
  <1>8. Injected' /\ FirstOfVersion'
    <2>1. CASE task' = NoTask
      BY <2>1 DEF Injected, FirstOfVersion, NoTask
    <2>2. CASE task' # NoTask
      <3>1. /\ task \in Task /\ task'.phase = task.phase /\ "flush" \in task'.met
            /\ task'.met = task.met \cup {"flush"} /\ Same /\ Target' = Target
        BY <1>2, <2>2 DEF Target, Same
      <3>2. disturbed' = disturbed \cup {d}
        <4>1. task # NoTask
          BY <3>1 DEF Task, Phase, NoTask
        <4> QED
          BY <4>1 DEF PrepareTemplate
      <3>3. ASSUME task.phase = "dsc", Target \notin disturbed', NEW k \in Binaries
            PROVE  Holds(repo[Target][k], task)'
        <4>1. Target # d /\ Holds(repo[Target][k], task)
          BY <3>2, <3>3 DEF Inv, Injected
        <4>2. repo'[Target][k] = repo[Target][k]
          BY <1>3, <4>1, KindsAre, TargetIs
        <4> QED
          BY <3>1, <4>1, <4>2 DEF Holds, Same
      <3> QED
        BY <3>1, <3>3 DEF Injected, FirstOfVersion
    <2> QED
      BY <2>1, <2>2
  <1>9. SourceHasBinaries'
    <2>1. ASSUME NEW e \in Dists \ disturbed', NEW k \in Binaries, repo'[e]["src"] # Absent
          PROVE  Holds(repo[e][k], repo[e]["src"])'
      <3>1. e # d
        BY <1>3, <2>1, KindsAre
      <3>2. e \notin disturbed
        BY <2>1, <3>1 DEF PrepareTemplate
      <3>3. repo'[e][k] = repo[e][k] /\ repo'[e]["src"] = repo[e]["src"]
        BY <1>3, <3>1, KindsAre
      <3> QED
        BY <2>1, <3>2, <3>3 DEF Inv, SourceHasBinaries, Holds
    <2> QED
      BY <2>1 DEF SourceHasBinaries
  <1>10. ReleasedStays' /\ OneBuildPerVersion'
    BY <1>3, <1>5, TargetIs DEF Inv, ReleasedStays, OneBuildPerVersion, Holds
  <1>11. Room' /\ RemovalMakesRoom'
    BY <1>2 DEF Room, RemovalMakesRoom, NoTask
  <1> QED
    BY <1>4, <1>6, <1>7, <1>8, <1>9, <1>10, <1>11 DEF Inv

LEMMA InitRepoStep ==
  ASSUME Inv, StartInit \/ \E d \in Dists : PopulateConf(d) \/ ExportInit(d)
  PROVE  Inv'
  <1>1. CASE StartInit
    BY <1>1, PrepareStep, TargetIs DEF StartInit
  <1>2. ASSUME NEW d \in Dists, PopulateConf(d)
        PROVE  Inv'
    <2>1. UNCHANGED <<named, repo, disturbed, released, task>>
      BY <1>2 DEF PopulateConf
    <2>2. TypeOK'
      <3>1. conf' \in [Dists -> Files]
        BY <1>2 DEF PopulateConf, Inv, TypeOK, Files
      <3>2. init' \in Dists \cup {"no"} /\ started' = started
        BY <1>2 DEF PopulateConf, Inv, TypeOK
      <3> QED
        BY <2>1, <3>1, <3>2 DEF Inv, TypeOK
    <2> QED
      BY <2>1, <2>2, Still
  <1>3. ASSUME NEW d \in Dists, ExportInit(d)
        PROVE  Inv'
    <2>1. CASE PrepareTemplate("experimental")
      BY <2>1, PrepareStep DEF Dists
    <2>2. CASE init' = "no" /\ UNCHANGED <<named, repo, conf, disturbed, task, started, released>>
      <3>1. TypeOK'
        BY <2>2 DEF Inv, TypeOK
      <3> QED
        BY <2>2, <3>1, Still
    <2> QED
      BY <1>3, <2>1, <2>2 DEF ExportInit
  <1> QED
    BY <1>1, <1>2, <1>3

\* A sync only raises versions, to one that is no submission's.
LEMMA UpdateRepoStep == Inv /\ UpdateRepo => Inv'
  <1> SUFFICES ASSUME Inv, UpdateRepo PROVE Inv'
    OBVIOUS
  <1>1. TypeOK /\ "sync" \in Events /\ UNCHANGED <<named, conf, init, disturbed, started, released>>
    BY DEF Inv, Events, UpdateRepo
  <1>2. PICK u \in UpstreamVersions :
          repo' = [repo EXCEPT !["dev"] = [k \in Kinds |->
            IF @[k] = Absent \/ @[k].version < u
            THEN [version |-> u, build |-> Upstream] ELSE @[k]]]
    BY DEF UpdateRepo
  <1> DEFINE Brought == [version |-> u, build |-> Upstream]
  <1>3. u \in Nat /\ u \notin Versions /\ Brought \in Entry /\ Brought # Absent
    BY RepoAssumption, EntryIs DEF Entry
  <1>4. \A e \in Dists, k \in Kinds :
          repo'[e][k] = IF e = "dev" /\ (repo[e][k] = Absent \/ repo[e][k].version < u)
                        THEN Brought ELSE repo[e][k]
    BY <1>1, <1>2, TargetIs DEF TypeOK
  <1>5. \/ task = NoTask /\ task' = NoTask
        \/ /\ task \in Task /\ task' \in Task /\ task'.phase = task.phase
           /\ task'.met = task.met \cup {"sync"} /\ Same
    BY <1>1, MeetsEvent DEF UpdateRepo
  <1>6. TypeOK'
    <2>1. repo' \in Contents
      BY <1>1, <1>2, <1>3, TargetIs DEF TypeOK, Contents
    <2> QED
      BY <1>1, <1>5, <2>1, TypeByParts DEF TypeOK
  <1>7. Branch'
    BY <1>1, <1>5 DEF Inv, Branch, Same, NoTask
  <1>8. Origins'
    BY <1>4 DEF Inv, Origins
  \* What an entry held of a submission, it still holds.
  <1>9. ASSUME NEW e \in Dists, NEW k \in Kinds, NEW r, r.version \in Versions,
               Holds(repo[e][k], r)
        PROVE  Holds(repo'[e][k], r)
    <2>1. r.version \in Nat /\ repo[e][k] # Absent /\ repo[e][k].version \in Nat
      BY <1>1, <1>9, EntryAt, RepoAssumption DEF Holds
    <2>2. CASE repo'[e][k] = repo[e][k]
      BY <1>9, <2>2
    <2>3. CASE repo'[e][k] = Brought /\ repo[e][k].version < u
      BY <1>3, <1>9, <2>1, <2>3 DEF Holds
    <2> QED
      BY <1>4, <2>1, <2>2, <2>3
  <1>10. Injected' /\ FirstOfVersion'
    <2>1. CASE task' = NoTask
      BY <2>1 DEF Injected, FirstOfVersion, NoTask
    <2>2. CASE task' # NoTask
      <3>1. /\ task \in Task /\ task'.phase = task.phase
            /\ task'.met = task.met \cup {"sync"} /\ Same /\ Target' = Target
        BY <1>5, <2>2 DEF Target, Same
      <3>2. ASSUME NEW k \in Kinds, Holds(repo[Target][k], task)
            PROVE  Holds(repo[Target][k], task)'
        <4>1. Holds(repo'[Target][k], task)
          BY <1>9, <3>1, <3>2, TargetIs, TaskVersion
        <4> QED
          BY <3>1, <4>1 DEF Holds, Same
      <3>3. Injected'
        BY <1>1, <3>1, <3>2, KindsAre DEF Inv, Injected
      <3>4. FirstOfVersion'
        BY <1>1, <3>1 DEF Inv, FirstOfVersion, Same
      <3> QED
        BY <3>3, <3>4
    <2> QED
      BY <2>1, <2>2
  <1>11. SourceHasBinaries'
    <2>1. ASSUME NEW e \in Dists \ disturbed', NEW k \in Binaries, repo'[e]["src"] # Absent
          PROVE  Holds(repo[e][k], repo[e]["src"])'
      <3>1. k \in Kinds /\ "src" \in Kinds /\ e \in Dists \ disturbed
        BY <1>1, KindsAre
      <3>2. CASE repo'[e]["src"] = repo[e]["src"]
        <4>1. Holds(repo[e][k], repo[e]["src"]) /\ repo[e]["src"] # Absent
          BY <2>1, <3>1, <3>2 DEF Inv, SourceHasBinaries
        <4>2. repo[e][k] # Absent /\ repo[e][k].version \in Nat /\ repo[e]["src"].version \in Nat
          BY <1>1, <3>1, <4>1, EntryAt DEF Holds
        <4>3. CASE repo'[e][k] = repo[e][k]
          BY <3>2, <4>1, <4>3 DEF Holds
        <4>4. CASE repo'[e][k] = Brought /\ repo[e][k].version < u
          BY <1>3, <3>2, <4>1, <4>2, <4>4 DEF Holds
        <4> QED
          BY <1>4, <3>1, <4>2, <4>3, <4>4
      <3>3. CASE repo'[e]["src"] = Brought /\ e = "dev"
        <4>1. CASE repo'[e][k] = Brought
          BY <1>3, <3>3, <4>1 DEF Holds
        <4>2. CASE repo'[e][k] = repo[e][k] /\ repo[e][k] # Absent /\ ~(repo[e][k].version < u)
          <5>1. repo[e][k].version \in Nat
            BY <1>1, <3>1, <4>2, EntryAt
          <5>2. repo[e][k].version = u => repo[e][k].build = Upstream
            BY <3>1, <4>2 DEF Inv, Origins
          <5> QED
            BY <1>3, <3>3, <4>2, <5>1, <5>2 DEF Holds
        <4> QED
          BY <1>4, <3>1, <3>3, <4>1, <4>2
      <3> QED
        BY <1>4, <3>1, <3>2, <3>3
    <2> QED
      BY <2>1 DEF SourceHasBinaries
  <1>12. ReleasedStays' /\ OneBuildPerVersion'
    <2>1. \A r \in released, k \in Kinds : Holds(repo'["dev"][k], r)
      BY <1>1, <1>9, TargetIs DEF Inv, ReleasedStays, TypeOK
    <2> QED
      BY <1>1, <2>1 DEF Inv, ReleasedStays, OneBuildPerVersion, Holds
  <1>13. Room' /\ RemovalMakesRoom'
    BY <1>5 DEF Room, RemovalMakesRoom, NoTask
  <1> QED
    BY <1>6, <1>7, <1>8, <1>10, <1>11, <1>12, <1>13 DEF Inv

-----------------------------------------------------------------------------
LEMMA InvInit == Init => Inv
  <1> SUFFICES ASSUME Init PROVE Inv
    OBVIOUS
  <1>1. /\ task.phase = "none" /\ released = {}
        /\ \A d \in Dists, k \in Kinds : repo[d][k] = Absent
    BY DEF Init, NoTask, Empty
  <1>2. Branch /\ Origins /\ Injected /\ FirstOfVersion /\ SourceHasBinaries
    BY <1>1, KindsAre DEF Branch, Origins, Injected, FirstOfVersion, SourceHasBinaries
  <1>3. ReleasedStays /\ OneBuildPerVersion /\ Room /\ RemovalMakesRoom
    BY <1>1 DEF ReleasedStays, OneBuildPerVersion, Room, RemovalMakesRoom
  <1> QED
    BY <1>2, <1>3, TypeInit DEF Inv

LEMMA InvStep == Inv /\ [Next]_vars => Inv'
  <1> SUFFICES ASSUME Inv, [Next]_vars PROVE Inv'
    OBVIOUS
  <1>1. CASE UNCHANGED vars
    <2>1. TypeOK' /\ UNCHANGED <<named, repo, disturbed, released, task>>
      BY <1>1 DEF vars, repoVars, Inv, TypeOK
    <2> QED
      BY <2>1, Still
  <1>2. CASE RepoCommand
    BY <1>2, RemoveExistingStep, RemoveSourceStep, RemoveBinaryStep, IncludeDebsStep,
       IncludeDscStep, ExportRepoStep DEF RepoCommand
  <1>3. CASE UpdateRepo
    BY <1>3, UpdateRepoStep
  <1>4. CASE Next /\ ~RepoCommand /\ ~UpdateRepo
    BY <1>4, TaskStep, FetchStep, InitRepoStep DEF Next
  <1> QED
    BY <1>1, <1>2, <1>3, <1>4

LEMMA InvAlways == Spec => []Inv
  <1> QED
    BY InvInit, InvStep, PTL DEF Spec

\* Every variable keeps its type: the contents of both distributions, their
\* configuration, the task and the running initialisation.
THEOREM TypeCorrect == Spec => []TypeOK
  <1>1. Inv => TypeOK
    BY DEF Inv
  <1> QED
    BY <1>1, InvAlways, PTL

\* A pipeline that reports success has its source and all of its binaries in its
\* distribution, or newer ones, though the removals before may have failed unnoticed.
THEOREM SuccessIsInjected == Spec => []DoneIsInjected
  <1>1. Inv => DoneIsInjected
    BY DEF Inv, Injected, DoneIsInjected
  <1> QED
    BY <1>1, InvAlways, PTL

\* What has succeeded stays or is superseded, whatever later pipelines and syncs do,
\* until a forced pipeline or a flush.
THEOREM ReleasesStay == Spec => []ReleasedStays
  <1>1. Inv => ReleasedStays
    BY DEF Inv
  <1> QED
    BY <1>1, InvAlways, PTL

\* Of the pipelines of one version, retries among them, one succeeds.
THEOREM OneSucceeds == Spec => []OneBuildPerVersion
  <1>1. Inv => OneBuildPerVersion
    BY DEF Inv
  <1> QED
    BY <1>1, InvAlways, PTL

\* A source and a binary of one version are of one build, unless a flush met a task
\* or a forced pipeline ended between its two removals.
THEOREM OneBuildTogether == Spec => []SourceMatches
  <1>1. ASSUME Inv PROVE SourceMatches
    <2>1. ASSUME NEW d \in Dists \ disturbed, NEW k \in Kinds,
                 repo[d]["src"] # Absent, repo[d][k] # Absent,
                 repo[d]["src"].version = repo[d][k].version
          PROVE  repo[d]["src"].build = repo[d][k].build
      <3>1. CASE k = "src"
        BY <3>1
      <3>2. CASE k \in Binaries
        BY <1>1, <2>1, <3>2 DEF Inv, SourceHasBinaries, Holds
      <3> QED
        BY <3>1, <3>2 DEF Kinds
    <2> QED
      BY <2>1 DEF SourceMatches
  <1> QED
    BY <1>1, InvAlways, PTL

\* The removals of a forced or experimental pipeline make room for it, up to what they do
\* not find by the source's name.
THEOREM ForcedIsAccepted == Spec => []RemovalMakesRoom
  <1>1. Inv => RemovalMakesRoom
    BY DEF Inv
  <1> QED
    BY <1>1, InvAlways, PTL
=============================================================================
