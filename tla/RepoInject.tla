----------------------------- MODULE RepoInject -----------------------------
(***************************************************************************)
(* The repo worker: one source package in the development and the           *)
(* experimental distribution, the reprepro commands with which a pipeline    *)
(* replaces it there, and the administrator's init and sync. reprepro is     *)
(* external: one command is one transaction under its lock, except that      *)
(* includedeb takes the files one by one.                                    *)
(***************************************************************************)
EXTENDS Naturals, FiniteSets

CONSTANTS
  Builds,            \* bound: how many pipelines reach the worker
  Versions,          \* of submissions, in dpkg's order
  UpstreamVersions,  \* of what upstream publishes
  Stripped,          \* packageVersion plus packageExtendedVersion, without the epoch
  Binaries,          \* names of the binary packages in an artifact
  Upstream,          \* who built what the sync brings
  Absent             \* no package; no submission's version

\* Upstream does not publish the versions that maintainers submit.
ASSUME RepoAssumption ==
  /\ Builds \in Nat /\ Upstream \notin 1 .. Builds
  /\ Versions \subseteq Nat /\ UpstreamVersions \subseteq Nat
  /\ Versions \cap UpstreamVersions = {}
  /\ Stripped \in [Versions -> Versions \cup {Absent}] /\ Absent \notin Versions
  /\ "src" \notin Binaries
  /\ Absent \notin [version : Nat, build : (1 .. Builds) \cup {Upstream}]

VARIABLES
  named,       \* what bears the source's name: the source, and a binary if it likes
  repo,        \* per distribution: the entry of the source and of each binary
  conf,        \* per distribution: how many of InitRepo's files are in place
  task,        \* the task function at work: the command it is at, its payload
  started,     \* how many pipelines have reached the worker
  init,        \* the distribution a running InitRepo is at, or "no"
  released,    \* history: what succeeded in dev since a forced pipeline or a flush
  disturbed    \* history: the distributions flushed under a task, or left by the first of
               \* two removals, and since then not cleared by a removal or a flush

repoVars == <<named, repo, conf, init, disturbed>>
vars == <<repoVars, task, started, released>>

Dists  == {"dev", "experimental"}
Kinds  == Binaries \cup {"src"}
Build  == 1 .. Builds
Entry  == [version : Versions \cup UpstreamVersions, build : Build \cup {Upstream}]
\* The packaging need not name a binary like its source.
Namings == {{"src", k} : k \in Kinds}
Empty  == [k \in Kinds |-> Absent]

Phase  == {"download", "remove", "removesrc", "removebin", "debs", "dsc", "export",
           "success", "failed"}
Events == {"fault", "flush", "sync"}
Task   == [phase : Phase, build : Build, version : Versions, experimental : BOOLEAN,
           forced : BOOLEAN, met : SUBSET Events]
NoTask == [phase |-> "none"]

\* template, updates, distributions, options: reprepro works with the third in place.
Files    == 0 .. 4
Ready(d) == conf[d] >= 3

Target == IF task.experimental THEN "experimental" ELSE "dev"

TypeOK ==
  /\ named \in Namings
  /\ repo \in [Dists -> [Kinds -> Entry \cup {Absent}]]
  /\ conf \in [Dists -> Files]
  /\ task \in Task \cup {NoTask}
  /\ started \in 0 .. Builds
  /\ init \in Dists \cup {"no"}
  /\ released \subseteq [version : Versions, build : Build]
  /\ disturbed \subseteq Dists

Init ==
  /\ named \in Namings
  /\ repo = [d \in Dists |-> Empty]
  /\ conf = [d \in Dists |-> 4]
  /\ task = NoTask
  /\ started = 0
  /\ init = "no"
  /\ released = {}
  /\ disturbed = {}

-----------------------------------------------------------------------------
(* Repo, command by command.                                                *)

\* A retry arrives here as a new build of its version, not forced: the row it is
\* made from has no such column.
StartRepo(v, experimental, forced) ==
  /\ task = NoTask /\ started < Builds
  /\ started' = started + 1
  /\ task' = [phase |-> "download", build |-> started + 1, version |-> v,
              experimental |-> experimental, forced |-> forced, met |-> {}]
  /\ UNCHANGED <<repoVars, released>>

Goes(from, to) == task.phase = from /\ task' = [task EXCEPT !.phase = to]
Fails(from, events) ==
  task.phase = from /\ task' = [task EXCEPT !.phase = "failed", !.met = @ \cup events]
Ignores(from, to) ==
  task.phase = from /\ task' = [task EXCEPT !.phase = to, !.met = @ \cup {"fault"}]

FirstCommand ==
  IF task.experimental THEN "remove" ELSE IF task.forced THEN "removesrc" ELSE "debs"

FetchArtifact ==
  /\ Goes("download", FirstCommand) \/ Fails("download", {"fault"})
  /\ UNCHANGED <<repoVars, started, released>>

\* What reprepro remove finds by the source's name is named, if it is there; that it
\* finds nothing is an error, which is ignored.
Removed(d, kinds) ==
  [repo EXCEPT ![d] = [k \in Kinds |-> IF k \in kinds THEN Absent ELSE @[k]]]

\* reprepro removesrc: what was built from that version of the source.
FromSource(d, v) == {k \in Kinds : repo[d][k] # Absent /\ repo[d][k].version = v}

\* Mutant: in DistCodename, without the suffix.
RemoveFromDev ==
  /\ \/ Goes("remove", "debs") /\ Ready("dev") /\ repo' = Removed("dev", named)
     \/ Ignores("remove", "debs") /\ UNCHANGED repo
  /\ UNCHANGED <<named, conf, init, disturbed, started, released>>

\* Mutant: a success without the removal.
RemoveNothing ==
  /\ Goes("remove", "debs") /\ UNCHANGED <<repoVars, started, released>>

RemoveExisting ==
  /\ \/ /\ Goes("remove", "debs") /\ Ready(Target)
        /\ repo' = Removed(Target, named) /\ disturbed' = disturbed \ {Target}
     \/ Ignores("remove", "debs") /\ UNCHANGED <<repo, disturbed>>
  /\ UNCHANGED <<named, conf, init, started, released>>

RemoveSource ==
  /\ \/ /\ Goes("removesrc", "removebin") /\ Ready("dev")
        /\ repo' = Removed("dev", FromSource("dev", Stripped[task.version]))
        /\ disturbed' = disturbed \cup {"dev"}
     \/ Ignores("removesrc", "removebin") /\ UNCHANGED <<repo, disturbed>>
  /\ released' = {}
  /\ UNCHANGED <<named, conf, init, started>>

RemoveBinary ==
  /\ \/ /\ Goes("removebin", "debs") /\ Ready("dev")
        /\ repo' = Removed("dev", named) /\ disturbed' = disturbed \ {"dev"}
     \/ Ignores("removebin", "debs") /\ UNCHANGED <<repo, disturbed>>
  /\ UNCHANGED <<named, conf, init, started, released>>

Fresh(d, kinds) ==
  {k \in kinds : repo[d][k] = Absent \/ repo[d][k].version < task.version}
\* The pool holds another file of that name and version.
Clash(d, kinds) ==
  \E k \in kinds : repo[d][k] # Absent /\ repo[d][k].version = task.version
                                     /\ repo[d][k].build # task.build
Included(d, kinds) ==
  [repo EXCEPT ![d] = [k \in Kinds |->
     IF k \in kinds THEN [version |-> task.version, build |-> task.build] ELSE @[k]]]

\* Mutant: another build's file is skipped like an older one.
OnlyStale(d, kinds) == Fresh(d, kinds) = {}

\* Mutant: without --nothingiserror.
OnlyClashes(d, kinds) == Clash(d, kinds)

\* With --nothingiserror a command that adds nothing fails, too.
Refused(d, kinds) == Clash(d, kinds) \/ Fresh(d, kinds) = {}

\* Mutant: the error of includedeb is ignored.
IncludeDebsAnyway ==
  /\ \/ /\ Goes("debs", "dsc") /\ Ready(Target) /\ ~Refused(Target, Binaries)
        /\ repo' = Included(Target, Fresh(Target, Binaries))
     \/ /\ Goes("debs", "dsc")
        /\ \E taken \in IF Ready(Target) THEN SUBSET Fresh(Target, Binaries) ELSE {{}} :
             repo' = Included(Target, taken)
  /\ UNCHANGED <<named, conf, init, disturbed, started, released>>

\* A failing includedeb has taken some of the files.
IncludeDebs ==
  /\ \/ /\ Goes("debs", "dsc") /\ Ready(Target) /\ ~Refused(Target, Binaries)
        /\ repo' = Included(Target, Fresh(Target, Binaries))
     \/ /\ Fails("debs", IF Refused(Target, Binaries) /\ Ready(Target) THEN {} ELSE {"fault"})
        /\ \E taken \in IF Ready(Target) THEN SUBSET Fresh(Target, Binaries) ELSE {{}} :
             repo' = Included(Target, taken)
  /\ UNCHANGED <<named, conf, init, disturbed, started, released>>

IncludeDsc ==
  /\ \/ /\ Goes("dsc", "export") /\ Ready(Target) /\ ~Refused(Target, {"src"})
        /\ repo' = Included(Target, {"src"})
     \/ /\ Fails("dsc", IF Refused(Target, {"src"}) /\ Ready(Target) THEN {} ELSE {"fault"})
        /\ UNCHANGED repo
  /\ UNCHANGED <<named, conf, init, disturbed, started, released>>

\* Of DistCodename, whichever distribution was changed.
ExportRepo ==
  /\ \/ /\ Goes("export", "success") /\ Ready("dev")
        /\ released' = IF task.experimental \/ "flush" \in task.met THEN released
                       ELSE released \cup {[version |-> task.version, build |-> task.build]}
     \/ Fails("export", {"fault"}) /\ UNCHANGED released
  /\ UNCHANGED <<repoVars, started>>

\* The deferred notification and the return.
ReturnTask ==
  /\ task.phase \in {"success", "failed"}
  /\ task' = NoTask
  /\ UNCHANGED <<repoVars, started, released>>

\* The worker's process ends: the task is not delivered again.
WorkerDies ==
  /\ task # NoTask
  /\ task' = NoTask
  /\ UNCHANGED <<repoVars, started, released>>

-----------------------------------------------------------------------------
(* InitRepo and UpdateRepo, run by an administrator at any moment.          *)

Meets(event) ==
  task' = IF task = NoTask THEN NoTask ELSE [task EXCEPT !.met = @ \cup {event}]

\* rm -rf and cp of the template; the copy may fail.
PrepareTemplate(d) ==
  /\ repo' = [repo EXCEPT ![d] = Empty]
  /\ \/ conf' = [conf EXCEPT ![d] = 1] /\ init' = d
     \/ conf' = [conf EXCEPT ![d] = 0] /\ init' = "no"
  /\ Meets("flush")
  /\ released' = IF d = "dev" THEN {} ELSE released
  /\ disturbed' = IF task = NoTask THEN disturbed \ {d} ELSE disturbed \cup {d}
  /\ UNCHANGED <<named, started>>

StartInit == init = "no" /\ PrepareTemplate("dev")

\* Mutant: a file too many.
PopulateMore(d) ==
  /\ init = d
  /\ conf' = [conf EXCEPT ![d] = @ + 1]
  /\ UNCHANGED <<named, repo, disturbed, init, task, started, released>>

\* updates, distributions, options, one sed pipeline each; an error ends the command.
PopulateConf(d) ==
  /\ init = d /\ conf[d] < 4
  /\ \/ conf' = [conf EXCEPT ![d] = @ + 1] /\ UNCHANGED init
     \/ init' = "no" /\ UNCHANGED conf
  /\ UNCHANGED <<named, repo, disturbed, task, started, released>>

\* The export, then the experimental distribution's turn, or the end.
ExportInit(d) ==
  /\ init = d /\ conf[d] = 4
  /\ \/ d = "dev" /\ PrepareTemplate("experimental")
     \/ init' = "no" /\ UNCHANGED <<named, repo, conf, disturbed, task, started, released>>

\* reprepro update: upstream has the package and all of its binaries, and what is newer
\* or missing is taken. The export changes nothing here.
UpdateRepo ==
  /\ Ready("dev")
  /\ \E u \in UpstreamVersions :
       repo' = [repo EXCEPT !["dev"] = [k \in Kinds |->
         IF @[k] = Absent \/ @[k].version < u
         THEN [version |-> u, build |-> Upstream] ELSE @[k]]]
  /\ Meets("sync")
  /\ UNCHANGED <<named, conf, init, disturbed, started, released>>

RepoCommand ==
  \/ RemoveExisting \/ RemoveSource \/ RemoveBinary
  \/ IncludeDebs \/ IncludeDsc \/ ExportRepo

Next ==
  \/ \E v \in Versions, experimental, forced \in BOOLEAN : StartRepo(v, experimental, forced)
  \/ FetchArtifact \/ RepoCommand \/ ReturnTask \/ WorkerDies
  \/ StartInit
  \/ \E d \in Dists : PopulateConf(d) \/ ExportInit(d)
  \/ UpdateRepo

Spec == Init /\ [][Next]_vars

-----------------------------------------------------------------------------
\* An entry is the given build of the given version, or of a newer version.
Holds(entry, r) ==
  /\ entry # Absent /\ entry.version >= r.version
  /\ entry.version = r.version => entry.build = r.build

\* A pipeline that reports success left its source and every one of its binaries
\* in its distribution, or newer ones, although the commands before the injection
\* may have failed unnoticed: unless the distribution was flushed meanwhile.
DoneIsInjected ==
  task.phase = "success" /\ "flush" \notin task.met =>
    \A k \in Kinds : Holds(repo[Target][k], task)

\* What succeeded in the development distribution stays there or is superseded, whatever
\* later pipelines, also failing and experimental ones, and the sync do, up to the
\* next forced pipeline or flush.
ReleasedStays ==
  \A r \in released, k \in Kinds : Holds(repo["dev"][k], r)

\* Of the pipelines of a version, a retry and the pipeline it retries among them,
\* only one succeeds in the development distribution.
OneBuildPerVersion ==
  \A r, s \in released : r.version = s.version => r.build = s.build

\* A source and a binary of one version are of one build, though the .deb files are
\* injected before the source, without a rollback, and removed by other names. A
\* distribution flushed between the two is left with a source alone, and one whose
\* forced pipeline ends between its two removals with a source that has lost its
\* binaries to those of a later version.
SourceMatches ==
  \A d \in Dists \ disturbed, k \in Kinds :
    LET src == repo[d]["src"]  bin == repo[d][k] IN
    src # Absent /\ bin # Absent /\ src.version = bin.version => src.build = bin.build

\* A forced or experimental pipeline whose commands all run, while nothing else changes
\* the repository, is refused for what the removals by the source's name do not find: a
\* binary of another name that has its version, which a forced pipeline leaves only when
\* its version has an epoch; or, when no binary bears the source's name, binaries that
\* all are there in a version as high.
RemovalMakesRoom ==
  task.phase = "failed" /\ task.met = {} /\ (task.forced \/ task.experimental) =>
    LET clash == Clash(Target, Binaries \ named) IN
    /\ clash \/ (named = {"src"} /\ Fresh(Target, Binaries) = {})
    /\ clash => task.experimental \/ Stripped[task.version] # task.version
=============================================================================
