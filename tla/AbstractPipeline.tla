-------------------------- MODULE AbstractPipeline --------------------------
(***************************************************************************)
(* What a pipeline promises to whoever submits a package: it is built once, *)
(* injected into the repository once and only after its build, and it ends  *)
(* where its first failing task leaves it. A pipeline may be lost on the    *)
(* way (machinery acknowledges nothing), and is then never taken up again.  *)
(***************************************************************************)
CONSTANT Pipelines

VARIABLE stage

Unfinished == {"queued", "building", "built", "injecting"}
Stage == Unfinished \cup {"new", "done", "failed", "lost"}

Init == stage = [p \in Pipelines |-> "new"]

Move(p, from, to) ==
  /\ stage[p] \in from
  /\ stage' = [stage EXCEPT ![p] = to]

Send(p)        == Move(p, {"new"}, "queued")
StartBuild(p)  == Move(p, {"queued"}, "building")
FinishBuild(p) == Move(p, {"building"}, "built")
StartRepo(p)   == Move(p, {"built"}, "injecting")
FinishRepo(p)  == Move(p, {"injecting"}, "done")
Fail(p)        == Move(p, {"building", "injecting"}, "failed")
Lose(p)        == Move(p, Unfinished, "lost")

Next ==
  \E p \in Pipelines :
    \/ Send(p) \/ StartBuild(p) \/ FinishBuild(p) \/ StartRepo(p) \/ FinishRepo(p)
    \/ Fail(p) \/ Lose(p)

Spec == Init /\ [][Next]_stage
=============================================================================
