---------------------------- MODULE AbstractISO ----------------------------
(***************************************************************************)
(* What an ISO pipeline promises to whoever submits it and to the webhook: *)
(* it is built at most once, its outcome is decided before anybody hears   *)
(* of it, what is told and what is stored in the end is that outcome, and  *)
(* one that is lost on the way is never taken up again.                    *)
(***************************************************************************)
CONSTANT ISOs

VARIABLES
  stage,   \* where each pipeline is
  told     \* what the webhook has heard of it

life == <<stage, told>>

Undecided  == {"queued", "building"}
Decided    == {"succeeding", "failing"}
Stage      == Undecided \cup Decided \cup {"new", "done", "failed", "lost"}

\* Pipelines of the past are over.
Init ==
  /\ stage \in [ISOs -> {"new", "done", "failed"}]
  /\ told = [p \in ISOs |-> {}]

Move(p, from, to) ==
  /\ stage[p] \in from
  /\ stage' = [stage EXCEPT ![p] = to]
  /\ UNCHANGED told

Send(p)    == Move(p, {"new"}, "queued")
Start(p)   == Move(p, {"queued"}, "building")
Succeed(p) == Move(p, {"building"}, "succeeding")
Fail(p)    == Move(p, {"building"}, "failing")
Finish(p)  == Move(p, {"succeeding"}, "done") \/ Move(p, {"failing"}, "failed")
Lose(p)    == Move(p, Undecided \cup Decided, "lost")

\* The webhook hears of the outcome, once or again.
Announce(p) ==
  /\ stage[p] \in Decided
  /\ told' = [told EXCEPT ![p] = {IF stage[p] = "succeeding" THEN "SUCCESS" ELSE "FAILED"}]
  /\ UNCHANGED stage

Next ==
  \E p \in ISOs :
    Send(p) \/ Start(p) \/ Succeed(p) \/ Fail(p) \/ Announce(p) \/ Finish(p) \/ Lose(p)

Spec == Init /\ [][Next]_life
=============================================================================
