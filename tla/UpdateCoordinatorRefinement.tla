--------------------- MODULE UpdateCoordinatorRefinement ---------------------
(***************************************************************************)
(* The update coordinator implements ApplyOnce: the phase of a job is read *)
(* off its durable row alone, so the refinement also says that a crash may *)
(* fall anywhere.                                                          *)
(***************************************************************************)
EXTENDS UpdateCoordinator

PhaseOf(j) ==
  CASE jobs[j].op = "none" -> "absent"
    [] Terminal(j) -> "settled"
    [] Active(j) /\ jobs[j].stage \in RuntimeStages -> "dispatched"
    [] Active(j) /\ jobs[j].stage \notin RuntimeStages -> "pending"

Abstract == INSTANCE ApplyOnce WITH
  Job <- Jobs,
  phase <- [j \in Jobs |-> PhaseOf(j)],
  verdict <- [j \in Jobs |-> IF Terminal(j) THEN jobs[j].changed ELSE "no"],
  touched <- {j \in Jobs : executed[j] # <<>>},
  lost <- interrupted

\* Dispatched at most once, never touching the Player before, settled with a
\* verdict that no late reply, lost reply or late execution can belie.
ImplementsApplyOnce == Abstract!Spec
=============================================================================
