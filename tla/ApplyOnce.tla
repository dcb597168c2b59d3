------------------------------ MODULE ApplyOnce ------------------------------
(***************************************************************************)
(* What the update coordinator promises about one job and the Player,      *)
(* without threads, stages, providers or messages: a job is dispatched at  *)
(* most once, it touches the Player only from then on, and it settles once *)
(* with a verdict (its runtimeChanged) that is "no" only when it did not   *)
(* touch the Player.  A Host crash loses that promise for the jobs that    *)
(* were dispatched and not settled, and only for those.                    *)
(***************************************************************************)
CONSTANT Job

VARIABLES
  phase,    \* "absent", "pending", "dispatched" or "settled"
  verdict,  \* runtimeChanged of a settled job
  touched,  \* jobs one of whose requests the Player executed
  lost      \* jobs whose apply a crash interrupted

avars == <<phase, verdict, touched, lost>>

Phases == {"absent", "pending", "dispatched", "settled"}
Verdicts == {"no", "yes", "unknown"}

Init ==
  /\ phase = [j \in Job |-> "absent"]
  /\ verdict = [j \in Job |-> "no"]
  /\ touched = {} /\ lost = {}

Submit(j) ==
  /\ phase[j] = "absent"
  /\ phase' = [phase EXCEPT ![j] = "pending"]
  /\ UNCHANGED <<verdict, touched, lost>>

Dispatch(j) ==
  /\ phase[j] = "pending"
  /\ phase' = [phase EXCEPT ![j] = "dispatched"]
  /\ UNCHANGED <<verdict, touched, lost>>

\* A request may be executed after its job was settled as unknown.
Touch(j) ==
  /\ phase[j] \in {"dispatched", "settled"}
  /\ phase[j] = "settled" => verdict[j] = "unknown" \/ j \in lost
  /\ touched' = touched \cup {j}
  /\ UNCHANGED <<phase, verdict, lost>>

Settle(j, v) ==
  /\ phase[j] \in {"pending", "dispatched"}
  /\ v = "no" => j \notin touched \/ j \in lost
  /\ v = "yes" /\ phase[j] = "dispatched" => j \in touched \/ j \in lost
  /\ phase' = [phase EXCEPT ![j] = "settled"]
  /\ verdict' = [verdict EXCEPT ![j] = v]
  /\ UNCHANGED <<touched, lost>>

Crash ==
  /\ lost' = lost \cup {j \in Job : phase[j] = "dispatched"}
  /\ UNCHANGED <<phase, verdict, touched>>

Next ==
  \/ \E j \in Job : Submit(j) \/ Dispatch(j) \/ Touch(j)
  \/ \E j \in Job, v \in Verdicts : Settle(j, v)
  \/ Crash

Spec == Init /\ [][Next]_avars
=============================================================================
