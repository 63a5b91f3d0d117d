---------------------------- MODULE ActionContract ----------------------------
(***************************************************************************)
(* What the server promises about response actions, without its tables,    *)
(* clock, policy or requests: each action walks one lifecycle, the only    *)
(* way to execution is pending, approved, dispatching, and a target (an    *)
(* incident, a host and a type) has at most one live action.               *)
(***************************************************************************)
CONSTANTS ActionId, Target

VARIABLES
    stage,      \* where each action is, "none" before it is requested
    target      \* the target of each requested action, {} before

contractVars == <<stage, target>>

\* The statuses that may directly follow each one.
Successors(s) ==
    CASE s = "none"        -> {"pending"}
      [] s = "pending"     -> {"approved", "rejected", "cancelled", "expired"}
      [] s = "approved"    -> {"dispatching", "cancelled", "expired"}
      [] s = "dispatching" -> {"executing", "cancelled", "expired"}
      [] s = "executing"   -> {"succeeded", "failed"}
      [] OTHER             -> {}

Live == {"pending", "approved", "dispatching", "executing"}

Exclusive == \A a, b \in ActionId :
    stage[a] \in Live /\ stage[b] \in Live /\ target[a] = target[b] => a = b

Init ==
    /\ stage = [a \in ActionId |-> "none"]
    /\ target = [a \in ActionId |-> {}]

\* Any set of actions advances by one edge; a target is given once.
Advance ==
    /\ stage' \in [ActionId -> {"none", "rejected", "cancelled", "expired",
                                "succeeded", "failed"} \cup Live]
    /\ \A a \in ActionId : stage'[a] \in {stage[a]} \cup Successors(stage[a])
    /\ target' \in [ActionId -> {{}} \cup {{t} : t \in Target}]
    /\ \A a \in ActionId : IF stage[a] = "none" /\ stage'[a] # "none"
                           THEN target'[a] # {}
                           ELSE target'[a] = target[a]
    /\ Exclusive'

Spec == Init /\ [][Advance]_contractVars
=============================================================================
