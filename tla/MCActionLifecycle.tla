--------------------------- MODULE MCActionLifecycle ---------------------------
(* Instances of ActionLifecycle for TLC. *)
EXTENDS ActionLifecycle, TLC

CONSTANTS a1, a2, g1, g2, h1, i1, i2, triage, terminate, demo, linux, other, p1

OneHost == [g \in Agent |-> h1]
IncidentsOnOneHost == [i \in Incident |-> h1]
LinuxOnly == [t \in ActionType |-> {linux}]

\* Ids are primary keys: the server never looks at their order.
IdSymmetry == Permutations(ActionId)
AgentSymmetry == Permutations(ActionId) \cup Permutations(Agent)
=============================================================================
