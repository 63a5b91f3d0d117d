--------------------------- MODULE MCResponseSystem ---------------------------
(* Instances of ResponseSystem for TLC. *)
EXTENDS ResponseSystem

CONSTANTS g1, g2, h1, i1, i2, triage, terminate, demo, linux, p1

OneHost == [g \in Agent |-> h1]
IncidentsOnOneHost == [i \in Incident |-> h1]
LinuxOnly == [t \in ActionType |-> {linux}]

(***************************************************************************)
(* The behaviours of FairSystemSpec in which analysts only request and     *)
(* approve and every capability is recommended and enabled.  A             *)
(* counterexample among them is one of FairSystemSpec.                     *)
(***************************************************************************)
CalmServer ==
    \/ \E i \in Incident : IngestEvent(i, ActionType, linux)
    \/ \E g \in Agent : EnrollAgent(g) \/ ReportCapabilities(g, ActionType)
    \/ \E a \in ActionId, i \in Incident, g \in Agent, t \in ActionType,
          h \in Handle \cup {NoHandle}, ttl \in TTL : RequestAction(a, i, g, t, h, ttl)
    \/ \E a \in Ids : Approve(a)

CalmNext ==
    \/ CalmServer /\ UNCHANGED endpointVars
    \/ \E g \in Agent : Pass(g) \/ PollUnanswered(g) \/ Crash(g)

CalmSpec ==
    SystemInit /\ [][CalmNext]_systemVars /\ \A g \in Agent : WF_systemVars(Pass(g))
=============================================================================
