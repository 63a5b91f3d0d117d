------------------------------- MODULE MCIngestion -------------------------------
(* An instance of Ingestion and Guidance for TLC. *)
EXTENDS Guidance, TLC

CONSTANTS d1, d2, d3, d4, h1, h2

Event(h, t, traits) ==
    [host |-> h, at |-> t, traits |-> traits, severity |-> 1, quietward |-> TRUE]

\* Events of a host of which the second is linked to the others, the first dated
\* ahead of the clock and too far from the last, which is like it; and an event
\* that is like them but for its host and sender.
Early == Event(h1, 0, {<<"category", 1>>})
Same == Event(h1, 0, {<<"file", 1>>})
Middle == Event(h1, 1, {<<"file", 1>>, <<"category", 1>>})
Ahead == Event(h1, 2, {<<"file", 1>>})
Foreign == [Event(h2, 1, {<<"file", 1>>}) EXCEPT !.quietward = FALSE]

Various == {Early, Same, Middle, Ahead, Foreign}

Says(priority, playbook, hints, acts) ==
    {[valid |-> TRUE, observes |-> TRUE, acts |-> acts, priority |-> priority,
      strength |-> 1, playbook |-> playbook, hints |-> hints]}

Shows(c, category, markers, context) ==
    [quietward |-> c.quietward, at |-> c.at, category |-> category,
     markers |-> markers, context |-> context]

\* Two assessments, the earlier one with a hint and the later one more urgent; one
\* that claims authority; the demo service; and a sensor whose word is not guidance.
Telling == [c \in Various |->
    CASE c = Early   -> Shows(c, "other", {}, Says(1, "process_triage", {"process_inventory"}, FALSE))
      [] c = Middle  -> Shows(c, "operational", {}, Says(2, "host_triage", {}, FALSE))
      [] c = Same    -> Shows(c, "other", {}, Says(2, "network_triage", {"network_snapshot"}, TRUE))
      [] c = Ahead   -> Shows(c, "other", {"demo"}, {})
      [] c = Foreign -> Shows(c, "persistence", {"network"}, Says(2, "host_triage", {"evidence_chain_review"}, FALSE))]

EventSymmetry == Permutations(EventId)
=============================================================================
