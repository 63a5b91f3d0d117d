------------------------------- MODULE Guidance -------------------------------
(***************************************************************************)
(* The recommendations of an incident (services/recommendation.py,         *)
(* services/guided_response.py), worked out again from all its events      *)
(* whenever one joins.  What they enable is what response actions may be   *)
(* requested for the incident; QuietWard's own assessment of an event may  *)
(* add to them, if it claims no authority.                                 *)
(*                                                                         *)
(* A recommendation is its registered action type, or the name of a group  *)
(* of titles that always come together and that no agent can execute.      *)
(* Categories and event types are reduced to the classes the rules tell    *)
(* apart.                                                                  *)
(***************************************************************************)
EXTENDS Ingestion

CONSTANTS
    Playbook,       \* _ALLOWED_PLAYBOOKS
    EvidenceOf,     \* what the rules look at in each content
    NoPlaybook      \* there is no guidance

Class == {"process", "persistence", "network", "operational", "other"}
Marker == {"demo", "process", "network", "scheduled_task", "resource"}
Hint == {"host_health", "process_inventory", "network_snapshot",
         "artifact_metadata_review", "identity_activity_review",
         "evidence_chain_review"}

\* The response context of a QuietWard event: valid when it is of version 1.1 and
\* its values are known ones.
Context == [valid : BOOLEAN, observes : BOOLEAN, acts : BOOLEAN,
            priority : 0 .. 2, strength : 0 .. 2, playbook : Playbook,
            hints : SUBSET Hint]
Evidence == [quietward : BOOLEAN, at : Nat, category : Class,
             markers : SUBSET Marker, context : SUBSET Context]

ASSUME GuidanceAssumption ==
    /\ EvidenceOf \in [Content -> Evidence]
    /\ \A c \in Content :
          /\ EvidenceOf[c].quietward = c.quietward
          /\ EvidenceOf[c].at = c.at
    /\ NoPlaybook \notin Playbook

VARIABLE advice     \* the recommendations and probable cause of each incident

guidedVars == <<vars, advice>>

-----------------------------------------------------------------------------
(* Guidance.  Context is a set of at most one context: an event may have none. *)

\* Fault: whatever QuietWard sends is guidance.
AnyContext(e) ==
    IF e.quietward THEN {x \in e.context : x.valid /\ x.observes} ELSE {}

\* Only what says of itself that it observes and has no authority is guidance.
Guiding(e) ==
    IF e.quietward THEN {x \in e.context : x.valid /\ x.observes /\ ~x.acts} ELSE {}

Profiles(E) == UNION {Guiding(e) : e \in E}

Above(x, y) == \/ x.priority > y.priority
               \/ x.priority = y.priority /\ x.strength > y.strength

\* The profile of the highest priority, then strength, then of the earliest event.
Foremost(e, E) ==
    {x \in Guiding(e) : /\ \A y \in Profiles(E) : ~Above(y, x)
                        /\ \A f \in E : (\E y \in Guiding(f) : ~Above(x, y)) => e.at <= f.at}

Playbooks(E) ==
    IF Profiles(E) = {} THEN {NoPlaybook}
    ELSE {x.playbook : x \in UNION {Foremost(e, E) : e \in E}}

\* Fault: the hints are those of the profiles that rank highest.
LeadingHints(E) ==
    UNION {x.hints : x \in {x \in Profiles(E) : \A y \in Profiles(E) : ~Above(y, x)}}

\* The hints of every profile are merged, whichever of them is shown.
Hints(E) == UNION {x.hints : x \in Profiles(E)}

-----------------------------------------------------------------------------
(* Rules *)

Categories(E) == {e.category : e \in E}
Markers(E) == UNION {e.markers : e \in E}

Demo(E) == "demo" \in Markers(E)
ProcessRelevant(E) ==
    \/ "process_inventory" \in Hints(E)
    \/ Categories(E) \cap {"process", "persistence"} # {}
    \/ "process" \in Markers(E)
NetworkRelevant(E) ==
    \/ "network_snapshot" \in Hints(E)
    \/ "network" \in Categories(E)
    \/ "network" \in Markers(E)
Persistent(E) == "persistence" \in Categories(E) \/ "scheduled_task" \in Markers(E)
Operational(E) == "operational" \in Categories(E) \/ "resource" \in Markers(E)

Executable == {"collect_incident_triage_bundle", "collect_host_diagnostic",
               "collect_process_diagnostic", "collect_network_diagnostic",
               "terminate_evidence_process", "restart_quietward_demo_service"}

If(condition, recommendations) == IF condition THEN recommendations ELSE {}

Listed(E) ==
    If(~Demo(E), {"collect_host_diagnostic"})
    \cup If(~Demo(E) /\ Profiles(E) # {}, {"collect_incident_triage_bundle"})
    \cup If(Demo(E), {"confirm demo health", "restart_quietward_demo_service"})
    \cup If(ProcessRelevant(E), {"collect_process_diagnostic", "terminate_evidence_process"})
    \cup If(NetworkRelevant(E), {"collect_process_diagnostic", "collect_network_diagnostic",
                                 "review listener"})
    \cup If("artifact_metadata_review" \in Hints(E), {"review artifact"})
    \cup If("identity_activity_review" \in Hints(E), {"review identity"})
    \cup If("evidence_chain_review" \in Hints(E), {"review provenance"})
    \cup If(Persistent(E), {"review persistence"})
    \cup If(~Demo(E) /\ Operational(E), {"review resources"})

\* A host diagnostic alone is filled up with general advice.
Recommended(E) ==
    Listed(E) \cup If(Listed(E) = {"collect_host_diagnostic"}, {"review evidence"})

ProbableCause(E) ==
    IF Demo(E) THEN "demo"
    ELSE IF "persistence" \in Categories(E) THEN "persistence"
    ELSE IF "network" \in Categories(E) THEN "network"
    ELSE IF "operational" \in Categories(E) THEN "operational"
    ELSE "unknown"

Advices(E) ==
    {[recommended |-> Recommended(E), cause |-> ProbableCause(E), playbook |-> p] :
        p \in Playbooks(E)}

-----------------------------------------------------------------------------

EvidenceIn(i) == {EvidenceOf[c] : c \in ContentsIn(i)}

GuidedInit ==
    /\ Init
    /\ advice = [i \in {} |-> i]

\* Fault: the events are read before the new one is flushed.
AdviseOnKnown(i, c) ==
    LET E == IF i \in Opened THEN EvidenceIn(i) ELSE {EvidenceOf[c]}
    IN  \E a \in Advices(E) :
          advice' = [j \in Opened \cup {i} |-> IF j = i THEN a ELSE advice[j]]

\* The incident that content c has joined is advised on anew.
Advise(i, c) ==
    \E a \in Advices(EvidenceIn(i) \cup {EvidenceOf[c]}) :
        advice' = [j \in Opened \cup {i} |-> IF j = i THEN a ELSE advice[j]]

GuidedIngest(id, c) ==
    /\ Ingest(id, c)
    /\ \E i \in Incident : events'[id].incident = i /\ Advise(i, c)

GuidedNext ==
    \/ \E id \in EventId, c \in Content : GuidedIngest(id, c)
    \/ /\ \/ \E i \in Opened, s \in ActionableStatus \cup ClosedStatus, v \in Severity :
                UpdateIncident(i, s, v)
          \/ Tick
       /\ UNCHANGED advice

GuidedSpec == GuidedInit /\ [][GuidedNext]_guidedVars

-----------------------------------------------------------------------------
(* Properties *)

Enabled(i) == advice[i].recommended \cap Executable

\* Evidence as it would be had nobody claimed authority.
Unclaimed(e) == [e EXCEPT !.context = {x \in e.context : ~x.acts}]

\* What an incident enables is what its events call for, all of them and as if those
\* that claim authority for their sender had brought no assessment: in whatever order
\* they came, and whatever was done to the incident in between (_refresh_incident,
\* _metadata).
AdviceFollowsEvidence ==
    /\ DOMAIN advice = Opened
    /\ \A i \in Opened :
          /\ advice[i] \in Advices(EvidenceIn(i))
          /\ advice[i].recommended = Recommended({Unclaimed(e) : e \in EvidenceIn(i)})

\* New evidence does not take away what an analyst can already do, nor what was
\* requested on the strength of it: only the first event of the demo service
\* withdraws something, the host diagnostic and the triage (recommendations_for,
\* incident_enables_action).
CapabilitiesStay ==
    [][\A i \in Opened : LET lost == Enabled(i) \ Enabled(i)' IN
         lost # {} =>
           /\ lost \subseteq {"collect_host_diagnostic", "collect_incident_triage_bundle"}
           /\ ~Demo(EvidenceIn(i)) /\ Demo(EvidenceIn(i))']_guidedVars
=============================================================================
