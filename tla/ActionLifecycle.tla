---------------------------- MODULE ActionLifecycle ----------------------------
(***************************************************************************)
(* The response-action side of the QuietWard Response server.              *)
(*                                                                         *)
(* Every HTTP request runs alone (request_serialization.py), so a request  *)
(* handler is one atomic action here.  A request that the server refuses   *)
(* rolls its session back and leaves the tables as they were: a refusal is *)
(* a stuttering step and has no action.  All state is in the database, so  *)
(* restarting the server between two requests changes nothing either.      *)
(*                                                                         *)
(* Endpoints are only seen through the requests they send; the module      *)
(* ResponseSystem composes this one with the endpoint agent.               *)
(***************************************************************************)
EXTENDS Naturals, FiniteSets

CONSTANTS
    ActionId,       \* primary keys of the actions table
    Incident,       \* primary keys of the incidents table
    Agent,          \* enrolled credentials; a host may have several
    Host,
    HostOf,         \* the host an agent is enrolled for
    IncidentHost,   \* the host of an incident's events: events correlate per host
    ActionType,     \* the registered action types
    Triage,         \* collect_incident_triage_bundle
    Terminate,      \* terminate_evidence_process
    LegacyActions,  \* what an agent without a capability report may run
    OsFamily,
    SupportedOs,    \* the OS families of each action type
    Handle,         \* opaque process handles a triage bundle can name
    NoHandle,       \* the parameters of every other action type
    TTL,            \* the lifetimes a request may ask for
    ReplayWindow,   \* tolerated endpoint clock lead
    ClockError,     \* how far the modelled endpoint clocks may be off
    MaxTime         \* bound of the modelled clock

ASSUME ConstantsAssumption ==
    /\ HostOf \in [Agent -> Host]
    /\ IncidentHost \in [Incident -> Host]
    /\ LegacyActions \subseteq ActionType
    /\ SupportedOs \in [ActionType -> SUBSET OsFamily]
    /\ Triage # Terminate
    /\ NoHandle \notin Handle
    /\ TTL \subseteq Nat \ {0}
    /\ ReplayWindow \in Nat
    /\ ClockError \in Nat
    /\ MaxTime \in Nat \ {0}   \* where the clock starts

VARIABLES
    actions,        \* the actions table: a function on the ids issued so far
    approvals,      \* the approvals table, keyed by the action it belongs to
    incidents,      \* status and enabled recommendations of each incident
    agents,         \* "absent", "enabled" or "disabled"
    enabledActions, \* what agent_enabled_actions returns for each agent
    hostOs,         \* the OS family of each host record
    now             \* the server's clock

vars == <<actions, approvals, incidents, agents, enabledActions, hostOs, now>>

-----------------------------------------------------------------------------
(* Tables *)

ActionableStatus == {"new", "investigating", "contained"}
ClosedStatus == {"resolved", "dismissed"}
IncidentStatus == ActionableStatus \cup ClosedStatus

Undispatched == {"pending", "approved", "dispatching"}
Active == Undispatched \cup {"executing"}
Terminal == {"succeeded", "failed"}
ActionStatus == Active \cup Terminal \cup {"rejected", "cancelled", "expired"}
ApprovalStatus == {"pending", "approved", "rejected", "cancelled", "expired"}

NoTime == 0     \* a NULL timestamp; the clock starts at 1

ActionRow ==
    [incident : Incident, agent : Agent, type : ActionType,
     handle : Handle \cup {NoHandle}, requested : Nat, expiresAt : Nat,
     status : ActionStatus, policyAllowed : BOOLEAN,
     startedAt : Nat, completedAt : Nat, result : SUBSET Handle]

ApprovalRow == [status : ApprovalStatus, expiresAt : Nat]

IncidentRow == [status : IncidentStatus \cup {"absent"},
                recommended : SUBSET ActionType]

Payload == [status : {"executing"} \cup Terminal,
            startedAt : Nat, completedAt : Nat, result : SUBSET Handle]

Ids == DOMAIN actions

TypeOK ==
    /\ Ids \subseteq ActionId /\ IsFiniteSet(Ids)
    /\ actions \in [Ids -> ActionRow]
    /\ approvals \in [Ids -> ApprovalRow]
    /\ incidents \in [Incident -> IncidentRow]
    /\ agents \in [Agent -> {"absent", "enabled", "disabled"}]
    /\ enabledActions \in [Agent -> SUBSET ActionType]
    /\ hostOs \in [Host -> OsFamily]
    /\ now \in Nat \ {0}

Init ==
    /\ actions = [a \in {} |-> <<>>]
    /\ approvals = [a \in {} |-> <<>>]
    /\ incidents = [i \in Incident |-> [status |-> "absent", recommended |-> {}]]
    /\ agents = [g \in Agent |-> "absent"]
    /\ enabledActions = [g \in Agent |-> LegacyActions]
    /\ hostOs \in [Host -> OsFamily]
    /\ now = 1

-----------------------------------------------------------------------------
(* Helpers of action_service.py and policy_service.py.  A definition marked *)
(* "Fault" is no part of the model: it is a variant of the one after it, as *)
(* a plausible mistake would make it, that the properties are tested on.    *)

Due(row) == row.status \in Undispatched /\ row.expiresAt <= now

\* The row and its approval after a cancellation or an expiry.
Voided(row, how) == [row EXCEPT !.status = how, !.policyAllowed = FALSE]

\* Fault: only the approvals that were never decided die with their action.
UndecidedVoided(ap, how) ==
    IF ap.status = "pending" THEN [ap EXCEPT !.status = how] ELSE ap

VoidedApproval(ap, how) ==
    IF ap.status \in {"pending", "approved"} THEN [ap EXCEPT !.status = how] ELSE ap

\* Fault: what has been delivered counts as begun.
VoidUndelivered(S, how) ==
    LET open == {a \in S : actions[a].status \in {"pending", "approved"}}
    IN  /\ actions' = [a \in Ids |->
              IF a \in open THEN Voided(actions[a], how) ELSE actions[a]]
        /\ approvals' = [a \in Ids |->
              IF a \in open THEN VoidedApproval(approvals[a], how) ELSE approvals[a]]

\* Void, in one transaction, the actions of S that are still undispatched.
VoidAll(S, how) ==
    LET open == {a \in S : actions[a].status \in Undispatched}
    IN  /\ actions' = [a \in Ids |->
              IF a \in open THEN Voided(actions[a], how) ELSE actions[a]]
        /\ approvals' = [a \in Ids |->
              IF a \in open THEN VoidedApproval(approvals[a], how) ELSE approvals[a]]

IncidentAllowsResponse(i) == incidents[i].status \in ActionableStatus

IncidentEnablesAction(i, t) ==
    IncidentAllowsResponse(i) /\ t \in incidents[i].recommended

\* Fault: any triage of the incident will do, from whichever agent.
BoundToIncident(row) ==
    row.type = Terminate =>
        \E b \in Ids : /\ actions[b].type = Triage
                       /\ actions[b].status = "succeeded"
                       /\ actions[b].incident = row.incident
                       /\ row.handle \in actions[b].result

\* A termination names a process that a finished triage of the same incident
\* and agent (so of the same host) has listed.
EvidenceBound(row) ==
    row.type = Terminate =>
        \E b \in Ids : /\ actions[b].type = Triage
                       /\ actions[b].status = "succeeded"
                       /\ actions[b].incident = row.incident
                       /\ actions[b].agent = row.agent
                       /\ row.handle \in actions[b].result

\* Fault: what another endpoint has listed is evidence enough.
PolicyAllowsAnyEndpoint(row, ap) ==
    /\ agents[row.agent] = "enabled"
    /\ row.type \in enabledActions[row.agent]
    /\ HostOf[row.agent] = IncidentHost[row.incident]
    /\ IncidentEnablesAction(row.incident, row.type)
    /\ BoundToIncident(row)
    /\ hostOs[HostOf[row.agent]] \in SupportedOs[row.type]
    /\ row.expiresAt > now
    /\ ap.status = "approved"
    /\ ap.expiresAt > now

PolicyAllows(row, ap) ==
    /\ agents[row.agent] = "enabled"
    /\ row.type \in enabledActions[row.agent]
    /\ HostOf[row.agent] = IncidentHost[row.incident]
    /\ IncidentEnablesAction(row.incident, row.type)
    /\ EvidenceBound(row)
    /\ hostOs[HostOf[row.agent]] \in SupportedOs[row.type]
    /\ row.expiresAt > now
    /\ ap.status = "approved"
    /\ ap.expiresAt > now

-----------------------------------------------------------------------------
(* Incidents, agents and capabilities *)

Tick == /\ now < MaxTime
        /\ now' = now + 1
        /\ UNCHANGED <<actions, approvals, incidents, agents, enabledActions, hostOs>>

\* An accepted security event opens incident i or joins it while it is
\* actionable; the recommendations are recomputed from all its events, so they
\* can grow or shrink, and the host record takes the event's OS.
IngestEvent(i, recommended, os) ==
    /\ incidents[i].status \in ActionableStatus \cup {"absent"}
    /\ incidents' = [incidents EXCEPT
          ![i] = [status |-> IF @.status = "absent" THEN "new" ELSE @.status,
                  recommended |-> recommended]]
    /\ hostOs' = [hostOs EXCEPT ![IncidentHost[i]] = os]
    /\ UNCHANGED <<actions, approvals, agents, enabledActions, now>>

\* PATCH of an incident's status.  Any status may follow any other; closing
\* cancels what has not begun.  Whether recovery workflows let the closure
\* through is assert_closure's decision, taken before this step.
PatchIncident(i, status) ==
    /\ incidents[i].status \notin {"absent", status}
    /\ incidents' = [incidents EXCEPT ![i].status = status]
    /\ IF status \in ClosedStatus
       THEN VoidAll({a \in Ids : actions[a].incident = i}, "cancelled")
       ELSE UNCHANGED <<actions, approvals>>
    /\ UNCHANGED <<agents, enabledActions, hostOs, now>>

EnrollAgent(g) ==
    /\ agents[g] = "absent"
    /\ agents' = [agents EXCEPT ![g] = "enabled"]
    /\ UNCHANGED <<actions, approvals, incidents, enabledActions, hostOs, now>>

EnableAgent(g) ==
    /\ agents[g] = "disabled"
    /\ agents' = [agents EXCEPT ![g] = "enabled"]
    /\ UNCHANGED <<actions, approvals, incidents, enabledActions, hostOs, now>>

\* Fault: the credential is switched off and its actions are left to the polls.
DisableCredential(g) ==
    /\ agents[g] = "enabled"
    /\ agents' = [agents EXCEPT ![g] = "disabled"]
    /\ UNCHANGED <<actions, approvals, incidents, enabledActions, hostOs, now>>

DisableAgent(g) ==
    /\ agents[g] = "enabled"
    /\ agents' = [agents EXCEPT ![g] = "disabled"]
    /\ VoidAll({a \in Ids : actions[a].agent = g}, "cancelled")
    /\ UNCHANGED <<incidents, enabledActions, hostOs, now>>

\* enabled is the intersection of the reported supported and enabled actions.
ReportCapabilities(g, enabled) ==
    /\ agents[g] = "enabled"
    /\ enabledActions' = [enabledActions EXCEPT ![g] = enabled]
    /\ UNCHANGED <<actions, approvals, incidents, agents, hostOs, now>>

-----------------------------------------------------------------------------
(* Analyst operations on actions *)

\* Fault: targets are told apart by credential instead of by host.
SameCredential(row, i, g, t) ==
    row.incident = i /\ row.agent = g /\ row.type = t

SameTarget(row, i, g, t) ==
    row.incident = i /\ HostOf[row.agent] = HostOf[g] /\ row.type = t

NewRow(i, g, t, h, ttl) ==
    [incident |-> i, agent |-> g, type |-> t, handle |-> h,
     requested |-> Cardinality(Ids) + 1, expiresAt |-> now + ttl,
     status |-> "pending", policyAllowed |-> FALSE,
     startedAt |-> NoTime, completedAt |-> NoTime, result |-> {}]

\* Requests of the same target that have run out expire first; one that is
\* still active refuses the request, and the refusal undoes those expiries.
RequestAction(a, i, g, t, h, ttl) ==
    LET matching == {b \in Ids : SameTarget(actions[b], i, g, t)}
        due == {b \in matching : Due(actions[b])}
    IN  /\ a \notin Ids
        /\ incidents[i].status # "absent"
        /\ agents[g] = "enabled"
        /\ HostOf[g] = IncidentHost[i]
        /\ (t = Terminate) = (h # NoHandle)
        /\ IncidentEnablesAction(i, t)
        /\ \A b \in matching \ due : actions[b].status \notin Active
        /\ actions' = [b \in Ids \cup {a} |->
              IF b = a THEN NewRow(i, g, t, h, ttl)
              ELSE IF b \in due THEN Voided(actions[b], "expired") ELSE actions[b]]
        /\ approvals' = [b \in Ids \cup {a} |->
              IF b = a THEN [status |-> "pending", expiresAt |-> now + ttl]
              ELSE IF b \in due THEN VoidedApproval(approvals[b], "expired")
              ELSE approvals[b]]
        /\ UNCHANGED <<incidents, agents, enabledActions, hostOs, now>>

\* Write one action and its approval.
Put(a, row, ap) ==
    /\ actions' = [actions EXCEPT ![a] = row]
    /\ approvals' = [approvals EXCEPT ![a] = ap]
    /\ UNCHANGED <<incidents, agents, enabledActions, hostOs, now>>

\* Both decisions are single-shot, and the decision on an action that has run
\* out expires it instead.
Approve(a) ==
    LET row == [actions[a] EXCEPT !.status = "approved", !.policyAllowed = TRUE]
        ap  == [approvals[a] EXCEPT !.status = "approved"]
    IN  /\ actions[a].status = "pending"
        /\ IF Due(actions[a])
           THEN Put(a, Voided(actions[a], "expired"), VoidedApproval(approvals[a], "expired"))
           ELSE IF PolicyAllows(row, ap)
           THEN Put(a, row, ap)
           ELSE Put(a, Voided(row, "cancelled"), VoidedApproval(ap, "cancelled"))

Reject(a) ==
    /\ actions[a].status = "pending"
    /\ IF Due(actions[a])
       THEN Put(a, Voided(actions[a], "expired"), VoidedApproval(approvals[a], "expired"))
       ELSE Put(a, [actions[a] EXCEPT !.status = "rejected"],
                   [approvals[a] EXCEPT !.status = "rejected"])

\* Listing an incident's actions expires those that have run out.
ListActions(i) ==
    /\ incidents[i].status # "absent"
    /\ VoidAll({a \in Ids : actions[a].incident = i /\ Due(actions[a])}, "expired")
    /\ UNCHANGED <<incidents, agents, enabledActions, hostOs, now>>

-----------------------------------------------------------------------------
(* Endpoint requests *)

\* Fault: polling leaves what has run out to the next listing.
PolledUnexpired(row, ap) ==
    IF ~Due(row) /\ PolicyAllows(row, ap)
    THEN [row EXCEPT !.status = "dispatching", !.policyAllowed = TRUE]
    ELSE row

\* What one poll makes of an approved or dispatching action.
PolledRow(row, ap) ==
    IF Due(row) THEN Voided(row, "expired")
    ELSE IF PolicyAllows(row, ap)
         THEN [row EXCEPT !.status = "dispatching", !.policyAllowed = TRUE]
         ELSE Voided(row, "cancelled")

PolledApproval(row, ap) ==
    IF Due(row) THEN VoidedApproval(ap, "expired")
    ELSE IF PolicyAllows(row, ap) THEN ap ELSE VoidedApproval(ap, "cancelled")

PollPending(g) ==
    LET polled == {a \in Ids : /\ actions[a].agent = g
                               /\ actions[a].status \in {"approved", "dispatching"}}
    IN  /\ agents[g] # "absent"
        /\ actions' = [a \in Ids |->
              IF a \in polled THEN PolledRow(actions[a], approvals[a]) ELSE actions[a]]
        /\ approvals' = [a \in Ids |->
              IF a \in polled THEN PolledApproval(actions[a], approvals[a]) ELSE approvals[a]]
        /\ UNCHANGED <<incidents, agents, enabledActions, hostOs, now>>

\* Fault: a disabled agent is told nothing.
DeliveredIfEnabled(g) ==
    {a \in Ids : /\ actions[a].agent = g
                 /\ actions[a].status \in {"dispatching", "executing"}
                 /\ agents[g] = "enabled"}

\* The actions the reply carries; a disabled agent only sees what it has begun.
Delivered(g) ==
    {a \in Ids : /\ actions[a].agent = g
                 /\ actions[a].status \in {"dispatching", "executing"}
                 /\ agents[g] = "disabled" => actions[a].status = "executing"}

StartOf(row, p) == IF row.startedAt = NoTime THEN p.startedAt ELSE row.startedAt

\* A repeated report: it is accepted and changes nothing.
RepeatedReport(row, p) ==
    \/ row.status \in Terminal /\ p.status = row.status /\ p.result = row.result
    \/ row.status = "executing" /\ p.status = "executing"

\* Fault: a late acknowledgement is taken although the action was given up.
LateReport(row, p) ==
    /\ \/ row.status \in {"dispatching", "cancelled"} /\ p.status = "executing"
       \/ row.status = "executing" /\ p.status \in Terminal
    /\ p.status \in Terminal => p.completedAt >= StartOf(row, p)

\* Fault: an outcome needs no acknowledgement before it.
UnacknowledgedReport(row, p) ==
    /\ \/ row.status = "dispatching"
       \/ row.status = "executing" /\ p.status \in Terminal
    /\ p.status \in Terminal => p.completedAt >= StartOf(row, p)

\* Fault: the completion is compared with the start of its own report.
SelfTimedReport(row, p) ==
    /\ \/ row.status = "dispatching" /\ p.status = "executing"
       \/ row.status = "executing" /\ p.status \in Terminal
    /\ p.status \in Terminal => p.completedAt >= p.startedAt

\* The acknowledgement comes first, then the outcome, each within the clock
\* tolerance; a completion before the stored start is refused.
NewReport(row, p) ==
    /\ \/ row.status = "dispatching" /\ p.status = "executing"
       \/ row.status = "executing" /\ p.status \in Terminal
    /\ p.status \in Terminal => p.completedAt >= StartOf(row, p)

ResultAccepted(g, a, p) ==
    /\ a \in Ids
    /\ actions[a].agent = g
    /\ \/ agents[g] = "enabled"
       \/ agents[g] = "disabled" /\ actions[a].status \in {"executing"} \cup Terminal
    /\ p.startedAt <= now + ReplayWindow
    /\ p.completedAt <= now + ReplayWindow
    /\ RepeatedReport(actions[a], p) \/ NewReport(actions[a], p)

\* Fault: the start of the last report is the one that is kept.
RestartedRow(row, p) ==
    [row EXCEPT !.status = p.status,
                !.startedAt = p.startedAt,
                !.completedAt = p.completedAt,
                !.result = p.result]

RecordedRow(row, p) ==
    [row EXCEPT !.status = p.status,
                !.startedAt = StartOf(row, p),
                !.completedAt = p.completedAt,
                !.result = p.result]

PostResult(g, a, p) ==
    /\ ResultAccepted(g, a, p)
    /\ actions' = IF RepeatedReport(actions[a], p) THEN actions
                  ELSE [actions EXCEPT ![a] = RecordedRow(@, p)]
    /\ UNCHANGED <<approvals, incidents, agents, enabledActions, hostOs, now>>

-----------------------------------------------------------------------------

ClockReadings == {t \in 1..(MaxTime + ClockError) :
                     t <= now + ClockError /\ now <= t + ClockError}

\* A start is read once, when the intent is saved, and sent with every retry.
StartReadings == {t \in 1..(MaxTime + ClockError) : t <= now + ClockError}

\* The reports an endpoint can send for an action of type t: only a triage
\* that succeeds returns handles, and only an outcome has a completion time.
Acknowledgements ==
    [status : {"executing"}, startedAt : StartReadings, completedAt : {NoTime}, result : {{}}]

Outcomes(t) ==
    {p \in [status : Terminal, startedAt : StartReadings,
            completedAt : ClockReadings, result : SUBSET Handle] :
        /\ p.startedAt <= p.completedAt
        /\ p.result # {} => p.status = "succeeded" /\ t = Triage}

Reports(t) == Acknowledgements \cup Outcomes(t)

AnalystNext ==
    \/ \E i \in Incident, s \in IncidentStatus : PatchIncident(i, s)
    \/ \E g \in Agent : EnableAgent(g) \/ DisableAgent(g)
    \/ \E a \in ActionId, i \in Incident, g \in Agent, t \in ActionType,
          h \in Handle \cup {NoHandle}, ttl \in TTL : RequestAction(a, i, g, t, h, ttl)
    \/ \E a \in Ids : Approve(a) \/ Reject(a)
    \/ \E i \in Incident : ListActions(i)

EnvironmentNext ==
    \/ Tick
    \/ \E i \in Incident, r \in SUBSET ActionType, os \in OsFamily : IngestEvent(i, r, os)
    \/ \E g \in Agent : EnrollAgent(g)
    \/ \E g \in Agent, e \in SUBSET ActionType : ReportCapabilities(g, e)

EndpointNext ==
    \/ \E g \in Agent : PollPending(g)
    \/ \E g \in Agent, a \in Ids :
          \E p \in Reports(actions[a].type) : PostResult(g, a, p)

Next == AnalystNext \/ EnvironmentNext \/ EndpointNext

Spec == Init /\ [][Next]_vars

-----------------------------------------------------------------------------
(* Properties *)

Authorised == {"approved", "dispatching", "executing"} \cup Terminal

\* Two credentials of one host, or a request repeated after a refusal, never
\* give an incident, host and type two actions in flight: the check in
\* create_action counts what it has itself just expired as gone.
OneActivePerTarget ==
    \A a, b \in Ids :
        /\ actions[a].status \in Active
        /\ actions[b].status \in Active
        /\ actions[a].incident = actions[b].incident
        /\ HostOf[actions[a].agent] = HostOf[actions[b].agent]
        /\ actions[a].type = actions[b].type
        => a = b

\* The two tables are updated by eight different code paths and never drift:
\* an action is past the analyst's gate exactly when its approval stands and
\* the policy's last word on it was yes; a dead action has a dead approval.
ApprovalAgrees ==
    \A a \in Ids :
        LET row == actions[a]  ap == approvals[a]
        IN  /\ ap.expiresAt = row.expiresAt
            /\ row.policyAllowed = (row.status \in Authorised)
            /\ ap.status = (IF row.status \in Authorised THEN "approved" ELSE row.status)

\* A closed incident has nothing left that could still start, also when it
\* was closed between the delivery of an action and its acknowledgement.
ClosedIncidentQuiet ==
    \A a \in Ids : actions[a].status \in Undispatched =>
                       IncidentAllowsResponse(actions[a].incident)

\* The same for a revoked agent: disabling it leaves only executions whose
\* outcome is still to be reconciled.
DisabledAgentQuiet ==
    \A a \in Ids : actions[a].status \in Undispatched => agents[actions[a].agent] = "enabled"

\* A revocation, by closure or by disabling, is complete in the step that makes
\* it: no action is left for a later acknowledgement to start.
RevokedIsQuiet == ClosedIncidentQuiet /\ DisabledAgentQuiet

\* A termination that passed the gate names a process that a successful triage
\* of its own incident and agent lists, and goes on doing so: results of
\* finished triages do not change under it.
ContainmentIsEvidenceBound ==
    \A a \in Ids : actions[a].status \in Authorised => EvidenceBound(actions[a])

\* Started and completion times are endpoint claims from different requests,
\* retries and clocks; what is stored is always a possible execution.
TimelineConsistent ==
    \A a \in Ids :
        LET row == actions[a]
        IN  /\ (row.startedAt # NoTime) = (row.status \in {"executing"} \cup Terminal)
            /\ (row.completedAt # NoTime) = (row.status \in Terminal)
            /\ row.status \in Terminal => row.completedAt >= row.startedAt

\* apply_action_result looks at neither the incident nor the approval when an
\* endpoint acknowledges execution.  Execution still only starts for an enabled
\* agent, on an actionable incident, with a standing approval.
StartsAuthorised(a) ==
    /\ actions[a].status # "executing"
    /\ actions'[a].status = "executing"
    => /\ actions[a].status = "dispatching"
       /\ approvals[a].status = "approved"
       /\ agents[actions[a].agent] = "enabled"
       /\ IncidentAllowsResponse(actions[a].incident)

ExecutionStartsAuthorised == [][\A a \in Ids : StartsAuthorised(a)]_vars

\* Revocation, closure, expiry and late or repeated reports never revive a dead
\* action, rewrite an outcome, undo an execution or move its start.
HistoryKept(a) ==
    /\ a \in DOMAIN actions'
    /\ actions[a].status \notin Active => /\ actions'[a] = actions[a]
                                          /\ approvals'[a] = approvals[a]
    /\ actions[a].status = "executing" =>
           /\ actions'[a].status \in {"executing"} \cup Terminal
           /\ actions'[a].startedAt = actions[a].startedAt

HistoryIsKept == [][\A a \in Ids : HistoryKept(a)]_vars

\* The lifecycle that the server promises: each step of these tables is a step
\* of the contract, or leaves what the contract sees as it was.
Contract == INSTANCE ActionContract WITH
    Target <- Incident \X Host \X ActionType,
    stage  <- [a \in ActionId |-> IF a \in Ids THEN actions[a].status ELSE "none"],
    target <- [a \in ActionId |->
                  IF a \in Ids
                  THEN {<<actions[a].incident, HostOf[actions[a].agent], actions[a].type>>}
                  ELSE {}]

ContractSpec == Contract!Spec
=============================================================================
