------------------------- MODULE ActionLifecycleProofs -------------------------
(***************************************************************************)
(* Proofs about ActionLifecycle, for every set of ids, incidents, agents   *)
(* and action types.                                                       *)
(***************************************************************************)
EXTENDS ActionLifecycle, FiniteSetTheorems, TLAPS

(* What one step may do to an action that exists: the fields that never
   change, and the ways its status, approval and report move together. *)
KeepsIdentity(b) ==
    /\ actions'[b].incident = actions[b].incident
    /\ actions'[b].agent = actions[b].agent
    /\ actions'[b].type = actions[b].type
    /\ actions'[b].handle = actions[b].handle
    /\ actions'[b].requested = actions[b].requested
    /\ actions'[b].expiresAt = actions[b].expiresAt
    /\ approvals'[b].expiresAt = approvals[b].expiresAt

KeepsReport(b) ==
    /\ actions'[b].startedAt = actions[b].startedAt
    /\ actions'[b].completedAt = actions[b].completedAt
    /\ actions'[b].result = actions[b].result

Stays(b) == actions'[b] = actions[b] /\ approvals'[b] = approvals[b]

IsVoided(b) ==
    /\ actions[b].status \in Undispatched
    /\ actions'[b].status \in {"cancelled", "expired"}
    /\ actions'[b].policyAllowed = FALSE
    /\ approvals'[b].status = actions'[b].status
    /\ KeepsReport(b)

IsRejected(b) ==
    /\ actions[b].status = "pending"
    /\ actions'[b].status = "rejected"
    /\ actions'[b].policyAllowed = actions[b].policyAllowed
    /\ approvals'[b].status = "rejected"
    /\ KeepsReport(b)

IsApproved(b) ==
    /\ actions[b].status = "pending"
    /\ actions'[b].status = "approved"
    /\ actions'[b].policyAllowed = TRUE
    /\ approvals'[b].status = "approved"
    /\ EvidenceBound(actions[b])
    /\ KeepsReport(b)

IsDispatched(b) ==
    /\ actions[b].status \in {"approved", "dispatching"}
    /\ actions'[b].status = "dispatching"
    /\ actions'[b].policyAllowed = TRUE
    /\ approvals'[b] = approvals[b]
    /\ KeepsReport(b)

IsReported(b) ==
    /\ \/ /\ actions[b].status = "dispatching"
          /\ actions'[b].status = "executing"
          /\ actions'[b].completedAt = NoTime
       \/ /\ actions[b].status = "executing"
          /\ actions'[b].status \in Terminal
          /\ actions'[b].completedAt # NoTime
          /\ actions'[b].completedAt >= actions'[b].startedAt
    /\ actions'[b].startedAt # NoTime
    /\ actions[b].startedAt # NoTime => actions'[b].startedAt = actions[b].startedAt
    /\ actions'[b].policyAllowed = actions[b].policyAllowed
    /\ approvals'[b] = approvals[b]

\* What the server does to an action on its own account.
Governed(b) ==
    /\ KeepsIdentity(b)
    /\ \/ Stays(b)
       \/ IsVoided(b)
       \/ IsRejected(b)
       \/ IsApproved(b)
       \/ IsDispatched(b)

Moves(b) ==
    \/ Governed(b)
    \/ KeepsIdentity(b) /\ IsReported(b)

(* What a step may add. *)
IsNew(b) ==
    /\ actions'[b].requested = Cardinality(Ids) + 1
    /\ actions'[b].status = "pending"
    /\ actions'[b].policyAllowed = FALSE
    /\ approvals'[b] = [status |-> "pending", expiresAt |-> actions'[b].expiresAt]
    /\ actions'[b].startedAt = NoTime
    /\ actions'[b].completedAt = NoTime
    /\ agents[actions'[b].agent] = "enabled"
    /\ IncidentAllowsResponse(actions'[b].incident)
    /\ HostOf[actions'[b].agent] = IncidentHost[actions'[b].incident]

-----------------------------------------------------------------------------

LEMMA VoidedType ==
    ASSUME NEW row \in ActionRow, NEW ap \in ApprovalRow, NEW how \in {"cancelled", "expired"}
    PROVE  /\ Voided(row, how) \in ActionRow
           /\ VoidedApproval(ap, how) \in ApprovalRow
  BY DEF Voided, VoidedApproval, ActionRow, ApprovalRow, ActionStatus, ApprovalStatus

LEMMA VoidAllType ==
    ASSUME TypeOK, NEW S, NEW how \in {"cancelled", "expired"}, VoidAll(S, how)
    PROVE  /\ Ids' = Ids
           /\ actions' \in [Ids -> ActionRow]
           /\ approvals' \in [Ids -> ApprovalRow]
<1>1. \A a \in Ids : actions[a] \in ActionRow /\ approvals[a] \in ApprovalRow
  BY DEF TypeOK, Ids
<1>2. \A a \in Ids : /\ Voided(actions[a], how) \in ActionRow
                     /\ VoidedApproval(approvals[a], how) \in ApprovalRow
  BY <1>1, VoidedType
<1>3. QED
  BY <1>1, <1>2 DEF VoidAll, Ids

LEMMA PolledType ==
    ASSUME NEW row \in ActionRow, NEW ap \in ApprovalRow
    PROVE  PolledRow(row, ap) \in ActionRow /\ PolledApproval(row, ap) \in ApprovalRow
<1>1. [row EXCEPT !.status = "dispatching", !.policyAllowed = TRUE] \in ActionRow
  BY DEF ActionRow, ActionStatus, Active, Undispatched
<1>2. QED
  BY <1>1, VoidedType DEF PolledRow, PolledApproval

LEMMA NewRowType ==
    ASSUME TypeOK, ConstantsAssumption, NEW i \in Incident, NEW g \in Agent, NEW t \in ActionType,
           NEW h \in Handle \cup {NoHandle}, NEW ttl \in TTL
    PROVE  /\ NewRow(i, g, t, h, ttl) \in ActionRow
           /\ [status |-> "pending", expiresAt |-> now + ttl] \in ApprovalRow
<1>1. Cardinality(Ids) \in Nat
  BY FS_CardinalityType DEF TypeOK
<1>2. now + ttl \in Nat
  BY DEF TypeOK, ConstantsAssumption
<1>3. QED
  BY <1>1, <1>2 DEF NewRow, ActionRow, ApprovalRow, ActionStatus, ApprovalStatus,
                    Active, Undispatched, NoTime

LEMMA RecordedType ==
    ASSUME NEW row \in ActionRow, NEW p \in Payload
    PROVE  RecordedRow(row, p) \in ActionRow
  BY DEF RecordedRow, StartOf, ActionRow, Payload, ActionStatus, Active, Terminal

LEMMA ReportsType ==
    ASSUME NEW t \in ActionType, NEW p \in Reports(t)
    PROVE  /\ p \in Payload
           /\ p.startedAt # NoTime
           /\ p.status = "executing" => p.completedAt = NoTime
           /\ p.status \in Terminal => p.completedAt # NoTime
<1>1. ClockReadings \subseteq Nat \ {0} /\ StartReadings \subseteq Nat \ {0}
  BY DEF ClockReadings, StartReadings
<1>2. CASE p \in Acknowledgements
  <2>1. Acknowledgements \subseteq Payload
    <3>1. {{}} \subseteq SUBSET Handle /\ {0} \subseteq Nat
      OBVIOUS
    <3>2. QED
      BY <1>1, <3>1 DEF Acknowledgements, Payload, NoTime
  <2>2. p.startedAt \in StartReadings /\ p.status = "executing" /\ p.completedAt = NoTime
    BY <1>2 DEF Acknowledgements
  <2>3. QED
    BY <1>1, <1>2, <2>1, <2>2 DEF NoTime, Terminal
<1>3. CASE p \in Outcomes(t)
  BY <1>1, <1>3 DEF Outcomes, Payload, NoTime, Terminal
<1>4. QED
  BY <1>2, <1>3 DEF Reports

-----------------------------------------------------------------------------
(* Type correctness *)

LEMMA RequestActionType ==
    ASSUME TypeOK, ConstantsAssumption,
           NEW a \in ActionId, NEW i \in Incident, NEW g \in Agent, NEW t \in ActionType,
           NEW h \in Handle \cup {NoHandle}, NEW ttl \in TTL,
           RequestAction(a, i, g, t, h, ttl)
    PROVE  /\ Ids' = Ids \cup {a}
           /\ actions' \in [Ids' -> ActionRow]
           /\ approvals' \in [Ids' -> ApprovalRow]
<1>1. \A b \in Ids : actions[b] \in ActionRow /\ approvals[b] \in ApprovalRow
  BY DEF TypeOK, Ids
<1>2. \A b \in Ids : /\ Voided(actions[b], "expired") \in ActionRow
                     /\ VoidedApproval(approvals[b], "expired") \in ApprovalRow
  BY <1>1, VoidedType
<1>3. /\ NewRow(i, g, t, h, ttl) \in ActionRow
      /\ [status |-> "pending", expiresAt |-> now + ttl] \in ApprovalRow
  BY NewRowType
<1>4. Ids' = Ids \cup {a}
  BY DEF RequestAction, Ids
<1>5. QED
  BY <1>1, <1>2, <1>3, <1>4 DEF RequestAction

LEMMA PutType ==
    ASSUME TypeOK, NEW a \in Ids, NEW row \in ActionRow, NEW ap \in ApprovalRow, Put(a, row, ap)
    PROVE  TypeOK'
  BY DEF Put, TypeOK, Ids

LEMMA DecisionType ==
    ASSUME TypeOK, NEW a \in Ids, Approve(a) \/ Reject(a)
    PROVE  TypeOK'
<1>1. actions[a] \in ActionRow /\ approvals[a] \in ApprovalRow
  BY DEF TypeOK, Ids
<1> DEFINE row == [actions[a] EXCEPT !.status = "approved", !.policyAllowed = TRUE]
           ap  == [approvals[a] EXCEPT !.status = "approved"]
           no  == [actions[a] EXCEPT !.status = "rejected"]
           noAp == [approvals[a] EXCEPT !.status = "rejected"]
<1>2. row \in ActionRow /\ ap \in ApprovalRow
  BY <1>1 DEF ActionRow, ApprovalRow, ActionStatus, Active, Undispatched, ApprovalStatus
<1>3. no \in ActionRow /\ noAp \in ApprovalRow
  BY <1>1 DEF ActionRow, ApprovalRow, ActionStatus, ApprovalStatus
<1>4. /\ Voided(actions[a], "expired") \in ActionRow
      /\ VoidedApproval(approvals[a], "expired") \in ApprovalRow
      /\ Voided(row, "cancelled") \in ActionRow
      /\ VoidedApproval(ap, "cancelled") \in ApprovalRow
  BY <1>1, <1>2, VoidedType
<1>5. CASE Approve(a)
  BY <1>2, <1>4, <1>5, PutType DEF Approve
<1>6. CASE Reject(a)
  BY <1>3, <1>4, <1>6, PutType DEF Reject
<1>7. QED
  BY <1>5, <1>6

LEMMA PollPendingType ==
    ASSUME TypeOK, NEW g \in Agent, PollPending(g)
    PROVE  TypeOK'
<1>1. \A b \in Ids : actions[b] \in ActionRow /\ approvals[b] \in ApprovalRow
  BY DEF TypeOK, Ids
<1>2. \A b \in Ids : /\ PolledRow(actions[b], approvals[b]) \in ActionRow
                     /\ PolledApproval(actions[b], approvals[b]) \in ApprovalRow
  BY <1>1, PolledType
<1>3. Ids' = Ids
  BY DEF PollPending, Ids
<1>4. actions' \in [Ids -> ActionRow] /\ approvals' \in [Ids -> ApprovalRow]
  BY <1>1, <1>2 DEF PollPending
<1>5. QED
  BY <1>3, <1>4 DEF PollPending, TypeOK

LEMMA PostResultType ==
    ASSUME TypeOK, NEW g \in Agent, NEW a \in Ids, NEW p \in Payload, PostResult(g, a, p)
    PROVE  TypeOK'
<1>1. RecordedRow(actions[a], p) \in ActionRow
  BY RecordedType DEF TypeOK, Ids
<1>2. Ids' = Ids /\ actions' \in [Ids -> ActionRow]
  BY <1>1 DEF PostResult, TypeOK, Ids
<1>3. QED
  BY <1>2 DEF PostResult, TypeOK

LEMMA TypeInvariant == TypeOK /\ ConstantsAssumption /\ [Next]_vars => TypeOK'
<1> SUFFICES ASSUME TypeOK, ConstantsAssumption, [Next]_vars
             PROVE  TypeOK'
  OBVIOUS
<1>1. ASSUME Tick PROVE TypeOK'
  BY <1>1 DEF Tick, TypeOK, Ids
<1>2. ASSUME NEW i \in Incident, NEW r \in SUBSET ActionType, NEW os \in OsFamily,
             IngestEvent(i, r, os)
      PROVE  TypeOK'
  <2>1. incidents[i] \in IncidentRow
    BY DEF TypeOK
  <2>2. [status |-> IF incidents[i].status = "absent" THEN "new" ELSE incidents[i].status,
         recommended |-> r] \in IncidentRow
    BY <2>1 DEF IncidentRow, IncidentStatus, ActionableStatus
  <2>3. QED
    BY <1>2, <2>2 DEF IngestEvent, TypeOK, Ids
<1>3. ASSUME NEW i \in Incident, NEW s \in IncidentStatus, PatchIncident(i, s)
      PROVE  TypeOK'
  <2>1. [incidents[i] EXCEPT !.status = s] \in IncidentRow
    BY DEF TypeOK, IncidentRow
  <2>2. incidents' \in [Incident -> IncidentRow]
    BY <1>3, <2>1 DEF PatchIncident, TypeOK
  <2>3. /\ Ids' = Ids
        /\ actions' \in [Ids -> ActionRow]
        /\ approvals' \in [Ids -> ApprovalRow]
    <3>1. CASE VoidAll({a \in Ids : actions[a].incident = i}, "cancelled")
      BY <3>1, VoidAllType
    <3>2. CASE UNCHANGED <<actions, approvals>>
      BY <3>2 DEF TypeOK, Ids
    <3>3. QED
      BY <1>3, <3>1, <3>2 DEF PatchIncident
  <2>4. QED
    BY <1>3, <2>2, <2>3 DEF PatchIncident, TypeOK
<1>4. ASSUME NEW g \in Agent, EnrollAgent(g) \/ EnableAgent(g)
      PROVE  TypeOK'
  BY <1>4 DEF EnrollAgent, EnableAgent, TypeOK, Ids
<1>5. ASSUME NEW g \in Agent, DisableAgent(g)
      PROVE  TypeOK'
  <2>1. /\ Ids' = Ids
        /\ actions' \in [Ids -> ActionRow]
        /\ approvals' \in [Ids -> ApprovalRow]
    BY <1>5, VoidAllType DEF DisableAgent
  <2>2. QED
    BY <1>5, <2>1 DEF DisableAgent, TypeOK
<1>6. ASSUME NEW g \in Agent, NEW e \in SUBSET ActionType, ReportCapabilities(g, e)
      PROVE  TypeOK'
  BY <1>6 DEF ReportCapabilities, TypeOK, Ids
<1>7. ASSUME NEW a \in ActionId, NEW i \in Incident, NEW g \in Agent, NEW t \in ActionType,
             NEW h \in Handle \cup {NoHandle}, NEW ttl \in TTL,
             RequestAction(a, i, g, t, h, ttl)
      PROVE  TypeOK'
  <2>1. /\ Ids' = Ids \cup {a}
        /\ actions' \in [Ids' -> ActionRow]
        /\ approvals' \in [Ids' -> ApprovalRow]
    BY <1>7, RequestActionType
  <2>2. IsFiniteSet(Ids')
    BY <2>1, FS_AddElement DEF TypeOK
  <2>3. QED
    BY <1>7, <2>1, <2>2 DEF RequestAction, TypeOK
<1>8. ASSUME NEW a \in Ids, Approve(a) \/ Reject(a)
      PROVE  TypeOK'
  BY <1>8, DecisionType
<1>9. ASSUME NEW i \in Incident, ListActions(i)
      PROVE  TypeOK'
  <2>1. /\ Ids' = Ids
        /\ actions' \in [Ids -> ActionRow]
        /\ approvals' \in [Ids -> ApprovalRow]
    BY <1>9, VoidAllType DEF ListActions
  <2>2. QED
    BY <1>9, <2>1 DEF ListActions, TypeOK
<1>10. ASSUME NEW g \in Agent, PollPending(g)
       PROVE  TypeOK'
  BY <1>10, PollPendingType
<1>11. ASSUME NEW g \in Agent, NEW a \in Ids, NEW p \in Reports(actions[a].type),
              PostResult(g, a, p)
       PROVE  TypeOK'
  <2>1. actions[a].type \in ActionType
    BY DEF TypeOK, Ids, ActionRow
  <2>2. p \in Payload
    BY <1>11, <2>1, ReportsType
  <2>3. QED
    BY <1>11, <2>2, PostResultType
<1>12. CASE UNCHANGED vars
  BY <1>12 DEF vars, TypeOK, Ids
<1>13. QED
  BY <1>1, <1>2, <1>3, <1>4, <1>5, <1>6, <1>7, <1>8, <1>9, <1>10, <1>11, <1>12
     DEF Next, AnalystNext, EnvironmentNext, EndpointNext

LEMMA InitTypeOK == ConstantsAssumption /\ Init => TypeOK
<1> SUFFICES ASSUME ConstantsAssumption, Init PROVE TypeOK
  OBVIOUS
<1>1. Ids = {} /\ DOMAIN approvals = {}
  BY DEF Init, Ids
<1>2. IsFiniteSet(Ids)
  BY <1>1, FS_EmptySet
<1>3. incidents \in [Incident -> IncidentRow]
  BY DEF Init, IncidentRow
<1>4. actions \in [Ids -> ActionRow] /\ approvals \in [Ids -> ApprovalRow]
  BY <1>1 DEF Init
<1>5. QED
  BY <1>1, <1>2, <1>3, <1>4 DEF Init, TypeOK, ConstantsAssumption

\* Every table of every reachable state is well typed.
THEOREM TypeCorrect == Spec => []TypeOK
<1>1. Init => TypeOK
  BY ConstantsAssumption, InitTypeOK
<1>2. TypeOK /\ [Next]_vars => TypeOK'
  BY ConstantsAssumption, TypeInvariant
<1>3. QED
  BY <1>1, <1>2, PTL DEF Spec

-----------------------------------------------------------------------------
(* How a step moves the actions *)

LEMMA RowFacts ==
    ASSUME TypeOK, NEW b \in Ids
    PROVE  actions[b] \in ActionRow /\ approvals[b] \in ApprovalRow
  BY DEF TypeOK, Ids

\* The two halves of a voided pair.
LEMMA VoidedMoves ==
    ASSUME TypeOK, ApprovalAgrees, NEW b \in Ids,
           actions[b].status \in Undispatched,
           NEW how \in {"cancelled", "expired"},
           actions'[b] = Voided(actions[b], how),
           approvals'[b] = VoidedApproval(approvals[b], how)
    PROVE  Governed(b)
<1>1. actions[b] \in ActionRow /\ approvals[b] \in ApprovalRow
  BY RowFacts
<1>2. approvals[b].status \in {"pending", "approved"}
  BY DEF ApprovalAgrees, Authorised, Undispatched
<1>3. approvals'[b] = [approvals[b] EXCEPT !.status = how]
  BY <1>2 DEF VoidedApproval
<1>4. KeepsIdentity(b) /\ KeepsReport(b)
  BY <1>1, <1>3 DEF KeepsIdentity, KeepsReport, Voided, ActionRow, ApprovalRow
<1>5. /\ actions'[b].status = how
      /\ actions'[b].policyAllowed = FALSE
      /\ approvals'[b].status = how
  BY <1>1, <1>3 DEF Voided, ActionRow, ApprovalRow
<1>6. QED
  BY <1>4, <1>5 DEF Governed, IsVoided

LEMMA StaysMoves ==
    ASSUME NEW b, Stays(b)
    PROVE  Governed(b)
  BY DEF Stays, Governed, KeepsIdentity

LEMMA VoidAllMoves ==
    ASSUME TypeOK, ApprovalAgrees, NEW S, NEW how \in {"cancelled", "expired"}, VoidAll(S, how)
    PROVE  \A b \in Ids : /\ Governed(b)
                          /\ b \in S => actions'[b].status \notin Undispatched
<1> SUFFICES ASSUME NEW b \in Ids
             PROVE  Governed(b) /\ (b \in S => actions'[b].status \notin Undispatched)
  OBVIOUS
<1>1. CASE b \in S /\ actions[b].status \in Undispatched
  <2>1. /\ actions'[b] = Voided(actions[b], how)
        /\ approvals'[b] = VoidedApproval(approvals[b], how)
    BY <1>1 DEF VoidAll
  <2>2. actions'[b].status = how
    BY <2>1, RowFacts DEF Voided, ActionRow
  <2>3. QED
    BY <1>1, <2>1, <2>2, VoidedMoves DEF Undispatched
<1>2. CASE ~(b \in S /\ actions[b].status \in Undispatched)
  <2>1. Stays(b)
    BY <1>2 DEF VoidAll, Stays
  <2>2. QED
    BY <1>2, <2>1, StaysMoves DEF Stays
<1>3. QED
  BY <1>1, <1>2

LEMMA RequestActionMoves ==
    ASSUME TypeOK, ApprovalAgrees, ConstantsAssumption,
           NEW a \in ActionId, NEW i \in Incident, NEW g \in Agent, NEW t \in ActionType,
           NEW h \in Handle \cup {NoHandle}, NEW ttl \in TTL,
           RequestAction(a, i, g, t, h, ttl)
    PROVE  /\ \A b \in Ids : Governed(b)
           /\ IsNew(a)
           /\ SameTarget(actions'[a], i, g, t)
           /\ \A b \in Ids : SameTarget(actions[b], i, g, t) => actions'[b].status \notin Active
<1> DEFINE due == {b \in Ids : SameTarget(actions[b], i, g, t) /\ Due(actions[b])}
<1>1. ASSUME NEW b \in Ids
      PROVE  /\ Governed(b)
             /\ SameTarget(actions[b], i, g, t) => actions'[b].status \notin Active
  <2>1. b # a
    BY DEF RequestAction
  <2>2. CASE b \in due
    <3>1. /\ actions'[b] = Voided(actions[b], "expired")
          /\ approvals'[b] = VoidedApproval(approvals[b], "expired")
      BY <2>1, <2>2 DEF RequestAction
    <3>2. actions'[b].status = "expired"
      BY <3>1, RowFacts DEF Voided, ActionRow
    <3>3. actions[b].status \in Undispatched
      BY <2>2 DEF Due
    <3>4. QED
      BY <3>1, <3>2, <3>3, VoidedMoves DEF Active, Undispatched
  <2>3. CASE b \notin due
    <3>1. Stays(b)
      BY <2>1, <2>3 DEF RequestAction, Stays
    <3>2. SameTarget(actions[b], i, g, t) => actions[b].status \notin Active
      BY <2>3 DEF RequestAction
    <3>3. QED
      BY <3>1, <3>2, StaysMoves DEF Stays
  <2>4. QED
    BY <2>2, <2>3
<1>2. /\ actions'[a] = NewRow(i, g, t, h, ttl)
      /\ approvals'[a] = [status |-> "pending", expiresAt |-> now + ttl]
  BY DEF RequestAction
<1>3. IsNew(a) /\ SameTarget(actions'[a], i, g, t)
  BY <1>2 DEF IsNew, NewRow, RequestAction, IncidentEnablesAction, SameTarget
<1>4. QED
  BY <1>1, <1>3

LEMMA PutMoves ==
    ASSUME NEW a \in Ids, NEW row, NEW ap, Put(a, row, ap), TypeOK
    PROVE  /\ actions'[a] = row /\ approvals'[a] = ap
           /\ \A b \in Ids : b # a => Stays(b)
  BY DEF Put, Stays, TypeOK, Ids

LEMMA DecisionMoves ==
    ASSUME TypeOK, ApprovalAgrees, NEW a \in Ids, Approve(a) \/ Reject(a)
    PROVE  \A b \in Ids : Governed(b)
<1> DEFINE row == [actions[a] EXCEPT !.status = "approved", !.policyAllowed = TRUE]
           ap  == [approvals[a] EXCEPT !.status = "approved"]
           no  == [actions[a] EXCEPT !.status = "rejected"]
           noAp == [approvals[a] EXCEPT !.status = "rejected"]
<1>1. /\ actions[a] \in ActionRow /\ approvals[a] \in ApprovalRow
      /\ actions[a].status = "pending" /\ approvals[a].status = "pending"
  BY RowFacts DEF Approve, Reject, ApprovalAgrees, Authorised, Terminal
<1>2. \/ Put(a, Voided(actions[a], "expired"), VoidedApproval(approvals[a], "expired"))
      \/ Put(a, row, ap) /\ PolicyAllows(row, ap)
      \/ Put(a, Voided(row, "cancelled"), VoidedApproval(ap, "cancelled"))
      \/ Put(a, no, noAp)
  BY DEF Approve, Reject
<1>3. \A b \in Ids : b # a => Governed(b)
  BY <1>2, PutMoves, StaysMoves
<1>4. CASE Put(a, Voided(actions[a], "expired"), VoidedApproval(approvals[a], "expired"))
  BY <1>1, <1>3, <1>4, PutMoves, VoidedMoves DEF Undispatched
<1>5. CASE Put(a, row, ap) /\ PolicyAllows(row, ap)
  <2>1. actions'[a] = row /\ approvals'[a] = ap
    BY <1>5, PutMoves
  <2>2. EvidenceBound(actions[a])
    <3>1. EvidenceBound(row)
      BY <1>5 DEF PolicyAllows
    <3>2. /\ row.type = actions[a].type /\ row.handle = actions[a].handle
          /\ row.incident = actions[a].incident /\ row.agent = actions[a].agent
      BY <1>1 DEF ActionRow
    <3>3. QED
      BY <3>1, <3>2 DEF EvidenceBound
  <2>3. KeepsIdentity(a) /\ KeepsReport(a)
    BY <1>1, <2>1 DEF KeepsIdentity, KeepsReport, ActionRow, ApprovalRow
  <2>4. IsApproved(a)
    BY <1>1, <2>1, <2>2, <2>3 DEF IsApproved, ActionRow, ApprovalRow
  <2>5. QED
    BY <1>3, <2>3, <2>4 DEF Governed
<1>6. CASE Put(a, Voided(row, "cancelled"), VoidedApproval(ap, "cancelled"))
  <2>1. Voided(row, "cancelled") = Voided(actions[a], "cancelled")
    BY <1>1 DEF Voided, ActionRow
  <2>2. VoidedApproval(ap, "cancelled") = VoidedApproval(approvals[a], "cancelled")
    BY <1>1 DEF VoidedApproval, ApprovalRow
  <2>3. QED
    BY <1>1, <1>3, <1>6, <2>1, <2>2, PutMoves, VoidedMoves DEF Undispatched
<1>7. CASE Put(a, no, noAp)
  <2>1. actions'[a] = no /\ approvals'[a] = noAp
    BY <1>7, PutMoves
  <2>2. KeepsIdentity(a) /\ IsRejected(a)
    BY <1>1, <2>1 DEF KeepsIdentity, KeepsReport, IsRejected, ActionRow, ApprovalRow
  <2>3. QED
    BY <1>3, <2>2 DEF Governed
<1>8. QED
  BY <1>2, <1>4, <1>5, <1>6, <1>7

LEMMA PollPendingMoves ==
    ASSUME TypeOK, ApprovalAgrees, NEW g \in Agent, PollPending(g)
    PROVE  \A b \in Ids : Governed(b)
<1> SUFFICES ASSUME NEW b \in Ids PROVE Governed(b)
  OBVIOUS
<1> DEFINE row == actions[b]
           ap == approvals[b]
<1>1. row \in ActionRow /\ ap \in ApprovalRow
  BY RowFacts
<1>2. CASE row.agent = g /\ row.status \in {"approved", "dispatching"}
  <2>1. actions'[b] = PolledRow(row, ap) /\ approvals'[b] = PolledApproval(row, ap)
    BY <1>2 DEF PollPending
  <2>2. row.status \in Undispatched
    BY <1>2 DEF Undispatched
  <2>3. CASE Due(row)
    BY <2>1, <2>2, <2>3, VoidedMoves DEF PolledRow, PolledApproval
  <2>4. CASE ~Due(row) /\ ~PolicyAllows(row, ap)
    BY <2>1, <2>2, <2>4, VoidedMoves DEF PolledRow, PolledApproval
  <2>5. CASE ~Due(row) /\ PolicyAllows(row, ap)
    <3>1. /\ actions'[b] = [row EXCEPT !.status = "dispatching", !.policyAllowed = TRUE]
          /\ approvals'[b] = ap
      BY <2>1, <2>5 DEF PolledRow, PolledApproval
    <3>2. KeepsIdentity(b) /\ IsDispatched(b)
      BY <1>1, <1>2, <3>1 DEF KeepsIdentity, KeepsReport, IsDispatched, ActionRow
    <3>3. QED
      BY <3>2 DEF Governed
  <2>6. QED
    BY <2>3, <2>4, <2>5
<1>3. CASE ~(row.agent = g /\ row.status \in {"approved", "dispatching"})
  <2>1. Stays(b)
    BY <1>3 DEF PollPending, Stays
  <2>2. QED
    BY <2>1, StaysMoves
<1>4. QED
  BY <1>2, <1>3

LEMMA PostResultMoves ==
    ASSUME TypeOK, NEW g \in Agent, NEW a \in Ids, NEW p \in Reports(actions[a].type),
           PostResult(g, a, p)
    PROVE  \A b \in Ids : Moves(b)
<1>1. actions[a] \in ActionRow
  BY RowFacts
<1>2. /\ p \in Payload
      /\ p.startedAt # NoTime
      /\ p.status = "executing" => p.completedAt = NoTime
      /\ p.status \in Terminal => p.completedAt # NoTime
  BY <1>1, ReportsType DEF ActionRow
<1>3. \A b \in Ids : b # a => Moves(b)
  <2>1. \A b \in Ids : b # a => Stays(b)
    BY DEF PostResult, Stays, TypeOK, Ids
  <2>2. QED
    BY <2>1, StaysMoves DEF Moves
<1>4. CASE RepeatedReport(actions[a], p)
  <2>1. Stays(a)
    BY <1>4 DEF PostResult, Stays
  <2>2. QED
    BY <1>3, <2>1, StaysMoves DEF Moves
<1>5. CASE ~RepeatedReport(actions[a], p)
  <2>1. actions'[a] = RecordedRow(actions[a], p) /\ approvals'[a] = approvals[a]
    BY <1>5 DEF PostResult, TypeOK, Ids
  <2>2. NewReport(actions[a], p)
    BY <1>5 DEF PostResult, ResultAccepted
  <2>3. /\ KeepsIdentity(a)
        /\ actions'[a].status = p.status
        /\ actions'[a].startedAt = StartOf(actions[a], p)
        /\ actions'[a].completedAt = p.completedAt
        /\ actions'[a].policyAllowed = actions[a].policyAllowed
    BY <1>1, <2>1 DEF KeepsIdentity, RecordedRow, ActionRow
  <2>4. StartOf(actions[a], p) # NoTime
    BY <1>2 DEF StartOf
  <2>5. actions[a].startedAt # NoTime => StartOf(actions[a], p) = actions[a].startedAt
    BY DEF StartOf
  <2>6. IsReported(a)
    BY <1>2, <2>1, <2>2, <2>3, <2>4, <2>5 DEF IsReported, NewReport, Terminal
  <2>7. QED
    BY <1>3, <2>3, <2>6 DEF Moves
<1>6. QED
  BY <1>4, <1>5

-----------------------------------------------------------------------------
(* The inductive invariant *)

IInv ==
    /\ TypeOK
    /\ ApprovalAgrees
    /\ TimelineConsistent
    /\ ContainmentIsEvidenceBound
    /\ ClosedIncidentQuiet
    /\ DisabledAgentQuiet
    /\ OneActivePerTarget

\* The tables besides the actions that a step may change under them.
Environment ==
    /\ \A i \in Incident : IncidentAllowsResponse(i) =>
          \/ IncidentAllowsResponse(i)'
          \/ \A b \in Ids : actions[b].incident = i => actions'[b].status \notin Undispatched
    /\ \A g \in Agent : agents[g] = "enabled" =>
          \/ agents'[g] = "enabled"
          \/ \A b \in Ids : actions[b].agent = g => actions'[b].status \notin Undispatched

\* A step that adds an action leaves the two tables it depends on alone and
\* finds no active action of the same target.
Adds(a) ==
    /\ IsNew(a)
    /\ incidents' = incidents /\ agents' = agents
    /\ \A b \in Ids :
          SameTarget(actions[b], actions'[a].incident, actions'[a].agent, actions'[a].type)
          => actions'[b].status \notin Active

\* A step in which no endpoint reports.
Governs ==
    \/ AnalystNext
    \/ EnvironmentNext
    \/ \E g \in Agent : PollPending(g)
    \/ UNCHANGED vars

LEMMA GovernedStep ==
    ASSUME IInv, ConstantsAssumption, Governs
    PROVE  /\ \A b \in Ids : Governed(b)
           /\ Environment
           /\ \/ Ids' = Ids
              \/ \E a \in ActionId \ Ids : Ids' = Ids \cup {a} /\ Adds(a)
<1> USE DEF IInv
<1>1. ASSUME Tick \/ UNCHANGED vars
      PROVE  (\A b \in Ids : Governed(b)) /\ Environment /\ Ids' = Ids
  BY <1>1, StaysMoves DEF Tick, vars, Stays, Environment, Ids, IncidentAllowsResponse
<1>2. ASSUME NEW i \in Incident, NEW r \in SUBSET ActionType, NEW os \in OsFamily,
             IngestEvent(i, r, os)
      PROVE  (\A b \in Ids : Governed(b)) /\ Environment /\ Ids' = Ids
  <2>1. (\A b \in Ids : Governed(b)) /\ Ids' = Ids
    BY <1>2, StaysMoves DEF IngestEvent, Stays, Ids
  <2>2. \A j \in Incident : IncidentAllowsResponse(j) => IncidentAllowsResponse(j)'
    BY <1>2 DEF IngestEvent, IncidentAllowsResponse, TypeOK, IncidentRow, ActionableStatus
  <2>3. QED
    BY <1>2, <2>1, <2>2 DEF IngestEvent, Environment
<1>3. ASSUME NEW i \in Incident, NEW s \in IncidentStatus, PatchIncident(i, s)
      PROVE  (\A b \in Ids : Governed(b)) /\ Environment /\ Ids' = Ids
  <2> DEFINE S == {a \in Ids : actions[a].incident = i}
  <2>1. \A j \in Incident : j # i => incidents'[j] = incidents[j]
    BY <1>3 DEF PatchIncident, TypeOK
  <2>2. incidents'[i].status = s /\ agents' = agents
    BY <1>3 DEF PatchIncident, TypeOK, IncidentRow
  <2>3. CASE s \in ClosedStatus
    <3>1. VoidAll(S, "cancelled")
      BY <1>3, <2>3 DEF PatchIncident
    <3>2. \A b \in Ids : Governed(b) /\ (b \in S => actions'[b].status \notin Undispatched)
      BY <3>1, VoidAllMoves
    <3>3. Ids' = Ids
      BY <3>1 DEF VoidAll, Ids
    <3>4. QED
      BY <2>1, <2>2, <3>2, <3>3 DEF Environment, IncidentAllowsResponse
  <2>4. CASE s \notin ClosedStatus
    <3>1. \A b \in Ids : Governed(b)
      BY <1>3, <2>4, StaysMoves DEF PatchIncident, Stays
    <3>2. IncidentAllowsResponse(i)'
      BY <2>2, <2>4 DEF IncidentAllowsResponse, IncidentStatus
    <3>3. Ids' = Ids
      BY <1>3, <2>4 DEF PatchIncident, Ids
    <3>4. QED
      BY <2>1, <2>2, <3>1, <3>2, <3>3 DEF Environment, IncidentAllowsResponse
  <2>5. QED
    BY <2>3, <2>4
<1>4. ASSUME NEW g \in Agent, EnrollAgent(g) \/ EnableAgent(g)
      PROVE  (\A b \in Ids : Governed(b)) /\ Environment /\ Ids' = Ids
  <2>1. (\A b \in Ids : Governed(b)) /\ Ids' = Ids
    BY <1>4, StaysMoves DEF EnrollAgent, EnableAgent, Stays, Ids
  <2>2. \A h \in Agent : agents[h] = "enabled" => agents'[h] = "enabled"
    BY <1>4 DEF EnrollAgent, EnableAgent, TypeOK
  <2>3. QED
    BY <1>4, <2>1, <2>2 DEF EnrollAgent, EnableAgent, Environment, IncidentAllowsResponse
<1>5. ASSUME NEW g \in Agent, DisableAgent(g)
      PROVE  (\A b \in Ids : Governed(b)) /\ Environment /\ Ids' = Ids
  <2>1. VoidAll({a \in Ids : actions[a].agent = g}, "cancelled")
    BY <1>5 DEF DisableAgent
  <2>2. \A b \in Ids : /\ Governed(b)
                       /\ actions[b].agent = g => actions'[b].status \notin Undispatched
    BY <2>1, VoidAllMoves
  <2>3. Ids' = Ids
    BY <2>1 DEF VoidAll, Ids
  <2>4. \A h \in Agent : h # g => agents'[h] = agents[h]
    BY <1>5 DEF DisableAgent, TypeOK
  <2>5. QED
    BY <1>5, <2>2, <2>3, <2>4 DEF DisableAgent, Environment, IncidentAllowsResponse
<1>6. ASSUME NEW g \in Agent, NEW e \in SUBSET ActionType, ReportCapabilities(g, e)
      PROVE  (\A b \in Ids : Governed(b)) /\ Environment /\ Ids' = Ids
  BY <1>6, StaysMoves DEF ReportCapabilities, Stays, Environment, Ids, IncidentAllowsResponse
<1>7. ASSUME NEW a \in ActionId, NEW i \in Incident, NEW g \in Agent, NEW t \in ActionType,
             NEW h \in Handle \cup {NoHandle}, NEW ttl \in TTL,
             RequestAction(a, i, g, t, h, ttl)
      PROVE  /\ \A b \in Ids : Governed(b)
             /\ Environment
             /\ a \notin Ids /\ Ids' = Ids \cup {a} /\ Adds(a)
  <2>1. /\ \A b \in Ids : Governed(b)
        /\ IsNew(a)
        /\ SameTarget(actions'[a], i, g, t)
        /\ \A b \in Ids : SameTarget(actions[b], i, g, t) => actions'[b].status \notin Active
    BY <1>7, RequestActionMoves
  <2>2. a \notin Ids /\ Ids' = Ids \cup {a} /\ incidents' = incidents /\ agents' = agents
    BY <1>7 DEF RequestAction, Ids
  <2>3. Environment
    BY <2>2 DEF Environment, IncidentAllowsResponse
  <2>4. Adds(a)
    BY <2>1, <2>2 DEF Adds, SameTarget
  <2>5. QED
    BY <2>1, <2>2, <2>3, <2>4
<1>8. ASSUME NEW a \in Ids, Approve(a) \/ Reject(a)
      PROVE  (\A b \in Ids : Governed(b)) /\ Environment /\ Ids' = Ids
  <2>1. incidents' = incidents /\ agents' = agents /\ Ids' = Ids
    BY <1>8 DEF Approve, Reject, Put, TypeOK, Ids
  <2>2. QED
    BY <1>8, <2>1, DecisionMoves DEF Environment, IncidentAllowsResponse
<1>9. ASSUME NEW i \in Incident, ListActions(i)
      PROVE  (\A b \in Ids : Governed(b)) /\ Environment /\ Ids' = Ids
  <2>1. \A b \in Ids : Governed(b)
    BY <1>9, VoidAllMoves DEF ListActions
  <2>2. Ids' = Ids
    BY <1>9 DEF ListActions, VoidAll, Ids
  <2>3. QED
    BY <1>9, <2>1, <2>2 DEF ListActions, Environment, IncidentAllowsResponse
<1>10. ASSUME NEW g \in Agent, PollPending(g)
       PROVE  (\A b \in Ids : Governed(b)) /\ Environment /\ Ids' = Ids
  <2>1. incidents' = incidents /\ agents' = agents /\ Ids' = Ids
    BY <1>10 DEF PollPending, Ids
  <2>2. QED
    BY <1>10, <2>1, PollPendingMoves DEF Environment, IncidentAllowsResponse
<1>11. QED
  BY <1>1, <1>2, <1>3, <1>4, <1>5, <1>6, <1>7, <1>8, <1>9, <1>10
     DEF Governs, AnalystNext, EnvironmentNext

LEMMA StepMoves ==
    ASSUME IInv, ConstantsAssumption, [Next]_vars
    PROVE  /\ \A b \in Ids : Moves(b)
           /\ Environment
           /\ \/ Ids' = Ids
              \/ \E a \in ActionId \ Ids : Ids' = Ids \cup {a} /\ Adds(a)
<1>1. CASE Governs
  <2>1. \A b \in Ids : Governed(b) => Moves(b)
    BY DEF Moves
  <2>2. QED
    BY <1>1, <2>1, GovernedStep
<1>2. ASSUME NEW g \in Agent, NEW a \in Ids, NEW p \in Reports(actions[a].type),
             PostResult(g, a, p)
      PROVE  (\A b \in Ids : Moves(b)) /\ Environment /\ Ids' = Ids
  <2>1. incidents' = incidents /\ agents' = agents /\ Ids' = Ids
    BY <1>2 DEF PostResult, IInv, TypeOK, Ids
  <2>2. QED
    BY <1>2, <2>1, PostResultMoves DEF Environment, IncidentAllowsResponse, IInv
<1>3. QED
  BY <1>1, <1>2 DEF Governs, Next, EndpointNext

LEMMA Rows ==
    ASSUME IInv, ConstantsAssumption, [Next]_vars
    PROVE  /\ Ids \subseteq Ids'
           /\ \A b \in Ids' : \/ b \in Ids /\ Moves(b)
                              \/ b \notin Ids /\ Adds(b)
           /\ \A a, b \in Ids' \ Ids : a = b
           /\ Environment
  BY StepMoves

\* One row of ApprovalAgrees, by cases instead of as an equation of Booleans.
Agrees(row, ap) ==
    \/ row.status \in Authorised /\ row.policyAllowed = TRUE /\ ap.status = "approved"
    \/ row.status \notin Authorised /\ row.policyAllowed = FALSE /\ ap.status = row.status

LEMMA AgreesForm ==
    ASSUME NEW row, NEW ap
    PROVE  Agrees(row, ap) <=>
              /\ row.policyAllowed = (row.status \in Authorised)
              /\ ap.status = (IF row.status \in Authorised THEN "approved" ELSE row.status)
<1>1. CASE row.status \in Authorised
  <2>1. (row.status \in Authorised) = TRUE
    BY <1>1
  <2>2. QED
    BY <1>1, <2>1, Zenon DEF Agrees
<1>2. CASE row.status \notin Authorised
  <2>1. (row.status \in Authorised) = FALSE
    BY <1>2
  <2>2. QED
    BY <1>2, <2>1, Zenon DEF Agrees
<1>3. QED
  BY <1>1, <1>2

LEMMA ApprovalStep ==
    ASSUME IInv, ConstantsAssumption, [Next]_vars
    PROVE  ApprovalAgrees'
<1> SUFFICES ASSUME NEW b \in Ids'
             PROVE  /\ approvals'[b].expiresAt = actions'[b].expiresAt
                    /\ Agrees(actions'[b], approvals'[b])
  BY AgreesForm DEF ApprovalAgrees
<1>1. CASE b \notin Ids /\ Adds(b)
  BY <1>1 DEF Adds, IsNew, Agrees, Authorised, Terminal
<1>2. CASE b \in Ids /\ Moves(b)
  <2>1. approvals[b].expiresAt = actions[b].expiresAt /\ Agrees(actions[b], approvals[b])
    BY <1>2, AgreesForm DEF IInv, ApprovalAgrees
  <2>2. approvals'[b].expiresAt = actions'[b].expiresAt
    BY <1>2, <2>1 DEF Moves, Governed, KeepsIdentity
  <2>3. CASE Stays(b)
    BY <2>1, <2>2, <2>3 DEF Stays
  <2>4. CASE IsVoided(b)
    BY <2>2, <2>4 DEF IsVoided, Agrees, Authorised, Terminal
  <2>5. CASE IsRejected(b) \/ IsApproved(b)
    BY <2>1, <2>2, <2>5 DEF IsRejected, IsApproved, Agrees, Authorised, Terminal
  <2>6. CASE IsDispatched(b) \/ IsReported(b)
    BY <2>1, <2>2, <2>6 DEF IsDispatched, IsReported, Agrees, Authorised, Terminal
  <2>7. QED
    BY <1>2, <2>3, <2>4, <2>5, <2>6 DEF Moves, Governed
<1>3. QED
  BY <1>1, <1>2, Rows

LEMMA TimelineStep ==
    ASSUME IInv, ConstantsAssumption, [Next]_vars
    PROVE  TimelineConsistent'
<1> DEFINE Consistent(row) ==
              /\ (row.startedAt # NoTime) = (row.status \in {"executing"} \cup Terminal)
              /\ (row.completedAt # NoTime) = (row.status \in Terminal)
              /\ row.status \in Terminal => row.completedAt >= row.startedAt
<1> SUFFICES ASSUME NEW b \in Ids' PROVE Consistent(actions'[b])
  BY DEF TimelineConsistent
<1>1. CASE b \notin Ids /\ Adds(b)
  BY <1>1 DEF Adds, IsNew, Terminal
<1>2. CASE b \in Ids /\ Moves(b)
  <2>1. Consistent(actions[b])
    BY <1>2 DEF IInv, TimelineConsistent
  <2>2. CASE Stays(b)
    BY <2>1, <2>2 DEF Stays
  <2>3. CASE IsVoided(b) \/ IsRejected(b) \/ IsApproved(b) \/ IsDispatched(b)
    BY <2>1, <2>3 DEF IsVoided, IsRejected, IsApproved, IsDispatched, KeepsReport,
                      Terminal, Undispatched
  <2>4. CASE IsReported(b)
    BY <2>4 DEF IsReported, Terminal
  <2>5. QED
    BY <1>2, <2>2, <2>3, <2>4 DEF Moves, Governed
<1>3. QED
  BY <1>1, <1>2, Rows

\* A finished triage keeps its row, so what it lists stays evidence.
LEMMA EvidenceKept ==
    ASSUME IInv, ConstantsAssumption, [Next]_vars,
           NEW b \in Ids, EvidenceBound(actions[b]), KeepsIdentity(b)
    PROVE  EvidenceBound(actions[b])'
<1> SUFFICES ASSUME actions[b].type = Terminate
             PROVE  \E c \in Ids' : /\ actions'[c].type = Triage
                                    /\ actions'[c].status = "succeeded"
                                    /\ actions'[c].incident = actions'[b].incident
                                    /\ actions'[c].agent = actions'[b].agent
                                    /\ actions'[b].handle \in actions'[c].result
  BY DEF EvidenceBound, KeepsIdentity
<1>1. PICK c \in Ids : /\ actions[c].type = Triage
                       /\ actions[c].status = "succeeded"
                       /\ actions[c].incident = actions[b].incident
                       /\ actions[c].agent = actions[b].agent
                       /\ actions[b].handle \in actions[c].result
  BY DEF EvidenceBound
<1>2. Moves(c) /\ c \in Ids'
  BY Rows
<1>3. Stays(c)
  BY <1>1, <1>2 DEF Moves, Governed, IsVoided, IsRejected, IsApproved, IsDispatched, IsReported,
                    Undispatched
<1>4. QED
  BY <1>1, <1>2, <1>3 DEF Stays, KeepsIdentity

LEMMA ContainmentStep ==
    ASSUME IInv, ConstantsAssumption, [Next]_vars
    PROVE  ContainmentIsEvidenceBound'
<1> SUFFICES ASSUME NEW b \in Ids', actions'[b].status \in Authorised
             PROVE  EvidenceBound(actions[b])'
  BY DEF ContainmentIsEvidenceBound
<1>1. CASE b \notin Ids /\ Adds(b)
  BY <1>1 DEF Adds, IsNew, Authorised, Terminal
<1>2. CASE b \in Ids /\ Moves(b)
  <2>1. actions[b].status \in Authorised \/ EvidenceBound(actions[b])
    BY <1>2 DEF Moves, Governed, Stays, IsVoided, IsRejected, IsApproved, IsDispatched, IsReported,
                Authorised, Terminal
  <2>2. EvidenceBound(actions[b])
    BY <1>2, <2>1 DEF IInv, ContainmentIsEvidenceBound
  <2>3. QED
    BY <1>2, <2>2, EvidenceKept DEF Moves, Governed
<1>3. QED
  BY <1>1, <1>2, Rows

LEMMA QuietStep ==
    ASSUME IInv, ConstantsAssumption, [Next]_vars
    PROVE  ClosedIncidentQuiet' /\ DisabledAgentQuiet'
<1> SUFFICES ASSUME NEW b \in Ids', actions'[b].status \in Undispatched
             PROVE  /\ IncidentAllowsResponse(actions[b].incident)'
                    /\ agents'[actions'[b].agent] = "enabled"
  BY DEF ClosedIncidentQuiet, DisabledAgentQuiet
<1>1. CASE b \notin Ids /\ Adds(b)
  BY <1>1 DEF Adds, IsNew, IncidentAllowsResponse
<1>2. CASE b \in Ids /\ Moves(b)
  <2>1. KeepsIdentity(b) /\ actions[b].status \in Undispatched
    BY <1>2 DEF Moves, Governed, Stays, IsVoided, IsRejected, IsApproved, IsDispatched, IsReported,
                Undispatched, Terminal
  <2>2. IncidentAllowsResponse(actions[b].incident) /\ agents[actions[b].agent] = "enabled"
    BY <1>2, <2>1 DEF IInv, ClosedIncidentQuiet, DisabledAgentQuiet
  <2>3. actions[b].incident \in Incident /\ actions[b].agent \in Agent
    BY <1>2, RowFacts DEF IInv, ActionRow
  <2>4. Environment
    BY Rows
  <2>5. IncidentAllowsResponse(actions[b].incident)' /\ agents'[actions[b].agent] = "enabled"
    <3> DEFINE i == actions[b].incident
               g == actions[b].agent
    <3>1. agents'[g] = "enabled"
      BY <1>2, <2>2, <2>3, <2>4 DEF Environment
    <3>2. incidents'[i].status \in ActionableStatus
      BY <1>2, <2>2, <2>3, <2>4 DEF Environment, IncidentAllowsResponse
    <3>3. QED
      BY <2>1, <3>1, <3>2 DEF IncidentAllowsResponse, KeepsIdentity
  <2>6. QED
    BY <2>1, <2>5 DEF KeepsIdentity, IncidentAllowsResponse
<1>3. QED
  BY <1>1, <1>2, Rows

LEMMA ExclusiveStep ==
    ASSUME IInv, ConstantsAssumption, [Next]_vars
    PROVE  OneActivePerTarget'
<1> DEFINE Same(r, s) == SameTarget(s, r.incident, r.agent, r.type)
<1> SUFFICES ASSUME NEW a \in Ids', NEW b \in Ids',
                    actions'[a].status \in Active,
                    actions'[b].status \in Active,
                    Same(actions'[a], actions'[b])
             PROVE  a = b
  BY DEF OneActivePerTarget, SameTarget
<1>1. Same(actions'[b], actions'[a])
  BY DEF SameTarget
<1>2. \A c \in Ids : Moves(c) => KeepsIdentity(c)
  BY DEF Moves, Governed
<1>3. CASE a \in Ids /\ b \in Ids
  <2>1. Moves(a) /\ Moves(b)
    BY <1>3, Rows
  <2>2. actions[a].status \in Active /\ actions[b].status \in Active
    BY <2>1 DEF Moves, Governed, Stays, IsVoided, IsRejected, IsApproved, IsDispatched, IsReported,
                Active, Undispatched, Terminal
  <2>3. Same(actions[a], actions[b])
    BY <1>2, <1>3, <2>1 DEF SameTarget, KeepsIdentity
  <2>4. QED
    BY <1>3, <2>2, <2>3 DEF IInv, OneActivePerTarget, SameTarget
<1>4. CASE a \notin Ids /\ b \in Ids
  BY <1>2, <1>4, Rows DEF Adds, SameTarget, KeepsIdentity
<1>5. CASE a \in Ids /\ b \notin Ids
  BY <1>1, <1>2, <1>5, Rows DEF Adds, SameTarget, KeepsIdentity
<1>6. CASE a \notin Ids /\ b \notin Ids
  BY <1>6, Rows
<1>7. QED
  BY <1>3, <1>4, <1>5, <1>6

LEMMA Inductive == IInv /\ ConstantsAssumption /\ [Next]_vars => IInv'
<1> SUFFICES ASSUME IInv, ConstantsAssumption, [Next]_vars PROVE IInv'
  OBVIOUS
<1>1. TypeOK'
  BY TypeInvariant DEF IInv
<1>2. QED
  BY <1>1, ApprovalStep, TimelineStep, ContainmentStep, QuietStep, ExclusiveStep DEF IInv

LEMMA InitIInv == ConstantsAssumption /\ Init => IInv
<1> SUFFICES ASSUME ConstantsAssumption, Init PROVE IInv
  OBVIOUS
<1>1. Ids = {}
  BY DEF Init, Ids
<1>2. QED
  BY <1>1, InitTypeOK DEF IInv, ApprovalAgrees, TimelineConsistent,
     ContainmentIsEvidenceBound, ClosedIncidentQuiet, DisabledAgentQuiet, OneActivePerTarget

LEMMA Invariant == Spec => []IInv
<1>1. Init => IInv
  BY ConstantsAssumption, InitIInv
<1>2. IInv /\ [Next]_vars => IInv'
  BY ConstantsAssumption, Inductive
<1>3. QED
  BY <1>1, <1>2, PTL DEF Spec

-----------------------------------------------------------------------------
(* What holds in every reachable state *)

\* Two credentials of a host, races and repeated requests never put two actions
\* of one target in flight.
THEOREM TargetsAreExclusive == Spec => []OneActivePerTarget
  BY Invariant, PTL DEF IInv

\* The approval and the action tables never drift apart.
THEOREM TablesAgree == Spec => []ApprovalAgrees
  BY Invariant, PTL DEF IInv

\* Neither a closed incident nor a disabled agent has an action that could
\* still begin.
THEOREM RevocationIsComplete == Spec => []RevokedIsQuiet
  BY Invariant, PTL DEF IInv, RevokedIsQuiet

\* A process is only terminated on the evidence of a finished triage of the
\* same incident and agent, which stays on record.
THEOREM EvidenceStands == Spec => []ContainmentIsEvidenceBound
  BY Invariant, PTL DEF IInv

\* The stored start and completion times are always those of one execution.
THEOREM TimelinesStand == Spec => []TimelineConsistent
  BY Invariant, PTL DEF IInv

-----------------------------------------------------------------------------
(* What a step may not do *)

\* Acknowledging execution checks neither the incident nor the approval; the
\* cancellations of every other handler make up for it.
THEOREM StartsAreAuthorised == Spec => ExecutionStartsAuthorised
<1>1. IInv /\ ConstantsAssumption /\ [Next]_vars => [\A a \in Ids : StartsAuthorised(a)]_vars
  <2> SUFFICES ASSUME IInv, ConstantsAssumption, [Next]_vars, NEW a \in Ids,
                      actions[a].status # "executing", actions'[a].status = "executing"
               PROVE  /\ actions[a].status = "dispatching"
                      /\ approvals[a].status = "approved"
                      /\ agents[actions[a].agent] = "enabled"
                      /\ IncidentAllowsResponse(actions[a].incident)
    BY DEF StartsAuthorised
  <2>1. Moves(a)
    BY Rows
  <2>2. actions[a].status = "dispatching"
    BY <2>1 DEF Moves, Governed, Stays, IsVoided, IsRejected, IsApproved, IsDispatched, IsReported, Terminal
  <2>3. QED
    BY <2>2 DEF IInv, ApprovalAgrees, Authorised, DisabledAgentQuiet, ClosedIncidentQuiet,
                Undispatched
<1>2. QED
  BY <1>1, ConstantsAssumption, Invariant, PTL DEF Spec, ExecutionStartsAuthorised

\* No handler revives a dead action, rewrites an outcome, takes back an
\* execution or moves its start.
THEOREM HistoryStands == Spec => HistoryIsKept
<1>1. IInv /\ ConstantsAssumption /\ [Next]_vars => [\A a \in Ids : HistoryKept(a)]_vars
  <2> SUFFICES ASSUME IInv, ConstantsAssumption, [Next]_vars, NEW a \in Ids
               PROVE  HistoryKept(a)
    OBVIOUS
  <2>1. Moves(a) /\ a \in Ids'
    BY Rows
  <2>2. actions[a].status \notin Active => Stays(a)
    BY <2>1 DEF Moves, Governed, IsVoided, IsRejected, IsApproved, IsDispatched, IsReported,
                Active, Undispatched
  <2>3. ASSUME actions[a].status = "executing"
        PROVE  /\ actions'[a].status \in {"executing"} \cup Terminal
               /\ actions'[a].startedAt = actions[a].startedAt
    <3>1. Stays(a) \/ IsReported(a)
      BY <2>1, <2>3 DEF Moves, Governed, IsVoided, IsRejected, IsApproved, IsDispatched, Undispatched
    <3>2. actions[a].startedAt # NoTime
      BY <2>3 DEF IInv, TimelineConsistent
    <3>3. QED
      BY <2>3, <3>1, <3>2 DEF Stays, IsReported
  <2>4. QED
    BY <2>1, <2>2, <2>3 DEF HistoryKept, Stays, Ids
<1>2. QED
  BY <1>1, ConstantsAssumption, Invariant, PTL DEF Spec, HistoryIsKept

-----------------------------------------------------------------------------
(* The tables implement the contract *)

Stage == [a \in ActionId |-> IF a \in Ids THEN actions[a].status ELSE "none"]
TargetOf(row) == <<row.incident, HostOf[row.agent], row.type>>
Targets == [a \in ActionId |-> IF a \in Ids THEN {TargetOf(actions[a])} ELSE {}]

StagesExclude ==
    \A a, b \in ActionId :
        Stage[a] \in Active /\ Stage[b] \in Active /\ Targets[a] = Targets[b] => a = b

LEMMA ContractExclusive == IInv => StagesExclude
<1> SUFFICES ASSUME IInv, NEW a \in ActionId, NEW b \in ActionId,
                    Stage[a] \in Active, Stage[b] \in Active, Targets[a] = Targets[b]
             PROVE  a = b
  BY DEF StagesExclude
<1>1. /\ a \in Ids /\ b \in Ids
      /\ actions[a].status \in Active /\ actions[b].status \in Active
  BY DEF Stage, Active, Undispatched
<1>2. TargetOf(actions[a]) = TargetOf(actions[b])
  BY <1>1 DEF Targets
<1>3. /\ actions[a].incident = actions[b].incident
      /\ HostOf[actions[a].agent] = HostOf[actions[b].agent]
      /\ actions[a].type = actions[b].type
  BY <1>2 DEF TargetOf
<1>4. QED
  BY <1>1, <1>3 DEF IInv, OneActivePerTarget

LEMMA ContractStage ==
    ASSUME IInv, ConstantsAssumption, [Next]_vars, NEW a \in ActionId
    PROVE  /\ Stage'[a] \in {Stage[a]} \cup Contract!Successors(Stage[a])
           /\ IF Stage[a] = "none" /\ Stage'[a] # "none"
              THEN Targets'[a] # {}
              ELSE Targets'[a] = Targets[a]
<1>1. CASE a \in Ids
  <2>1. a \in Ids' /\ Moves(a)
    BY <1>1, Rows
  <2>2. Targets'[a] = Targets[a]
    BY <1>1, <2>1 DEF Targets, TargetOf, Moves, Governed, KeepsIdentity
  <2>3. actions[a].status # "none"
    BY <1>1, RowFacts DEF IInv, ActionRow, ActionStatus, Active, Undispatched, Terminal
  <2>4. Stage[a] = actions[a].status /\ Stage'[a] = actions'[a].status
    BY <1>1, <2>1 DEF Stage
  <2>5. actions'[a].status \in {actions[a].status} \cup Contract!Successors(actions[a].status)
    BY <2>1 DEF Moves, Governed, Stays, IsVoided, IsRejected, IsApproved, IsDispatched, IsReported,
                Contract!Successors, Undispatched, Terminal
  <2>6. QED
    BY <2>2, <2>3, <2>4, <2>5
<1>2. CASE a \notin Ids /\ a \in Ids'
  <2>1. actions'[a].status = "pending"
    BY <1>2, Rows DEF Adds, IsNew
  <2>2. Stage[a] = "none" /\ Stage'[a] = "pending" /\ Targets'[a] # {}
    BY <1>2, <2>1 DEF Stage, Targets
  <2>3. QED
    BY <2>2 DEF Contract!Successors
<1>3. CASE a \notin Ids /\ a \notin Ids'
  BY <1>3 DEF Stage, Targets
<1>4. QED
  BY <1>1, <1>2, <1>3, Rows

StagesTyped ==
    /\ Stage \in [ActionId -> {"none", "rejected", "cancelled", "expired",
                               "succeeded", "failed"} \cup Active]
    /\ Targets \in [ActionId -> {{}} \cup {{t} : t \in Incident \X Host \X ActionType}]

LEMMA ContractTypes == IInv /\ ConstantsAssumption => StagesTyped
<1> SUFFICES ASSUME TypeOK, ConstantsAssumption, NEW a \in ActionId
             PROVE  /\ Stage[a] \in {"none", "rejected", "cancelled", "expired",
                                      "succeeded", "failed"} \cup Active
                    /\ Targets[a] \in {{}} \cup {{t} : t \in Incident \X Host \X ActionType}
  BY DEF Stage, Targets, IInv, StagesTyped
<1>1. CASE a \in Ids
  <2>1. actions[a] \in ActionRow
    BY <1>1, RowFacts
  <2>2. Stage[a] \in ActionStatus
    BY <1>1, <2>1 DEF Stage, ActionRow
  <2>3. TargetOf(actions[a]) \in Incident \X Host \X ActionType
    BY <2>1 DEF TargetOf, ActionRow, ConstantsAssumption
  <2>4. QED
    BY <1>1, <2>2, <2>3 DEF Targets, ActionStatus, Terminal
<1>2. CASE a \notin Ids
  BY <1>2 DEF Stage, Targets
<1>3. QED
  BY <1>1, <1>2

LEMMA StagesSound == IInv => StagesTyped /\ StagesExclude
  BY ConstantsAssumption, ContractTypes, ContractExclusive

\* Every step of the tables is a step of the contract: an action only ever
\* takes the edges of the lifecycle, keeps its target, and shares it with no
\* other live action.
THEOREM ImplementsContract == Spec => ContractSpec
<1>1. Init /\ ConstantsAssumption => Contract!Init
  BY DEF Init, Contract!Init, Ids
<1>2. IInv /\ ConstantsAssumption /\ [Next]_vars => [Contract!Advance]_(Contract!contractVars)
  <2> SUFFICES ASSUME IInv, ConstantsAssumption, [Next]_vars
               PROVE  Contract!Advance
    OBVIOUS
  <2>1. IInv'
    BY Inductive
  <2>2. StagesTyped' /\ StagesExclude'
    BY <2>1, StagesSound, PTL
  <2>3. QED
    BY <2>2, ContractStage
       DEF StagesTyped, StagesExclude, Contract!Advance, Contract!Exclusive, Contract!Live, Active, Undispatched,
           Stage, Targets, TargetOf
<1>3. QED
  BY <1>1, <1>2, ConstantsAssumption, Invariant, PTL DEF Spec, ContractSpec, Contract!Spec
=============================================================================
