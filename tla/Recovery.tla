-------------------------------- MODULE Recovery --------------------------------
(***************************************************************************)
(* The guided recovery of one incident (services/resolution_service.py).   *)
(*                                                                         *)
(* An incident has the events of one host, so its recovery scopes are the  *)
(* categories of its events.  Every request that changes a case carries    *)
(* the revision its analyst has read and is refused when the case has      *)
(* moved on: a step is taken by an analyst whose screen shows the current  *)
(* revision.  The digests are modelled as what they digest.                *)
(***************************************************************************)
EXTENDS Naturals, FiniteSets, FiniteSetsExt

CONSTANTS
    Analyst,        \* the named analysts, known_analysts in the code
    Event,          \* events that may belong to the incident
    Category,       \* source categories
    CategoryOf,     \* the category of each event
    Family,         \* recovery families, one playbook each
    FamiliesOf,     \* the families a category may be routed to
    Artifact,       \* digests of the evidence analysts submit
    Version,        \* versions of the playbooks, by release of the server
    Steps,          \* the number of checkpoints of each playbook version
    Nobody,         \* an analyst column that is NULL
    Nothing,        \* an artifact column that is NULL
    MaxRevision     \* bound of the revisions of a case

ASSUME RecoveryAssumption ==
    /\ CategoryOf \in [Event -> Category]
    /\ FamiliesOf \in [Category -> SUBSET Family]
    /\ Steps \in [Family -> [Version -> Nat \ {0}]]
    /\ Nobody \notin Analyst
    /\ Nothing \notin Artifact
    /\ MaxRevision \in Nat

VARIABLES
    status,         \* the status of the incident
    events,         \* its events so far
    cases,          \* the recovery cases, a function on the scopes started
    playbook,       \* the version of each playbook that the server runs with
    busy,           \* whether the incident has active endpoint actions
    screen,         \* the cases as some analyst has read them
    shown           \* history: the artifacts each case has been given

recoveryVars == <<status, events, cases, playbook, busy, screen, shown>>

OpenStatus == {"new", "investigating", "contained"}
ClosedStatus == {"resolved", "dismissed"}

CaseState == {"awaiting_approval", "approved", "in_progress", "blocked",
              "awaiting_verification", "verified", "escalated"}

Case ==
    [family : Family, state : CaseState, revision : Nat,
     owner : Analyst, approver : Analyst \cup {Nobody}, verifier : Analyst \cup {Nobody},
     context : SUBSET Event, playbook : Version,
     baseline : Artifact, receipts : SUBSET Artifact, done : Nat,
     attested : Artifact \cup {Nothing},
     assigned : Analyst \cup {Nobody}, acknowledged : BOOLEAN]

IsCases(cs) == DOMAIN cs \subseteq Category /\ cs \in [DOMAIN cs -> Case]

TypeOK ==
    /\ status \in OpenStatus \cup ClosedStatus
    /\ events \subseteq Event
    /\ IsCases(cases)
    /\ playbook \in [Family -> Version]
    /\ busy \in BOOLEAN
    /\ IsCases(screen)
    /\ shown \in [Category -> SUBSET Artifact]

Init ==
    /\ status = "new"
    /\ \E e \in Event : events = {e}
    /\ cases = [c \in {} |-> <<>>]
    /\ playbook \in [Family -> Version]
    /\ busy = FALSE
    /\ screen = cases
    /\ shown = [c \in Category |-> {}]

Scopes == {CategoryOf[e] : e \in events}
Started == DOMAIN cases

-----------------------------------------------------------------------------
(* Around the workflows *)

\* Another event of the host joins the incident, while it is actionable.
IngestEvent(e) ==
    /\ status \in OpenStatus
    /\ e \notin events
    /\ events' = events \cup {e}
    /\ UNCHANGED <<status, cases, playbook, busy, screen, shown>>

\* The server is restarted with another release of the playbooks.
Release(f, v) ==
    /\ playbook' = [playbook EXCEPT ![f] = v]
    /\ UNCHANGED <<status, events, cases, busy, screen, shown>>

\* The endpoint actions of the incident, as ActionLifecycle has them: they begin
\* on an actionable incident and end on their own.
ActionsChange ==
    /\ busy \/ status \in OpenStatus
    /\ busy' = ~busy
    /\ UNCHANGED <<status, events, cases, playbook, screen, shown>>

\* An analyst reads the cases and does something else first.
Read ==
    /\ screen' = cases
    /\ UNCHANGED <<status, events, cases, playbook, busy, shown>>

-----------------------------------------------------------------------------
(* The workflow of one scope *)

\* Fault: the playbook is taken for a constant.
FreshEvidence(case) == case.context = events

\* Approvals, checkpoints and verifications are refused when the evidence or the
\* playbook is no longer what the case was planned on.
Fresh(case) == case.playbook = playbook[case.family] /\ case.context = events

\* Fault: only a new state is a new revision.
CommitState(c, case) ==
    /\ case.revision < MaxRevision
    /\ cases' = [cases EXCEPT ![c] = [case EXCEPT
          !.revision = IF case.state = cases[c].state THEN @ ELSE @ + 1]]

\* What _commit writes: the changed case under the next revision.
Commit(c, case) ==
    /\ case.revision < MaxRevision
    /\ cases' = [cases EXCEPT ![c] = [case EXCEPT !.revision = @ + 1]]

\* A request about case c of an open incident, seen at its current revision.
OnCase(c) == c \in Started /\ status \in OpenStatus

Show(c, artifact) == shown' = [shown EXCEPT ![c] = @ \cup {artifact}]

NewCase(f, x, baseline) ==
    [family |-> f, state |-> "awaiting_approval", revision |-> 1,
     owner |-> x, approver |-> Nobody, verifier |-> Nobody,
     context |-> events, playbook |-> playbook[f],
     baseline |-> baseline, receipts |-> {}, done |-> 0,
     attested |-> Nothing, assigned |-> Nobody, acknowledged |-> FALSE]

\* One case per scope that the incident's evidence shows.
Start(c, f, x, baseline) ==
    /\ status \in OpenStatus
    /\ c \in Scopes \ Started
    /\ f \in FamiliesOf[c]
    /\ cases' = [d \in Started \cup {c} |->
                    IF d = c THEN NewCase(f, x, baseline) ELSE cases[d]]
    /\ status' = IF status = "new" THEN "investigating" ELSE status
    /\ Show(c, baseline)
    /\ UNCHANGED <<events, playbook, busy, screen>>

Approve(c, x) ==
    /\ OnCase(c)
    /\ Fresh(cases[c])
    /\ cases[c].state = "awaiting_approval"
    /\ x # cases[c].owner
    /\ Commit(c, [cases[c] EXCEPT !.state = "approved", !.approver = x])
    /\ UNCHANGED <<status, events, playbook, busy, screen, shown>>

\* The owner records the next checkpoint; one that failed blocks the case.
RecordCheckpoint(c, artifact, failed) ==
    LET case == cases[c]
        needed == Steps[case.family][playbook[case.family]]
    IN  /\ OnCase(c)
        /\ Fresh(case)
        /\ case.state \in {"approved", "in_progress"}
        /\ case.done < needed
        /\ Commit(c, [case EXCEPT
              !.done = @ + 1,
              !.receipts = @ \cup {artifact},
              !.state = IF failed THEN "blocked"
                        ELSE IF case.done + 1 = needed THEN "awaiting_verification"
                        ELSE "in_progress"])
        /\ Show(c, artifact)
        /\ UNCHANGED <<status, events, playbook, busy, screen>>

\* Somebody else attests the recovery with an artifact that the plan and its
\* checkpoints do not have.
Verify(c, x, artifact) ==
    LET case == cases[c]
    IN  /\ OnCase(c)
        /\ Fresh(case)
        /\ x # case.owner
        /\ case.state = "awaiting_verification"
        /\ case.done = Steps[case.family][playbook[case.family]]
        /\ artifact \notin {case.baseline} \cup case.receipts
        /\ Commit(c, [case EXCEPT !.state = "verified", !.verifier = x, !.attested = artifact])
        /\ UNCHANGED <<status, events, playbook, busy, screen, shown>>

Escalate(c, x) ==
    /\ OnCase(c)
    /\ cases[c].state \notin {"verified", "escalated"}
    /\ x # cases[c].owner
    /\ Commit(c, [cases[c] EXCEPT !.state = "escalated", !.assigned = x, !.acknowledged = FALSE])
    /\ UNCHANGED <<status, events, playbook, busy, screen, shown>>

\* The assigned analyst answers for the escalation; the case stays the owner's.
AcknowledgeEscalation(c) ==
    /\ OnCase(c)
    /\ cases[c].state = "escalated"
    /\ ~cases[c].acknowledged
    /\ Commit(c, [cases[c] EXCEPT !.acknowledged = TRUE])
    /\ UNCHANGED <<status, events, playbook, busy, screen, shown>>

\* The owner plans again, on the evidence at hand and with another baseline.
Rebaseline(c, f, baseline) ==
    /\ OnCase(c)
    /\ baseline # cases[c].baseline
    /\ f = cases[c].family \/ f \in FamiliesOf[c]
    /\ Commit(c, [NewCase(f, cases[c].owner, baseline) EXCEPT !.revision = cases[c].revision])
    /\ Show(c, baseline)
    /\ UNCHANGED <<status, events, playbook, busy, screen>>

-----------------------------------------------------------------------------
(* Closure *)

\* Fault: what has been started is recovered, and nobody asks for the rest.
RecoveredCases ==
    /\ \A c \in Started : Fresh(cases[c]) /\ cases[c].state = "verified"
    /\ ~busy

\* Every scope has its own verified and current case, and no endpoint action of
\* the incident is under way.
Recovered ==
    /\ Scopes # {} /\ Started = Scopes
    /\ \A c \in Started : /\ Fresh(cases[c])
                          /\ cases[c].state = "verified"
                          /\ cases[c].attested # Nothing
                          /\ cases[c].verifier \notin {Nobody, cases[c].owner}
    /\ ~busy

\* PATCH of the status.  An incident without cases is closed as before: what has
\* not begun of its actions is cancelled, an execution goes on.
PatchStatus(s) ==
    /\ s # status
    /\ status' = s
    /\ IF s \in ClosedStatus /\ Started # {} THEN Recovered ELSE TRUE
    /\ busy' \in IF s \in ClosedStatus THEN {FALSE, busy} ELSE {busy}
    /\ UNCHANGED <<events, cases, playbook, screen, shown>>

\* Fault: the latest revision stands for all of them.
Latest(cs) == IF DOMAIN cs = {} THEN 0 ELSE Max({cs[c].revision : c \in DOMAIN cs})

\* What the catalogue of an incident's cases amounts to, as one revision.
Total(cs) == MapThenSumSet(LAMBDA c : cs[c].revision, DOMAIN cs)

\* The closure of all recovery, on the total that the analyst has read.
CloseVerified ==
    /\ status \in OpenStatus
    /\ Recovered
    /\ Total(screen) = Total(cases)
    /\ status' = "resolved"
    /\ UNCHANGED <<events, cases, playbook, busy, screen, shown>>

-----------------------------------------------------------------------------

CaseNext(c) ==
    \/ \E f \in Family, x \in Analyst, b \in Artifact : Start(c, f, x, b)
    \/ \E x \in Analyst : Approve(c, x) \/ Escalate(c, x)
    \/ \E a \in Artifact, failed \in BOOLEAN : RecordCheckpoint(c, a, failed)
    \/ \E x \in Analyst, a \in Artifact : Verify(c, x, a)
    \/ AcknowledgeEscalation(c)
    \/ \E f \in Family, b \in Artifact : Rebaseline(c, f, b)

Next ==
    \/ \E e \in Event : IngestEvent(e)
    \/ \E f \in Family, v \in Version : Release(f, v)
    \/ ActionsChange
    \/ Read
    \/ \E c \in Category : CaseNext(c)
    \/ \E s \in OpenStatus \cup ClosedStatus : PatchStatus(s)
    \/ CloseVerified

Spec == Init /\ [][Next]_recoveryVars

-----------------------------------------------------------------------------
(* Properties *)

Earned(case) ==
    /\ case.state \in {"approved", "in_progress", "blocked", "awaiting_verification", "verified"}
       => case.approver \in Analyst \ {case.owner}
    /\ case.state = "awaiting_approval" => case.approver = Nobody /\ case.done = 0
    /\ case.state \in {"awaiting_verification", "verified"}
       => case.done = Steps[case.family][case.playbook]
    /\ (case.state = "verified") = (case.verifier # Nobody)
    /\ case.verifier # case.owner

\* A case is in a state it has earned since it was last planned: whoever planned
\* it has neither approved nor verified it, and it is verified on as many
\* checkpoints as the playbook it was planned with asks for.
StateIsEarned == \A c \in Started : Earned(cases[c])

\* A closed incident that has cases is recovered, whichever of the two routes it
\* was closed by and whatever happens to it before it is opened again.
ClosedIsRecovered ==
    status \in ClosedStatus /\ Started # {} =>
        /\ Started = Scopes
        /\ \A c \in Started : cases[c].state = "verified" /\ cases[c].context = events
        /\ ~busy

\* What was read once is no longer what is there, or it is exactly that: the
\* revision that a request carries stands for all that its analyst has seen.
RevisionIdentifies ==
    \A c \in DOMAIN screen :
        /\ c \in Started
        /\ screen[c].revision = cases[c].revision => screen[c] = cases[c]

\* The same for the whole catalogue: a closure only carries the sum of the
\* revisions, and no step forward in one case makes up for another.
TotalIdentifies == Total(screen) = Total(cases) => screen = cases

\* A verification rests on a new artifact, one that its case has not seen before.
VerifiedOnNewArtifact ==
    \A c \in Started : cases[c].attested \notin shown[c]
=============================================================================
