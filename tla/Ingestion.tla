-------------------------------- MODULE Ingestion --------------------------------
(***************************************************************************)
(* Ingestion of events and their correlation into incidents.               *)
(*                                                                         *)
(* Requests run one at a time, so a handler is one action, and a refused   *)
(* request (no credential for the host, an event dated ahead, an id that   *)
(* is known) is a stuttering step: only the audit log hears of it.         *)
(*                                                                         *)
(* An event's content is reduced to what the handler reads: when it was    *)
(* observed and where, how severe it is, and its traits.  A trait pairs a  *)
(* reason of correlation_reasons (a shared category, process, path,        *)
(* destination, persistence mechanism) with a normalised value.            *)
(***************************************************************************)
EXTENDS Naturals, FiniteSets, FiniteSetsExt

CONSTANTS
    EventId,
    Incident,       \* keys of the incidents table, in the order of their text
    Host,
    Enrolled,       \* the hosts with an enabled credential
    Content,
    Window,         \* correlation_window_seconds
    RecentLimit,    \* how many events correlation looks at: 100
    ReplayWindow,   \* how far ahead of the server an event may be dated
    OpenSensors,    \* development mode accepts sensors without a credential
    MaxTime         \* bound of the modelled clock

Label == {"category", "process id", "executable", "file", "destination", "persistence"}
Trait == Label \X Nat

ASSUME IngestionAssumption ==
    /\ Incident \subseteq Nat
    /\ Enrolled \subseteq Host
    /\ Content \subseteq [host : Host, at : Nat, traits : SUBSET Trait,
                          severity : Nat, quietward : BOOLEAN]
    /\ Window \in Nat /\ ReplayWindow \in Nat /\ MaxTime \in Nat
    /\ RecentLimit \in Nat \ {0}
    /\ OpenSensors \in BOOLEAN

VARIABLES
    events,         \* the events table: content and incident of each accepted id
    incidents,      \* the incidents table
    hosts,          \* when each host record was first and last seen
    now             \* the server's clock

vars == <<events, incidents, hosts, now>>

-----------------------------------------------------------------------------
(* Tables *)

ActionableStatus == {"new", "investigating", "contained"}
ClosedStatus == {"resolved", "dismissed"}

EventRow == [content : Content, incident : Incident]
IncidentRow ==
    [status : ActionableStatus \cup ClosedStatus, severity : Nat, count : Nat,
     first : Nat, last : Nat, hosts : SUBSET Host, reasons : SUBSET Label]
HostRow == [first : Nat, last : Nat]

Accepted == DOMAIN events
Opened == DOMAIN incidents
EventsIn(i) == {e \in Accepted : events[e].incident = i}
Of(e) == events[e].content
ContentsIn(i) == {Of(e) : e \in EventsIn(i)}
Observed == {Of(e) : e \in Accepted}

TypeOK ==
    /\ Accepted \subseteq EventId /\ events \in [Accepted -> EventRow]
    /\ Opened \subseteq Incident /\ incidents \in [Opened -> IncidentRow]
    /\ DOMAIN hosts \subseteq Host /\ hosts \in [DOMAIN hosts -> HostRow]
    /\ \A e \in Accepted : events[e].incident \in Opened /\ Of(e).host \in DOMAIN hosts
    /\ now \in Nat

Init ==
    /\ events = [e \in {} |-> e]
    /\ incidents = [i \in {} |-> i]
    /\ hosts = [h \in {} |-> h]
    /\ now = 0

-----------------------------------------------------------------------------
(* Correlation.  A definition marked "Fault" is no part of the model: it is *)
(* the one after it as a plausible mistake would make it.                   *)

Reasons(c, d) == {t[1] : t \in c.traits \cap d.traits}

Near(c, d) == c.at <= d.at + Window /\ d.at <= c.at + Window

\* Fault: incidents of every status attract events.
NearbyEver(c) == {e \in Accepted : Of(e).host = c.host /\ Near(c, Of(e))}

\* Fault: the query forgets the host.
NearbyAnywhere(c) ==
    {e \in Accepted : /\ Near(c, Of(e))
                      /\ incidents[events[e].incident].status \in ActionableStatus}

Nearby(c) ==
    {e \in Accepted : /\ Of(e).host = c.host
                      /\ Near(c, Of(e))
                      /\ incidents[events[e].incident].status \in ActionableStatus}

\* The events the query returns: the latest ones, ties in any order.
Recent(c) ==
    {R \in SUBSET Nearby(c) :
        /\ Cardinality(R) = Min({RecentLimit, Cardinality(Nearby(c))})
        /\ \A r \in R, e \in Nearby(c) \ R : Of(r).at >= Of(e).at}

ReasonsFor(c, R, i) ==
    UNION {Reasons(c, Of(e)) : e \in {r \in R : events[r].incident = i}}

\* Fault: being on the same host is reason enough.
AnyCandidates(c, R) == {events[r].incident : r \in R}

Candidates(c, R) == {i \in Opened : ReasonsFor(c, R, i) # {}}

\* The candidate with the most reasons; the larger id decides between equals.
Selected(c, R) ==
    CHOOSE i \in Candidates(c, R) : \A j \in Candidates(c, R) :
        LET n == Cardinality(ReasonsFor(c, R, i))
            m == Cardinality(ReasonsFor(c, R, j))
        IN  n > m \/ (n = m /\ i >= j)

\* Fault: the summary is taken before the event is flushed.
StaleSummary(row, i, c) ==
    LET K == IF i \in Opened THEN ContentsIn(i) ELSE {c}
    IN  [row EXCEPT !.count    = Cardinality(EventsIn(i)),
                    !.first    = Min({k.at : k \in K}),
                    !.last     = Max({k.at : k \in K}),
                    !.hosts    = {k.host : k \in K},
                    !.severity = Max({k.severity : k \in K})]

\* _refresh_incident: the summary of the events of i and of one more, with content c.
Refreshed(row, i, c) ==
    LET K == ContentsIn(i) \cup {c}
    IN  [row EXCEPT !.count    = Cardinality(EventsIn(i)) + 1,
                    !.first    = Min({k.at : k \in K}),
                    !.last     = Max({k.at : k \in K}),
                    !.hosts    = {k.host : k \in K},
                    !.severity = Max({k.severity : k \in K})]

-----------------------------------------------------------------------------
(* Requests *)

\* receive_event: QuietWard speaks through a credential of the host and not of
\* the future; other sensors are only heard in development.
Admitted(c) ==
    \/ c.quietward /\ c.host \in Enrolled /\ c.at <= now + ReplayWindow
    \/ ~c.quietward /\ OpenSensors

\* Fault: a known id with another content is an update.
NewOrChanged(id, c) == id \in Accepted => Of(id) # c

\* A repeat and a conflict change nothing.
Unknown(id, c) == id \notin Accepted

\* Add the event to incident i, whose row is then refreshed.
Assign(id, c, i, row) ==
    /\ events' = [e \in Accepted \cup {id} |->
            IF e = id THEN [content |-> c, incident |-> i] ELSE events[e]]
    /\ incidents' = [j \in Opened \cup {i} |->
            IF j = i THEN Refreshed(row, i, c) ELSE incidents[j]]

Join(id, c, R) ==
    LET i == Selected(c, R)
    IN  Assign(id, c, i, [incidents[i] EXCEPT !.reasons = @ \cup ReasonsFor(c, R, i)])

Open(id, c) ==
    \E i \in Incident \ Opened :
        Assign(id, c, i, [status |-> "new", severity |-> c.severity, count |-> 1,
                          first |-> c.at, last |-> c.at, hosts |-> {c.host},
                          reasons |-> {}])

SeeHost(c) ==
    hosts' = [h \in DOMAIN hosts \cup {c.host} |->
        IF h # c.host THEN hosts[h]
        ELSE IF h \notin DOMAIN hosts THEN [first |-> c.at, last |-> c.at]
        ELSE [first |-> Min({hosts[h].first, c.at}), last |-> Max({hosts[h].last, c.at})]]

Ingest(id, c) ==
    /\ Admitted(c)
    /\ Unknown(id, c)
    /\ \E R \in Recent(c) : IF Candidates(c, R) # {} THEN Join(id, c, R) ELSE Open(id, c)
    /\ SeeHost(c)
    /\ UNCHANGED now

\* PATCH /incidents/{id}.  Whether a closure is let through is decided by the
\* module Recovery: here it may always be.
UpdateIncident(i, status, severity) ==
    /\ incidents' = [incidents EXCEPT ![i].status = status, ![i].severity = severity]
    /\ UNCHANGED <<events, hosts, now>>

Tick ==
    /\ now < MaxTime
    /\ now' = now + 1
    /\ UNCHANGED <<events, incidents, hosts>>

Severity == {c.severity : c \in Content}

Next ==
    \/ \E id \in EventId, c \in Content : Ingest(id, c)
    \/ \E i \in Opened, s \in ActionableStatus \cup ClosedStatus, v \in Severity :
           UpdateIncident(i, s, v)
    \/ Tick

Spec == Init /\ [][Next]_vars

-----------------------------------------------------------------------------
(* Properties *)

\* What an incident says of its evidence is what its events say, and they are
\* all of one host: the response actions and recovery cases of an incident take
\* its host from them (_refresh_incident, request_action).  A host record spans
\* exactly the times of its events.
SummariesAgree ==
    /\ \A i \in Opened :
        LET K == ContentsIn(i)
        IN  /\ EventsIn(i) # {}
            /\ incidents[i].count = Cardinality(EventsIn(i))
            /\ incidents[i].first = Min({k.at : k \in K})
            /\ incidents[i].last = Max({k.at : k \in K})
            /\ \E h \in Host : incidents[i].hosts = {h} /\ {k.host : k \in K} = {h}
    /\ \A h \in DOMAIN hosts :
        LET T == {k.at : k \in {x \in Observed : x.host = h}}
        IN  T # {} /\ hosts[h] = [first |-> Min(T), last |-> Max(T)]

Linked(a, b) == Of(a).host = Of(b).host /\ Near(Of(a), Of(b)) /\ Reasons(Of(a), Of(b)) # {}

\* Incidents are explained: the events of one hang together by links of a host,
\* a window and a shared trait, in whatever order they came, and every recorded
\* reason is one that two of its events share (correlate_event).
IncidentsAreExplained ==
    \A i \in Opened :
        /\ \A S \in SUBSET EventsIn(i) :
              S \notin {{}, EventsIn(i)} => \E a \in S, b \in EventsIn(i) \ S : Linked(a, b)
        /\ \A r \in incidents[i].reasons :
              \E a, b \in EventsIn(i) : a # b /\ Linked(a, b) /\ r \in Reasons(Of(a), Of(b))

\* New evidence surfaces: an accepted event is in an incident an analyst can act
\* on, never in a closed one, whose evidence and summary stay as they were closed
\* on (correlate_event, assert_closure).
NewEvidenceSurfaces ==
    [][/\ \A e \in Accepted' \ Accepted :
             incidents'[events'[e].incident].status \in ActionableStatus
       /\ \A i \in Opened : incidents[i].status \in ClosedStatus =>
             /\ EventsIn(i)' = EventsIn(i)
             /\ incidents'[i].count = incidents[i].count]_vars

\* Ingestion is what its senders rely on: ids keep their content for ever.
Log == INSTANCE EventLog WITH log <- [e \in Accepted |-> Of(e)]
LogSpec == Log!Spec
=============================================================================
