----------------------------- MODULE IngestionProofs -----------------------------
(***************************************************************************)
(* Theorems about Ingestion and Guidance, for any number of hosts, events, *)
(* contents and incidents, any window and limit.                           *)
(*                                                                         *)
(* An accepted event either joins the incident that Selected names, which  *)
(* is actionable and holds an event it is linked to (SelectedIsLinked), or *)
(* opens one.  Both are Assign, whose effect is stated once for each       *)
(* invariant.                                                              *)
(***************************************************************************)
EXTENDS Guidance, FiniteSetTheorems, WellFoundedInduction, TLAPS

-----------------------------------------------------------------------------
(* Extremes of sets of numbers *)

LEMMA MinExists ==
    ASSUME NEW S \in SUBSET Nat, S # {}
    PROVE  Min(S) \in S /\ \A t \in S : Min(S) <= t
<1> DEFINE R == {ss \in Nat \X Nat : ss[1] < ss[2]}
<1>1. IsWellFoundedOn(R, Nat)
  BY NatLessThanWellFounded, Zenon DEF OpToRel
<1> HIDE DEF R
<1>2. PICK x \in S : \A y \in S : ~(<<y, x>> \in R)
  BY <1>1, WFMin, Zenon
<1>3. \A y \in S : x <= y
  <2> SUFFICES ASSUME NEW y \in S PROVE x <= y
    OBVIOUS
  <2>1. ~(y < x)
    BY <1>2 DEF R
  <2> QED
    BY <2>1
<1> QED
  BY <1>2, <1>3 DEF Min

\* A smallest set without a largest element would stay one without any element.
LEMMA MaxExists ==
    ASSUME NEW S \in SUBSET Nat, IsFiniteSet(S), S # {}
    PROVE  Max(S) \in S /\ \A t \in S : Max(S) >= t
<1> DEFINE Top(U) == \E m \in U : \A t \in U : m >= t
           Bad == {n \in Nat : \E U \in SUBSET S : U # {} /\ ~Top(U) /\ Cardinality(U) = n}
<1>1. ASSUME ~Top(S) PROVE FALSE
  <2>1. Cardinality(S) \in Bad
    BY <1>1, FS_CardinalityType
  <2>2. Min(Bad) \in Bad /\ \A n \in Bad : Min(Bad) <= n
    BY <2>1, MinExists
  <2>3. PICK U \in SUBSET S : U # {} /\ ~Top(U) /\ Cardinality(U) = Min(Bad)
    BY <2>2
  <2>4. PICK x \in U : TRUE
    BY <2>3
  <2>5. IsFiniteSet(U) /\ IsFiniteSet(U \ {x}) /\ Cardinality(U \ {x}) = Cardinality(U) - 1
        /\ Cardinality(U) \in Nat /\ Cardinality(U \ {x}) \in Nat
    BY <2>3, <2>4, FS_Subset, FS_RemoveElement, FS_CardinalityType
  <2>6. Cardinality(U \ {x}) \notin Bad
    <3> HIDE DEF Bad
    <3> QED BY <2>2, <2>3, <2>5
  <2>7. U \ {x} = {} \/ Top(U \ {x})
    BY <2>5, <2>6
  <2>8. CASE U \ {x} = {}
    BY <2>3, <2>4, <2>8
  <2>9. CASE Top(U \ {x})
    BY <2>3, <2>4, <2>9
  <2> QED
    BY <2>7, <2>8, <2>9
<1> QED
  BY <1>1 DEF Max

LEMMA MinOfMore ==
    ASSUME NEW S \in SUBSET Nat, S # {}, NEW t \in Nat
    PROVE  Min(S \cup {t}) = Min({Min(S), t})
<1> DEFINE a == Min(S)
           b == Min({a, t})
           d == Min(S \cup {t})
<1>1. a \in S /\ \A u \in S : a <= u
  BY MinExists
<1>2. b \in {a, t} /\ \A u \in {a, t} : b <= u
  BY <1>1, MinExists
<1>3. d \in S \cup {t} /\ \A u \in S \cup {t} : d <= u
  BY MinExists
<1> HIDE DEF a, b, d
<1>4. b = d
  BY <1>1, <1>2, <1>3
<1> QED
  BY <1>4 DEF a, b, d

LEMMA MaxOfMore ==
    ASSUME NEW S \in SUBSET Nat, IsFiniteSet(S), S # {}, NEW t \in Nat
    PROVE  Max(S \cup {t}) = Max({Max(S), t})
<1> DEFINE a == Max(S)
           b == Max({a, t})
           d == Max(S \cup {t})
<1>1. a \in S /\ \A u \in S : a >= u
  BY MaxExists
<1>2. IsFiniteSet({a, t}) /\ IsFiniteSet(S \cup {t})
  <2>1. IsFiniteSet({t} \cup {a})
    BY FS_AddElement, FS_Singleton
  <2>2. {t} \cup {a} = {a, t}
    OBVIOUS
  <2> QED
    BY <2>1, <2>2, FS_AddElement
<1>3. b \in {a, t} /\ \A u \in {a, t} : b >= u
  BY <1>1, <1>2, MaxExists
<1>4. d \in S \cup {t} /\ \A u \in S \cup {t} : d >= u
  BY <1>2, MaxExists
<1> HIDE DEF a, b, d
<1>5. b = d
  BY <1>1, <1>3, <1>4
<1> QED
  BY <1>5 DEF a, b, d

LEMMA OfOne ==
    ASSUME NEW t \in Nat
    PROVE  Min({t}) = t /\ Max({t}) = t
BY DEF Min, Max

LEMMA FiniteImage ==
    ASSUME NEW S, IsFiniteSet(S), NEW f
    PROVE  IsFiniteSet({f[x] : x \in S})
<1> DEFINE T == {f[x] : x \in S}
           g == [x \in S |-> f[x]]
<1>1. g \in Surjection(S, T)
  BY DEF Surjection
<1> QED
  BY <1>1, FS_Surjection

-----------------------------------------------------------------------------
(* What an incident is opened with and joined for *)

Sized == IsFiniteSet(Accepted)

\* Reasons are labels, and there are six of them.
LEMMA LabelsAreFew == IsFiniteSet(Label)
<1> DEFINE L1 == {} \cup {"category"}
           L2 == L1 \cup {"process id"}
           L3 == L2 \cup {"executable"}
           L4 == L3 \cup {"file"}
           L5 == L4 \cup {"destination"}
           L6 == L5 \cup {"persistence"}
<1>1. IsFiniteSet(L1)
  BY FS_EmptySet, FS_AddElement
<1>2. IsFiniteSet(L3)
  <2>1. IsFiniteSet(L2)
    BY <1>1, FS_AddElement
  <2> QED
    BY <2>1, FS_AddElement
<1>3. IsFiniteSet(L6)
  <2> HIDE DEF L3
  <2>1. IsFiniteSet(L4)
    BY <1>2, FS_AddElement
  <2>2. IsFiniteSet(L5)
    BY <2>1, FS_AddElement
  <2> QED
    BY <2>2, FS_AddElement
<1>4. Label = L6
  BY DEF Label
<1> QED
  BY <1>3, <1>4

LEMMA ReasonsAreLabels ==
    ASSUME TypeOK, NEW c \in Content, NEW R \in SUBSET Accepted, NEW i
    PROVE  ReasonsFor(c, R, i) \subseteq Label /\ Cardinality(ReasonsFor(c, R, i)) \in Nat
<1>1. c.traits \subseteq Trait
  BY IngestionAssumption
<1>2. \A d : Reasons(c, d) \subseteq Label
  BY <1>1 DEF Reasons, Trait
<1>3. ReasonsFor(c, R, i) \subseteq Label
  BY <1>2 DEF ReasonsFor
<1> QED
  BY <1>3, LabelsAreFew, FS_Subset, FS_CardinalityType

\* With candidates, there is one that Selected means.
LEMMA SelectedIsCandidate ==
    ASSUME TypeOK, Sized, NEW c \in Content, NEW R \in SUBSET Accepted,
           Candidates(c, R) # {}
    PROVE  Selected(c, R) \in Candidates(c, R)
<1> DEFINE C == Candidates(c, R)
           score == [i \in C |-> Cardinality(ReasonsFor(c, R, i))]
           best == Max({score[i] : i \in C})
           B == {i \in C : score[i] = best}
<1>1. IsFiniteSet(C) /\ C \subseteq Incident /\ C \subseteq Nat
  <2> DEFINE incidentOf == [e \in Accepted |-> events[e].incident]
  <2>1. IsFiniteSet({incidentOf[e] : e \in Accepted})
    BY FiniteImage DEF Sized
  <2>2. C \subseteq {incidentOf[e] : e \in Accepted}
    BY DEF Candidates, ReasonsFor
  <2> QED
    BY <2>1, <2>2, FS_Subset, IngestionAssumption DEF Candidates, TypeOK
<1>2. \A i \in C : score[i] \in Nat
  BY ReasonsAreLabels
<1>3. best \in {score[i] : i \in C} /\ \A n \in {score[i] : i \in C} : best >= n
  <2>1. IsFiniteSet({score[i] : i \in C})
    BY <1>1, FiniteImage
  <2>2. {score[i] : i \in C} \subseteq Nat /\ {score[i] : i \in C} # {}
    BY <1>2
  <2> HIDE DEF score, C
  <2> QED
    BY <2>1, <2>2, MaxExists
<1>4. Max(B) \in B /\ \A i \in B : Max(B) >= i
  <2>1. B # {} /\ B \subseteq C
    BY <1>3
  <2>2. IsFiniteSet(B) /\ B \subseteq Nat
    BY <1>1, <2>1, FS_Subset
  <2> HIDE DEF B
  <2> QED
    BY <2>1, <2>2, MaxExists
<1>5. PICK i \in C : /\ \A j \in C : score[i] > score[j] \/ (score[i] = score[j] /\ i >= j)
  <2> DEFINE i == Max(B)
  <2>1. i \in C /\ score[i] = best
    BY <1>4
  <2>2. ASSUME NEW j \in C PROVE score[i] > score[j] \/ (score[i] = score[j] /\ i >= j)
    <3>1. best >= score[j] /\ best \in Nat /\ score[j] \in Nat
      BY <1>2, <1>3
    <3>2. CASE score[j] = best
      BY <1>4, <2>1, <3>2
    <3>3. CASE score[j] # best
      <4> HIDE DEF score, best, i
      <4> QED BY <2>1, <3>1, <3>3
    <3> QED
      BY <3>2, <3>3
  <2> QED
    BY <2>1, <2>2
<1>6. \A j \in Candidates(c, R) :
          LET n == Cardinality(ReasonsFor(c, R, i))
              m == Cardinality(ReasonsFor(c, R, j))
          IN  n > m \/ (n = m /\ i >= j)
  BY <1>5
<1> QED
  BY <1>6, Zenon DEF Selected

\* An incident is joined for a link with one of its events, while it is actionable.
LEMMA SelectedIsLinked ==
    ASSUME TypeOK, Sized, NEW c \in Content, NEW R \in Recent(c), Candidates(c, R) # {}
    PROVE  LET i == Selected(c, R) IN
           /\ i \in Opened /\ incidents[i].status \in ActionableStatus
           /\ ReasonsFor(c, R, i) \subseteq Label /\ ReasonsFor(c, R, i) # {}
           /\ \A r \in ReasonsFor(c, R, i) :
                 \E e \in EventsIn(i) : Of(e).host = c.host /\ Near(c, Of(e)) /\ r \in Reasons(c, Of(e))
<1>1. PICK i : i = Selected(c, R)
  OBVIOUS
<1>2. R \subseteq Nearby(c) /\ R \in SUBSET Accepted
  BY DEF Recent, Nearby
<1>3. i \in Opened /\ ReasonsFor(c, R, i) # {} /\ ReasonsFor(c, R, i) \subseteq Label
  BY <1>1, <1>2, SelectedIsCandidate, ReasonsAreLabels DEF Candidates
<1>4. \A r \in ReasonsFor(c, R, i) :
          \E e \in R : events[e].incident = i /\ r \in Reasons(c, Of(e))
  BY DEF ReasonsFor
<1>5. \A e \in R : events[e].incident = i =>
          /\ e \in EventsIn(i) /\ Of(e).host = c.host /\ Near(c, Of(e))
          /\ incidents[i].status \in ActionableStatus
  BY <1>2 DEF Nearby, EventsIn
<1> QED
  BY <1>1, <1>3, <1>4, <1>5

-----------------------------------------------------------------------------
(* What an accepted event changes *)

\* The new event is linked to e.
Ties(c, e) == Of(e).host = c.host /\ Near(c, Of(e)) /\ Reasons(c, Of(e)) # {}

\* Where an event goes: to a new incident, or to an actionable one that holds an
\* event it is linked to.  A reason of the row is an old one or witnessed by c.
Placing(id, c, i, row) ==
    /\ Assign(id, c, i, row)
    /\ row.status \in ActionableStatus
    /\ i \in Opened => /\ incidents[i].status \in ActionableStatus
                       /\ \E e \in EventsIn(i) : Ties(c, e)
    /\ \A r \in row.reasons :
          \/ i \in Opened /\ r \in incidents[i].reasons
          \/ \E e \in EventsIn(i) : Ties(c, e) /\ r \in Reasons(c, Of(e))

LEMMA IngestPlaces ==
    ASSUME TypeOK, Sized, NEW id \in EventId, NEW c \in Content, Ingest(id, c)
    PROVE  /\ id \notin Accepted /\ SeeHost(c) /\ UNCHANGED now
           /\ \E i \in Incident, row \in IncidentRow : Placing(id, c, i, row)
<1>1. id \notin Accepted /\ SeeHost(c) /\ UNCHANGED now
  BY DEF Ingest, Unknown
<1>2. PICK R \in Recent(c) : IF Candidates(c, R) # {} THEN Join(id, c, R) ELSE Open(id, c)
  BY DEF Ingest
<1>3. CASE Candidates(c, R) # {}
  <2>1. PICK i : i = Selected(c, R)
    OBVIOUS
  <2>2. /\ i \in Opened /\ incidents[i].status \in ActionableStatus
        /\ ReasonsFor(c, R, i) \subseteq Label /\ ReasonsFor(c, R, i) # {}
        /\ \A r \in ReasonsFor(c, R, i) :
              \E e \in EventsIn(i) : Of(e).host = c.host /\ Near(c, Of(e)) /\ r \in Reasons(c, Of(e))
    BY <1>3, <2>1, SelectedIsLinked
  <2>3. PICK row : row = [incidents[i] EXCEPT !.reasons = @ \cup ReasonsFor(c, R, i)]
    OBVIOUS
  <2>4. i \in Incident /\ incidents[i] \in IncidentRow
    BY <2>2 DEF TypeOK
  <2>5. row \in IncidentRow /\ row.status = incidents[i].status
        /\ row.reasons = incidents[i].reasons \cup ReasonsFor(c, R, i)
    BY <2>2, <2>3, <2>4 DEF IncidentRow
  <2>6. Assign(id, c, i, row)
    BY <1>2, <1>3, <2>1, <2>3 DEF Join
  <2>7. Placing(id, c, i, row)
    BY <2>2, <2>5, <2>6 DEF Placing, Ties
  <2> QED
    BY <1>1, <2>4, <2>5, <2>7
<1>4. CASE Candidates(c, R) = {}
  <2>1. PICK i \in Incident \ Opened :
            Assign(id, c, i, [status |-> "new", severity |-> c.severity, count |-> 1,
                              first |-> c.at, last |-> c.at, hosts |-> {c.host},
                              reasons |-> {}])
    BY <1>2, <1>4 DEF Open
  <2>2. PICK row : row = [status |-> "new", severity |-> c.severity, count |-> 1,
                          first |-> c.at, last |-> c.at, hosts |-> {c.host},
                          reasons |-> {}]
    OBVIOUS
  <2>3. row \in IncidentRow
    BY <2>2, IngestionAssumption DEF IncidentRow, ActionableStatus
  <2>4. Placing(id, c, i, row)
    BY <2>1, <2>2 DEF Placing, ActionableStatus
  <2> QED
    BY <1>1, <2>3, <2>4
<1> QED
  BY <1>3, <1>4

\* One event more in one incident, and all the others as they were.
Effect(id, c, i, row) ==
    /\ Accepted' = Accepted \cup {id} /\ Opened' = Opened \cup {i}
    /\ \A e \in Accepted : events'[e] = events[e] /\ Of(e)' = Of(e)
    /\ events'[id] = [content |-> c, incident |-> i] /\ Of(id)' = c
    /\ EventsIn(i)' = EventsIn(i) \cup {id}
    /\ ContentsIn(i)' = ContentsIn(i) \cup {c}
    /\ Observed' = Observed \cup {c}
    /\ \A j \in Opened \ {i} :
          /\ EventsIn(j)' = EventsIn(j)
          /\ ContentsIn(j)' = ContentsIn(j)
          /\ incidents'[j] = incidents[j]
    /\ incidents'[i] = Refreshed(row, i, c)

LEMMA AssignEffect ==
    ASSUME NEW id, NEW c, NEW i, NEW row, id \notin Accepted, Assign(id, c, i, row)
    PROVE  Effect(id, c, i, row)
<1>1. /\ events' = [e \in Accepted \cup {id} |->
              IF e = id THEN [content |-> c, incident |-> i] ELSE events[e]]
      /\ incidents' = [j \in Opened \cup {i} |->
              IF j = i THEN Refreshed(row, i, c) ELSE incidents[j]]
  BY DEF Assign
<1>2. Accepted' = Accepted \cup {id} /\ Opened' = Opened \cup {i}
  BY <1>1 DEF Accepted, Opened
<1>3. \A e \in Accepted : events'[e] = events[e] /\ Of(e)' = Of(e)
  BY <1>1 DEF Of
<1>4. events'[id] = [content |-> c, incident |-> i] /\ Of(id)' = c
  BY <1>1 DEF Of
<1>5. EventsIn(i)' = EventsIn(i) \cup {id}
  BY <1>2, <1>3, <1>4 DEF EventsIn
<1>6. \A j : j # i => EventsIn(j)' = EventsIn(j)
  BY <1>2, <1>3, <1>4 DEF EventsIn
<1>7. \A j : j # i => ContentsIn(j)' = ContentsIn(j)
  <2> SUFFICES ASSUME NEW j, j # i
               PROVE  ContentsIn(j)' = ContentsIn(j)
    OBVIOUS
  <2>1. ContentsIn(j)' = {Of(e)' : e \in EventsIn(j)}
    BY <1>6 DEF ContentsIn
  <2> QED
    BY <1>3, <2>1 DEF ContentsIn, EventsIn
<1>8. ContentsIn(i)' = ContentsIn(i) \cup {c}
  BY <1>3, <1>4, <1>5 DEF ContentsIn, EventsIn
<1>9. Observed' = Observed \cup {c}
  BY <1>2, <1>3, <1>4 DEF Observed
<1> QED
  BY <1>1, <1>2, <1>3, <1>4, <1>5, <1>6, <1>7, <1>8, <1>9 DEF Effect

\* Times and severities of accepted events are finite sets of numbers.
LEMMA ContentsTyped ==
    ASSUME TypeOK, Sized, NEW E \in SUBSET Accepted
    PROVE  /\ {Of(e) : e \in E} \subseteq Content /\ IsFiniteSet({Of(e) : e \in E})
           /\ IsFiniteSet(E) /\ Cardinality(E) \in Nat
<1> DEFINE of == [e \in Accepted |-> Of(e)]
<1>1. IsFiniteSet(E) /\ Cardinality(E) \in Nat
  BY FS_Subset, FS_CardinalityType DEF Sized
<1>2. IsFiniteSet({of[e] : e \in E})
  BY <1>1, FiniteImage
<1>3. {Of(e) : e \in E} = {of[e] : e \in E}
  OBVIOUS
<1>4. {Of(e) : e \in E} \subseteq Content
  BY DEF TypeOK, EventRow, Of
<1> QED
  BY <1>1, <1>2, <1>3, <1>4

LEMMA InTyped ==
    ASSUME TypeOK, Sized, NEW i
    PROVE  /\ ContentsIn(i) \subseteq Content /\ IsFiniteSet(ContentsIn(i))
           /\ IsFiniteSet(EventsIn(i)) /\ Cardinality(EventsIn(i)) \in Nat
<1>1. EventsIn(i) \in SUBSET Accepted
  BY DEF EventsIn
<1> QED
  BY <1>1, ContentsTyped DEF ContentsIn

LEMMA TimesTyped ==
    ASSUME NEW K \in SUBSET Content, IsFiniteSet(K)
    PROVE  /\ {k.at : k \in K} \subseteq Nat /\ IsFiniteSet({k.at : k \in K})
           /\ {k.severity : k \in K} \subseteq Nat /\ IsFiniteSet({k.severity : k \in K})
<1> DEFINE at == [k \in K |-> k.at]
           severity == [k \in K |-> k.severity]
<1>1. IsFiniteSet({at[k] : k \in K}) /\ IsFiniteSet({severity[k] : k \in K})
  BY FiniteImage
<1>2. {k.at : k \in K} = {at[k] : k \in K} /\ {k.severity : k \in K} = {severity[k] : k \in K}
  OBVIOUS
<1>3. {k.at : k \in K} \subseteq Nat /\ {k.severity : k \in K} \subseteq Nat
  BY IngestionAssumption
<1> QED
  BY <1>1, <1>2, <1>3

-----------------------------------------------------------------------------
(* Summaries *)

\* What _refresh_incident makes of a row, and what it leaves of it.
Fresh(next, row, i, c) ==
    LET K == ContentsIn(i) \cup {c}
    IN  /\ next \in IncidentRow
        /\ next.status = row.status /\ next.reasons = row.reasons
        /\ next.count = Cardinality(EventsIn(i)) + 1
        /\ next.first = Min({k.at : k \in K}) /\ next.last = Max({k.at : k \in K})
        /\ next.hosts = {k.host : k \in K}

LEMMA RefreshedTyped ==
    ASSUME TypeOK, Sized, NEW c \in Content, NEW i \in Incident, NEW row \in IncidentRow
    PROVE  Fresh(Refreshed(row, i, c), row, i, c)
<1> DEFINE E == EventsIn(i)
           K == ContentsIn(i) \cup {c}
           next == Refreshed(row, i, c)
           T == {k.at : k \in K}
           V == {k.severity : k \in K}
<1>2. Cardinality(E) + 1 \in Nat /\ K \in SUBSET Content /\ IsFiniteSet(K) /\ K # {}
  BY InTyped, FS_AddElement
<1>3. T \subseteq Nat /\ IsFiniteSet(T) /\ T # {} /\ V \subseteq Nat /\ IsFiniteSet(V) /\ V # {}
  BY <1>2, TimesTyped
<1>4. Min(T) \in Nat /\ Max(T) \in Nat /\ Max(V) \in Nat
  <2> HIDE DEF T, V
  <2> QED
    BY <1>3, MinExists, MaxExists
<1>5. {k.host : k \in K} \subseteq Host
  BY <1>2, IngestionAssumption
<1>6. next = [row EXCEPT !.count = Cardinality(E) + 1, !.first = Min(T), !.last = Max(T),
                         !.hosts = {k.host : k \in K}, !.severity = Max(V)]
  BY DEF Refreshed
<1> HIDE DEF E, K, next, T, V
<1>7. /\ next \in IncidentRow /\ next.status = row.status /\ next.reasons = row.reasons
      /\ next.count = Cardinality(E) + 1 /\ next.first = Min(T) /\ next.last = Max(T)
      /\ next.hosts = {k.host : k \in K}
  BY <1>2, <1>4, <1>5, <1>6 DEF IncidentRow
<1> QED
  BY <1>7 DEF E, K, next, T, Fresh

\* The times at which events of h were seen.
SeenOn(h) == {k.at : k \in {x \in Observed : x.host = h}}

HostsAgree ==
    \A h \in DOMAIN hosts :
        SeenOn(h) # {} /\ hosts[h] = [first |-> Min(SeenOn(h)), last |-> Max(SeenOn(h))]

LEMMA SeenTyped ==
    ASSUME TypeOK, Sized, NEW h
    PROVE  SeenOn(h) \subseteq Nat /\ IsFiniteSet(SeenOn(h))
<1> DEFINE K == {x \in Observed : x.host = h}
<1>1. K \in SUBSET Content /\ IsFiniteSet(K)
  BY ContentsTyped, FS_Subset DEF Observed
<1> QED
  BY <1>1, TimesTyped DEF SeenOn

\* Events of a host the table does not have: there are none.
LEMMA UnseenHost ==
    ASSUME TypeOK, NEW h, h \notin DOMAIN hosts
    PROVE  SeenOn(h) = {}
BY DEF TypeOK, SeenOn, Observed

LEMMA SeeHostAgrees ==
    ASSUME TypeOK, Sized, HostsAgree, NEW c \in Content, SeeHost(c),
           Observed' = Observed \cup {c}
    PROVE  /\ HostsAgree'
           /\ DOMAIN hosts' = DOMAIN hosts \cup {c.host}
           /\ hosts' \in [DOMAIN hosts' -> HostRow]
<1>1. c.host \in Host /\ c.at \in Nat
  BY IngestionAssumption
<1>2. DOMAIN hosts' = DOMAIN hosts \cup {c.host}
      /\ \A h \in DOMAIN hosts \ {c.host} : hosts'[h] = hosts[h]
  BY DEF SeeHost
<1>3. ASSUME NEW h, h # c.host PROVE SeenOn(h)' = SeenOn(h)
  BY <1>3 DEF SeenOn
<1>4. SeenOn(c.host)' = SeenOn(c.host) \cup {c.at}
  BY DEF SeenOn
<1>5. hosts'[c.host] = [first |-> Min(SeenOn(c.host) \cup {c.at}),
                        last |-> Max(SeenOn(c.host) \cup {c.at})]
  <2>1. CASE c.host \notin DOMAIN hosts
    <3>1. hosts'[c.host] = [first |-> c.at, last |-> c.at]
      BY <2>1 DEF SeeHost
    <3>2. SeenOn(c.host) \cup {c.at} = {c.at}
      BY <2>1, UnseenHost
    <3> QED
      BY <1>1, <3>1, <3>2, OfOne
  <2>2. CASE c.host \in DOMAIN hosts
    <3>1. hosts'[c.host] = [first |-> Min({hosts[c.host].first, c.at}),
                            last |-> Max({hosts[c.host].last, c.at})]
      BY <2>2 DEF SeeHost
    <3>2. SeenOn(c.host) # {} /\ hosts[c.host].first = Min(SeenOn(c.host))
          /\ hosts[c.host].last = Max(SeenOn(c.host))
      BY <2>2 DEF HostsAgree
    <3> QED
      BY <1>1, <3>1, <3>2, SeenTyped, MinOfMore, MaxOfMore
  <2> QED
    BY <2>1, <2>2
<1>6. HostsAgree'
  BY <1>2, <1>3, <1>4, <1>5 DEF HostsAgree
<1>7. hosts' \in [DOMAIN hosts' -> HostRow]
  <2> DEFINE S == SeenOn(c.host) \cup {c.at}
  <2>1. S \subseteq Nat /\ IsFiniteSet(S) /\ S # {}
    BY <1>1, SeenTyped, FS_AddElement
  <2>2. Min(S) \in Nat /\ Max(S) \in Nat
    <3> HIDE DEF S
    <3> QED BY <2>1, MinExists, MaxExists
  <2>3. hosts'[c.host] \in HostRow
    BY <1>5, <2>2 DEF HostRow
  <2>4. \A h \in DOMAIN hosts' : hosts'[h] \in HostRow
    BY <1>2, <2>3 DEF TypeOK
  <2>5. hosts' = [h \in DOMAIN hosts' |-> hosts'[h]]
    BY DEF SeeHost
  <2> QED
    BY <2>4, <2>5
<1> QED
  BY <1>2, <1>6, <1>7

\* What SummariesAgree says of one incident.
Agrees(i) ==
    LET K == ContentsIn(i)
    IN  /\ EventsIn(i) # {}
        /\ incidents[i].count = Cardinality(EventsIn(i))
        /\ incidents[i].first = Min({k.at : k \in K})
        /\ incidents[i].last = Max({k.at : k \in K})
        /\ \E h \in Host : incidents[i].hosts = {h} /\ {k.host : k \in K} = {h}

LEMMA SummariesSplit == SummariesAgree <=> HostsAgree /\ \A i \in Opened : Agrees(i)
BY DEF SummariesAgree, HostsAgree, Agrees, SeenOn

\* Nothing is in an incident that is not open.
LEMMA NotOpened ==
    ASSUME TypeOK, NEW i, i \notin Opened
    PROVE  EventsIn(i) = {} /\ ContentsIn(i) = {}
BY DEF TypeOK, EventsIn, ContentsIn

LEMMA PlacedAgrees ==
    ASSUME TypeOK, Sized, \A i \in Opened : Agrees(i),
           NEW id \in EventId, NEW c \in Content, NEW i \in Incident, NEW row \in IncidentRow,
           id \notin Accepted, Placing(id, c, i, row)
    PROVE  (\A j \in Opened : Agrees(j))'
<1> DEFINE K == ContentsIn(i)
<1>1. Assign(id, c, i, row)
  BY DEF Placing
<1>2. /\ Opened' = Opened \cup {i}
      /\ EventsIn(i)' = EventsIn(i) \cup {id}
      /\ ContentsIn(i)' = K \cup {c}
      /\ incidents'[i] = Refreshed(row, i, c)
      /\ \A j \in Opened \ {i} :
            /\ EventsIn(j)' = EventsIn(j)
            /\ ContentsIn(j)' = ContentsIn(j)
            /\ incidents'[j] = incidents[j]
  <2>1. Effect(id, c, i, row)
    BY <1>1, AssignEffect
  <2> QED
    BY <2>1 DEF Effect
<1>3. ASSUME NEW j \in Opened \ {i} PROVE Agrees(j)'
  BY <1>2, <1>3 DEF Agrees
<1>4. Agrees(i)'
  <2>1. /\ incidents'[i].count = Cardinality(EventsIn(i)) + 1
        /\ incidents'[i].first = Min({k.at : k \in K \cup {c}})
        /\ incidents'[i].last = Max({k.at : k \in K \cup {c}})
        /\ incidents'[i].hosts = {k.host : k \in K \cup {c}}
    <3>1. Fresh(Refreshed(row, i, c), row, i, c)
      BY RefreshedTyped
    <3> QED
      BY <1>2, <3>1 DEF Fresh
  <2>2. Cardinality(EventsIn(i)') = Cardinality(EventsIn(i)) + 1
    <3>1. EventsIn(i) \in SUBSET Accepted /\ id \notin EventsIn(i)
      BY DEF EventsIn
    <3> QED
      BY <1>2, <3>1, InTyped, FS_AddElement
  <2>3. {k.host : k \in K \cup {c}} = {c.host} /\ c.host \in Host
    <3>1. c.host \in Host
      BY IngestionAssumption
    <3>2. CASE i \notin Opened
      BY <3>1, <3>2, NotOpened
    <3>3. CASE i \in Opened
      <4>1. PICK e \in EventsIn(i) : Of(e).host = c.host
        BY <3>3 DEF Placing, Ties
      <4>2. PICK h \in Host : {k.host : k \in K} = {h}
        BY <3>3 DEF Agrees
      <4>3. Of(e) \in K
        BY DEF ContentsIn
      <4> QED
        BY <3>1, <4>1, <4>2, <4>3
    <3> QED
      BY <3>2, <3>3
  <2> QED
    BY <1>2, <2>1, <2>2, <2>3 DEF Agrees
<1> QED
  BY <1>2, <1>3, <1>4

-----------------------------------------------------------------------------
(* Explanations *)

\* What IncidentsAreExplained says of one incident.
Explained(i) ==
    /\ \A S \in SUBSET EventsIn(i) :
          S \notin {{}, EventsIn(i)} => \E a \in S, b \in EventsIn(i) \ S : Linked(a, b)
    /\ \A r \in incidents[i].reasons :
          \E a, b \in EventsIn(i) : a # b /\ Linked(a, b) /\ r \in Reasons(Of(a), Of(b))

LEMMA ExplainedSplit == IncidentsAreExplained <=> \A i \in Opened : Explained(i)
BY DEF IncidentsAreExplained, Explained

\* The links that stand, and the one the new event has.
LEMMA LinksStay ==
    ASSUME NEW id, NEW c, NEW i, NEW row, id \notin Accepted, Effect(id, c, i, row)
    PROVE  /\ \A a, b \in Accepted : /\ Linked(a, b)' <=> Linked(a, b)
                                     /\ Reasons(Of(a), Of(b))' = Reasons(Of(a), Of(b))
           /\ \A e \in Accepted : /\ Ties(c, e) => Linked(id, e)' /\ Linked(e, id)'
                                  /\ Reasons(Of(id), Of(e))' = Reasons(c, Of(e))
<1>1. (\A e \in Accepted : Of(e)' = Of(e)) /\ Of(id)' = c
  BY DEF Effect
<1>2. ASSUME NEW a \in Accepted, NEW b \in Accepted
      PROVE  /\ Linked(a, b)' <=> Linked(a, b)
             /\ Reasons(Of(a), Of(b))' = Reasons(Of(a), Of(b))
  BY <1>1, <1>2 DEF Linked, Near, Reasons
<1>3. ASSUME NEW e \in Accepted
      PROVE  /\ Ties(c, e) => Linked(id, e)' /\ Linked(e, id)'
             /\ Reasons(Of(id), Of(e))' = Reasons(c, Of(e))
  BY <1>1, <1>3 DEF Ties, Linked, Near, Reasons
<1> QED
  BY <1>2, <1>3

LEMMA PlacedExplained ==
    ASSUME TypeOK, Sized, \A i \in Opened : Explained(i),
           NEW id \in EventId, NEW c \in Content, NEW i \in Incident, NEW row \in IncidentRow,
           id \notin Accepted, Placing(id, c, i, row)
    PROVE  (\A j \in Opened : Explained(j))'
<1>1. Effect(id, c, i, row)
  BY AssignEffect DEF Placing
<1>2. /\ Opened' = Opened \cup {i} /\ EventsIn(i)' = EventsIn(i) \cup {id}
      /\ \A j \in Opened \ {i} : EventsIn(j)' = EventsIn(j) /\ incidents'[j] = incidents[j]
      /\ incidents'[i].reasons = row.reasons
  <2>1. Fresh(Refreshed(row, i, c), row, i, c)
    BY RefreshedTyped
  <2> QED
    BY <1>1, <2>1 DEF Effect, Fresh
<1>3. /\ \A a, b \in Accepted : /\ Linked(a, b)' <=> Linked(a, b)
                                /\ Reasons(Of(a), Of(b))' = Reasons(Of(a), Of(b))
      /\ \A e \in Accepted : /\ Ties(c, e) => Linked(id, e)' /\ Linked(e, id)'
                             /\ Reasons(Of(id), Of(e))' = Reasons(c, Of(e))
  BY <1>1, LinksStay
<1>4. \A j : EventsIn(j) \subseteq Accepted
  BY DEF EventsIn
<1>5. ASSUME NEW j \in Opened \ {i} PROVE Explained(j)'
  BY <1>2, <1>3, <1>4, <1>5 DEF Explained
<1>6. Explained(i)'
  <2>1. PICK E : E = EventsIn(i)
    OBVIOUS
  <2>2. E \subseteq Accepted /\ id \notin E /\ EventsIn(i)' = E \cup {id}
    BY <1>2, <1>4, <2>1
  <2>3. ASSUME NEW S \in SUBSET (E \cup {id}), S \notin {{}, E \cup {id}}
        PROVE  \E a \in S, b \in (E \cup {id}) \ S : Linked(a, b)'
    <3>1. i \in Opened
      <4>1. i \notin Opened => E = {}
        BY <2>1, NotOpened
      <4> QED
        BY <2>3, <4>1
    <3>2. PICK e \in E : Ties(c, e)
      BY <2>1, <3>1 DEF Placing
    <3>3. Linked(id, e)' /\ Linked(e, id)'
      BY <1>3, <2>2, <3>2
    <3>4. CASE id \in S /\ e \notin S
      BY <3>3, <3>4
    <3>5. CASE id \notin S /\ e \in S
      BY <3>3, <3>5
    <3>6. CASE (id \in S <=> e \in S)
      <4>1. (S \cap E) \in SUBSET E /\ (S \cap E) \notin {{}, E}
        BY <2>3, <3>6
      <4>2. PICK a \in S \cap E, b \in E \ (S \cap E) : Linked(a, b)
        BY <2>1, <3>1, <4>1 DEF Explained
      <4> QED
        BY <1>3, <2>2, <4>2
    <3> QED
      BY <3>4, <3>5, <3>6
  <2>4. ASSUME NEW r \in row.reasons
        PROVE  \E a, b \in E \cup {id} : a # b /\ Linked(a, b)' /\ r \in Reasons(Of(a), Of(b))'
    <3>1. CASE i \in Opened /\ r \in incidents[i].reasons
      <4>1. PICK a, b \in E : a # b /\ Linked(a, b) /\ r \in Reasons(Of(a), Of(b))
        BY <2>1, <3>1 DEF Explained
      <4> QED
        BY <1>3, <2>2, <4>1
    <3>2. CASE \E e \in EventsIn(i) : Ties(c, e) /\ r \in Reasons(c, Of(e))
      <4>1. PICK e \in E : Ties(c, e) /\ r \in Reasons(c, Of(e))
        BY <2>1, <3>2
      <4> QED
        BY <1>3, <2>2, <4>1
    <3> QED
      BY <2>4, <3>1, <3>2 DEF Placing
  <2> QED
    BY <1>2, <2>2, <2>3, <2>4 DEF Explained
<1> QED
  BY <1>2, <1>5, <1>6

-----------------------------------------------------------------------------
(* Steps *)

IInv == TypeOK /\ Sized /\ SummariesAgree /\ IncidentsAreExplained

LEMMA PlacedTyped ==
    ASSUME TypeOK, Sized, HostsAgree,
           NEW id \in EventId, NEW c \in Content, NEW i \in Incident, NEW row \in IncidentRow,
           id \notin Accepted, Placing(id, c, i, row), SeeHost(c), UNCHANGED now
    PROVE  TypeOK' /\ Sized' /\ HostsAgree'
<1>1. Effect(id, c, i, row)
  BY AssignEffect DEF Placing
<1>2. HostsAgree' /\ DOMAIN hosts' = DOMAIN hosts \cup {c.host}
      /\ hosts' \in [DOMAIN hosts' -> HostRow]
  BY <1>1, SeeHostAgrees DEF Effect
<1>3. Sized'
  BY <1>1, FS_AddElement DEF Effect, Sized
<1>4. Accepted' \subseteq EventId /\ events' \in [Accepted' -> EventRow]
  BY <1>1 DEF Effect, TypeOK, EventRow, Placing, Assign
<1>5. Opened' \subseteq Incident /\ incidents' \in [Opened' -> IncidentRow]
  <2>1. Refreshed(row, i, c) \in IncidentRow
    BY RefreshedTyped DEF Fresh
  <2> QED
    BY <1>1, <2>1 DEF Effect, TypeOK, Placing, Assign
<1>6. DOMAIN hosts' \subseteq Host
  BY <1>2, IngestionAssumption DEF TypeOK
<1>7. \A e \in Accepted' : events'[e].incident \in Opened' /\ Of(e)'.host \in DOMAIN hosts'
  <2>1. ASSUME NEW e \in Accepted PROVE events'[e].incident \in Opened' /\ Of(e)'.host \in DOMAIN hosts'
    BY <1>1, <1>2, <2>1 DEF Effect, TypeOK
  <2>2. events'[id].incident \in Opened' /\ Of(id)'.host \in DOMAIN hosts'
    BY <1>1, <1>2 DEF Effect
  <2> QED
    BY <1>1, <2>1, <2>2 DEF Effect
<1>8. now' \in Nat
  BY DEF TypeOK
<1> QED
  BY <1>2, <1>3, <1>4, <1>5, <1>6, <1>7, <1>8 DEF TypeOK

LEMMA IngestSound ==
    ASSUME IInv, NEW id \in EventId, NEW c \in Content, Ingest(id, c)
    PROVE  IInv'
<1>1. id \notin Accepted /\ SeeHost(c) /\ UNCHANGED now
  BY IngestPlaces DEF IInv
<1>2. PICK i \in Incident, row \in IncidentRow : Placing(id, c, i, row)
  BY IngestPlaces DEF IInv
<1>3. TypeOK' /\ Sized' /\ HostsAgree'
  BY <1>1, <1>2, PlacedTyped, SummariesSplit DEF IInv
<1>4. (\A j \in Opened : Agrees(j))'
  BY <1>1, <1>2, PlacedAgrees, SummariesSplit DEF IInv
<1>5. (\A j \in Opened : Explained(j))'
  BY <1>1, <1>2, PlacedExplained, ExplainedSplit DEF IInv
<1>6. SummariesAgree'
  BY <1>3, <1>4, Zenon DEF SummariesAgree, HostsAgree, Agrees, SeenOn
<1>7. IncidentsAreExplained'
  BY <1>5, Zenon DEF IncidentsAreExplained, Explained
<1> QED
  BY <1>3, <1>6, <1>7 DEF IInv

LEMMA UpdateSound ==
    ASSUME IInv, NEW i \in Opened, NEW s \in ActionableStatus \cup ClosedStatus,
           NEW v \in Severity, UpdateIncident(i, s, v)
    PROVE  IInv'
<1>1. UNCHANGED <<events, hosts, now>>
      /\ incidents' = [incidents EXCEPT ![i].status = s, ![i].severity = v]
  BY DEF UpdateIncident
<1>2. v \in Nat
  BY IngestionAssumption DEF Severity
<1>3. Opened' = Opened /\ \A j \in Opened :
          /\ incidents'[j] \in IncidentRow
          /\ incidents'[j].count = incidents[j].count /\ incidents'[j].first = incidents[j].first
          /\ incidents'[j].last = incidents[j].last /\ incidents'[j].hosts = incidents[j].hosts
          /\ incidents'[j].reasons = incidents[j].reasons
  BY <1>1, <1>2 DEF IInv, TypeOK, Opened, IncidentRow
<1>4. /\ Accepted' = Accepted /\ Observed' = Observed
      /\ \A e : Of(e)' = Of(e)
      /\ \A j : EventsIn(j)' = EventsIn(j) /\ ContentsIn(j)' = ContentsIn(j)
  BY <1>1 DEF Accepted, Observed, Of, EventsIn, ContentsIn
<1>5. TypeOK' /\ Sized'
  <2>1. incidents' \in [Opened' -> IncidentRow]
    BY <1>1, <1>3 DEF IInv, TypeOK
  <2> QED
    BY <1>1, <1>3, <1>4, <2>1 DEF IInv, TypeOK, Sized
<1>6. SummariesAgree'
  <2>1. HostsAgree /\ \A j \in Opened : Agrees(j)
    BY SummariesSplit DEF IInv
  <2>2. HostsAgree'
    <3>1. \A h : SeenOn(h)' = SeenOn(h)
      BY <1>4 DEF SeenOn
    <3> QED
      BY <1>1, <2>1, <3>1 DEF HostsAgree
  <2>3. ASSUME NEW j \in Opened PROVE Agrees(j)'
    <3>1. Agrees(j)
      BY <2>1, <2>3
    <3> QED
      BY <1>3, <1>4, <2>3, <3>1 DEF Agrees
  <2>4. (\A j \in Opened : Agrees(j))'
    BY <1>3, <2>3
  <2> QED
    BY <2>2, <2>4, Zenon DEF SummariesAgree, HostsAgree, Agrees, SeenOn
<1>7. IncidentsAreExplained'
  <2>1. \A a, b : (Linked(a, b)' <=> Linked(a, b)) /\ Reasons(Of(a), Of(b))' = Reasons(Of(a), Of(b))
    BY <1>4 DEF Linked, Near, Reasons
  <2>2. ASSUME NEW j \in Opened PROVE Explained(j)'
    <3>1. Explained(j)
      BY <2>2, ExplainedSplit DEF IInv
    <3> QED
      BY <1>3, <1>4, <2>1, <2>2, <3>1 DEF Explained
  <2>3. (\A j \in Opened : Explained(j))'
    BY <1>3, <2>2
  <2> QED
    BY <2>3, Zenon DEF IncidentsAreExplained, Explained
<1> QED
  BY <1>5, <1>6, <1>7 DEF IInv

LEMMA Initially == Init => IInv
<1> SUFFICES ASSUME Init PROVE IInv
  OBVIOUS
<1>1. Accepted = {} /\ Opened = {} /\ DOMAIN hosts = {}
  BY DEF Init, Accepted, Opened
<1>2. TypeOK /\ Sized
  BY <1>1, FS_EmptySet DEF Init, TypeOK, Sized
<1>3. SummariesAgree /\ IncidentsAreExplained
  BY <1>1 DEF SummariesAgree, IncidentsAreExplained
<1> QED
  BY <1>2, <1>3 DEF IInv

\* The tables, and so all that is said of them, are as they were.
LEMMA IdleSound ==
    ASSUME IInv, UNCHANGED <<events, incidents, hosts>>, now' \in Nat
    PROVE  IInv'
<1>1. UNCHANGED <<events, incidents, hosts>>
  OBVIOUS
<1>2. /\ Accepted' = Accepted /\ Opened' = Opened /\ Observed' = Observed
      /\ \A e : Of(e)' = Of(e)
      /\ \A j : EventsIn(j)' = EventsIn(j) /\ ContentsIn(j)' = ContentsIn(j)
  BY <1>1 DEF Accepted, Opened, Observed, Of, EventsIn, ContentsIn
<1>3. TypeOK' /\ Sized'
  BY <1>1, <1>2 DEF IInv, TypeOK, Sized
<1>4. (HostsAgree /\ \A j \in Opened : Agrees(j))'
  <2>1. \A h : SeenOn(h)' = SeenOn(h)
    BY <1>2 DEF SeenOn
  <2>2. HostsAgree'
    BY <1>1, <2>1, SummariesSplit DEF IInv, HostsAgree
  <2>3. ASSUME NEW j \in Opened PROVE Agrees(j)'
    <3>1. Agrees(j)
      BY <2>3, SummariesSplit DEF IInv
    <3> QED
      BY <1>1, <1>2, <3>1 DEF Agrees
  <2> QED
    BY <1>2, <2>2, <2>3
<1>5. (\A j \in Opened : Explained(j))'
  <2>1. \A a, b : (Linked(a, b)' <=> Linked(a, b)) /\ Reasons(Of(a), Of(b))' = Reasons(Of(a), Of(b))
    BY <1>2 DEF Linked, Near, Reasons
  <2>2. ASSUME NEW j \in Opened PROVE Explained(j)'
    <3>1. Explained(j)
      BY <2>2, ExplainedSplit DEF IInv
    <3> QED
      BY <1>1, <1>2, <2>1, <3>1 DEF Explained
  <2> QED
    BY <1>2, <2>2
<1>6. SummariesAgree'
  BY <1>4, Zenon DEF SummariesAgree, HostsAgree, Agrees, SeenOn
<1>7. IncidentsAreExplained'
  BY <1>5, Zenon DEF IncidentsAreExplained, Explained
<1> QED
  BY <1>3, <1>6, <1>7 DEF IInv

LEMMA Inductive == IInv /\ [Next]_vars => IInv'
<1> SUFFICES ASSUME IInv, [Next]_vars PROVE IInv'
  OBVIOUS
<1>1. ASSUME NEW id \in EventId, NEW c \in Content, Ingest(id, c) PROVE IInv'
  BY <1>1, IngestSound
<1>2. ASSUME NEW i \in Opened, NEW s \in ActionableStatus \cup ClosedStatus,
             NEW v \in Severity, UpdateIncident(i, s, v)
      PROVE  IInv'
  BY <1>2, UpdateSound
<1>3. CASE Tick
  <2>1. UNCHANGED <<events, incidents, hosts>> /\ now' \in Nat
    BY <1>3 DEF Tick, IInv, TypeOK
  <2> QED
    BY <2>1, IdleSound
<1>4. CASE UNCHANGED vars
  <2>1. UNCHANGED <<events, incidents, hosts>> /\ now' \in Nat
    BY <1>4 DEF vars, IInv, TypeOK
  <2> QED
    BY <2>1, IdleSound
<1> QED
  BY <1>1, <1>2, <1>3, <1>4 DEF Next

-----------------------------------------------------------------------------
(* Theorems *)

LEMMA Invariant == Spec => []IInv
BY Initially, Inductive, PTL DEF Spec

\* The tables refer to one another as their foreign keys say, in every state.
THEOREM TypeCorrect == Spec => []TypeOK
<1>1. IInv => TypeOK
  BY DEF IInv
<1> QED
  BY <1>1, Invariant, PTL

\* The summary of every incident and the span of every host agree with the
\* events, and an incident has one host (_refresh_incident, ingest_event).
THEOREM SummariesStand == Spec => []SummariesAgree
<1>1. IInv => SummariesAgree
  BY DEF IInv
<1> QED
  BY <1>1, Invariant, PTL

\* The events of an incident hang together by links, and its reasons are theirs
\* (correlate_event), however the events were ordered and updates interleaved.
THEOREM ReasonsStand == Spec => []IncidentsAreExplained
<1>1. IInv => IncidentsAreExplained
  BY DEF IInv
<1> QED
  BY <1>1, Invariant, PTL

\* A new event is in an actionable incident; what is closed is left alone.
LEMMA SurfacesStep ==
    ASSUME IInv, [Next]_vars
    PROVE  /\ \A e \in Accepted' \ Accepted :
                  incidents'[events'[e].incident].status \in ActionableStatus
           /\ \A i \in Opened : incidents[i].status \in ClosedStatus =>
                  /\ EventsIn(i)' = EventsIn(i)
                  /\ incidents'[i].count = incidents[i].count
<1> DEFINE Goal ==
        /\ \A e \in Accepted' \ Accepted :
              incidents'[events'[e].incident].status \in ActionableStatus
        /\ \A i \in Opened : incidents[i].status \in ClosedStatus =>
              /\ EventsIn(i)' = EventsIn(i)
              /\ incidents'[i].count = incidents[i].count
<1>1. ASSUME NEW id \in EventId, NEW c \in Content, Ingest(id, c) PROVE Goal
  <2>1. id \notin Accepted
    BY <1>1, IngestPlaces DEF IInv
  <2>2. PICK i \in Incident, row \in IncidentRow : Placing(id, c, i, row)
    BY <1>1, IngestPlaces DEF IInv
  <2>3. Effect(id, c, i, row)
    BY <2>1, <2>2, AssignEffect DEF Placing
  <2>4. incidents'[i].status = row.status
    <3>1. Fresh(Refreshed(row, i, c), row, i, c)
      BY RefreshedTyped DEF IInv
    <3> QED
      BY <2>3, <3>1 DEF Effect, Fresh
  <2>5. ASSUME NEW e \in Accepted' \ Accepted
        PROVE  incidents'[events'[e].incident].status \in ActionableStatus
    <3>1. e = id /\ events'[id].incident = i
      BY <2>3, <2>5 DEF Effect
    <3> QED
      BY <2>2, <2>4, <3>1 DEF Placing
  <2>6. ASSUME NEW j \in Opened, incidents[j].status \in ClosedStatus
        PROVE  EventsIn(j)' = EventsIn(j) /\ incidents'[j].count = incidents[j].count
    <3>1. j # i
      BY <2>2, <2>6 DEF Placing, ActionableStatus, ClosedStatus
    <3> QED
      BY <2>3, <2>6, <3>1 DEF Effect
  <2> QED
    BY <2>5, <2>6
<1>2. ASSUME NEW i \in Opened, NEW s \in ActionableStatus \cup ClosedStatus,
             NEW v \in Severity, UpdateIncident(i, s, v)
      PROVE  Goal
  <2>1. UNCHANGED events
        /\ incidents' = [incidents EXCEPT ![i].status = s, ![i].severity = v]
    BY <1>2 DEF UpdateIncident
  <2>2. ASSUME NEW j \in Opened PROVE incidents'[j].count = incidents[j].count
    <3>1. incidents[j] \in IncidentRow /\ incidents[i] \in IncidentRow
      BY <1>2, <2>2 DEF IInv, TypeOK
    <3> QED
      BY <2>1, <2>2, <3>1 DEF IncidentRow, Opened
  <2>3. Accepted' = Accepted /\ \A j : EventsIn(j)' = EventsIn(j)
    BY <2>1 DEF Accepted, EventsIn
  <2> QED
    BY <2>2, <2>3
<1>3. CASE Tick \/ UNCHANGED vars
  <2>1. UNCHANGED <<events, incidents>>
    BY <1>3 DEF Tick, vars
  <2> QED
    BY <2>1 DEF Accepted, EventsIn
<1> QED
  BY <1>1, <1>2, <1>3 DEF Next

\* Every accepted event is in an incident an analyst can act on, and the evidence
\* of a closed incident stays as it was closed on (correlate_event).
THEOREM EvidenceSurfaces == Spec => NewEvidenceSurfaces
<1>1. IInv /\ [Next]_vars =>
        [/\ \A e \in Accepted' \ Accepted :
               incidents'[events'[e].incident].status \in ActionableStatus
         /\ \A i \in Opened : incidents[i].status \in ClosedStatus =>
               /\ EventsIn(i)' = EventsIn(i)
               /\ incidents'[i].count = incidents[i].count]_vars
  BY SurfacesStep
<1> QED
  BY <1>1, Invariant, PTL DEF Spec, NewEvidenceSurfaces

\* Ingestion implements the write-once log its senders rely on (receive_event).
THEOREM ImplementsLog == Spec => LogSpec
<1> DEFINE log == [e \in Accepted |-> Of(e)]
<1>1. Init => Log!Init
  BY DEF Init, Log!Init, Accepted
<1>2. IInv /\ [Next]_vars => [Log!Next]_log
  <2> SUFFICES ASSUME IInv, [Next]_vars PROVE Log!Next \/ log' = log
    OBVIOUS
  <2>1. ASSUME NEW id \in EventId, NEW c \in Content, Ingest(id, c) PROVE Log!Accept(id, c)
    <3>1. id \notin Accepted
      BY <2>1, IngestPlaces DEF IInv
    <3>2. PICK i, row : Placing(id, c, i, row)
      BY <2>1, IngestPlaces DEF IInv
    <3>3. Effect(id, c, i, row)
      BY <3>1, <3>2, AssignEffect DEF Placing
    <3>4. log' = [e \in Accepted' |-> Of(e)']
      OBVIOUS
    <3>5. /\ Accepted' = Accepted \cup {id}
          /\ \A e \in Accepted : Of(e)' = Of(e)
          /\ Of(id)' = c
      BY <3>3 DEF Effect
    <3>6. log' = [e \in DOMAIN log \cup {id} |-> IF e = id THEN c ELSE log[e]]
      BY <3>1, <3>4, <3>5
    <3> QED
      BY <3>1, <3>6 DEF Log!Accept
  <2>2. CASE UNCHANGED events
    BY <2>2 DEF Accepted, Of
  <2>3. CASE \E i \in Opened, s \in ActionableStatus \cup ClosedStatus, v \in Severity :
                 UpdateIncident(i, s, v)
    BY <2>2, <2>3 DEF UpdateIncident
  <2> QED
    BY <2>1, <2>2, <2>3 DEF Next, Tick, vars, Log!Next
<1> QED
  BY <1>1, <1>2, Invariant, PTL DEF Spec, LogSpec, Log!Spec

-----------------------------------------------------------------------------
(* Guidance: the advice on an incident is that on its evidence, contexts     *)
(* that claim authority have no say in it, and more evidence enables more,   *)
(* but for the demo service.                                                 *)

Advised ==
    /\ DOMAIN advice = Opened
    /\ \A i \in Opened : advice[i] \in Advices(EvidenceIn(i))

GuidedInv == IInv /\ Advised

-----------------------------------------------------------------------------
(* The rules of Guidance *)

\* What claims authority is dropped before anything else is looked at.
LEMMA ClaimsAreIgnored ==
    ASSUME NEW E \in SUBSET Evidence
    PROVE  Recommended({Unclaimed(e) : e \in E}) = Recommended(E)
<1> DEFINE F == {Unclaimed(e) : e \in E}
<1>1. ASSUME NEW e \in E
      PROVE  /\ Guiding(Unclaimed(e)) = Guiding(e)
             /\ Unclaimed(e).category = e.category
             /\ Unclaimed(e).markers = e.markers
  <2>1. e \in Evidence
    OBVIOUS
  <2>2. /\ Unclaimed(e).quietward = e.quietward
        /\ Unclaimed(e).category = e.category
        /\ Unclaimed(e).markers = e.markers
        /\ Unclaimed(e).context = {x \in e.context : ~x.acts}
    BY <2>1 DEF Unclaimed, Evidence
  <2> QED BY <2>2 DEF Guiding
<1>2. Profiles(F) = Profiles(E)
  <2>1. \A x : x \in Profiles(F) <=> \E e \in E : x \in Guiding(Unclaimed(e))
    BY DEF Profiles
  <2>2. \A x : x \in Profiles(E) <=> \E e \in E : x \in Guiding(e)
    BY DEF Profiles
  <2> QED BY <1>1, <2>1, <2>2
<1>3. Hints(F) = Hints(E)
  BY <1>2 DEF Hints
<1>4. Categories(F) = Categories(E)
  BY <1>1 DEF Categories
<1>5. Markers(F) = Markers(E)
  <2>1. \A x : x \in Markers(F) <=> \E e \in E : x \in Unclaimed(e).markers
    BY DEF Markers
  <2>2. \A x : x \in Markers(E) <=> \E e \in E : x \in e.markers
    BY DEF Markers
  <2> QED BY <1>1, <2>1, <2>2
<1>6. /\ Demo(F) = Demo(E) /\ ProcessRelevant(F) = ProcessRelevant(E)
      /\ NetworkRelevant(F) = NetworkRelevant(E)
      /\ Persistent(F) = Persistent(E) /\ Operational(F) = Operational(E)
  BY <1>3, <1>4, <1>5 DEF Demo, ProcessRelevant, NetworkRelevant, Persistent, Operational
<1> HIDE DEF F
<1>7. Listed(F) = Listed(E)
  BY <1>2, <1>3, <1>6 DEF Listed
<1>8. Recommended(F) = Recommended(E)
  BY <1>7 DEF Recommended
<1> QED BY <1>8 DEF F

\* What is enabled, one capability at a time.
LEMMA EnabledMeans ==
    ASSUME NEW E
    PROVE  LET on == Recommended(E) \cap Executable IN
           /\ on \subseteq Executable
           /\ "collect_process_diagnostic" \in on <=> ProcessRelevant(E) \/ NetworkRelevant(E)
           /\ "terminate_evidence_process" \in on <=> ProcessRelevant(E)
           /\ "collect_network_diagnostic" \in on <=> NetworkRelevant(E)
           /\ "restart_quietward_demo_service" \in on <=> Demo(E)
           /\ "collect_host_diagnostic" \in on <=> ~Demo(E)
           /\ "collect_incident_triage_bundle" \in on <=> ~Demo(E) /\ Profiles(E) # {}
<1>1. \A x : x \in Listed(E) <=>
          \/ ~Demo(E) /\ x = "collect_host_diagnostic"
          \/ ~Demo(E) /\ Profiles(E) # {} /\ x = "collect_incident_triage_bundle"
          \/ Demo(E) /\ x \in {"confirm demo health", "restart_quietward_demo_service"}
          \/ ProcessRelevant(E) /\ x \in {"collect_process_diagnostic", "terminate_evidence_process"}
          \/ NetworkRelevant(E) /\ x \in {"collect_process_diagnostic",
                                         "collect_network_diagnostic", "review listener"}
          \/ "artifact_metadata_review" \in Hints(E) /\ x = "review artifact"
          \/ "identity_activity_review" \in Hints(E) /\ x = "review identity"
          \/ "evidence_chain_review" \in Hints(E) /\ x = "review provenance"
          \/ Persistent(E) /\ x = "review persistence"
          \/ ~Demo(E) /\ Operational(E) /\ x = "review resources"
  BY DEF Listed, If
<1>2. "review evidence" \notin Executable
  BY DEF Executable
<1>3. \A x : x \in Recommended(E) \cap Executable <=> x \in Listed(E) /\ x \in Executable
  BY <1>2 DEF Recommended, If
<1> QED BY <1>1, <1>3 DEF Executable

\* More evidence makes more of everything relevant.
LEMMA MoreIsRelevant ==
    ASSUME NEW E, NEW F, E \subseteq F
    PROVE  /\ Profiles(E) \subseteq Profiles(F)
           /\ Demo(E) => Demo(F)
           /\ ProcessRelevant(E) => ProcessRelevant(F)
           /\ NetworkRelevant(E) => NetworkRelevant(F)
<1>1. Profiles(E) \subseteq Profiles(F)
  BY DEF Profiles
<1>2. Hints(E) \subseteq Hints(F)
  BY <1>1 DEF Hints
<1>3. Categories(E) \subseteq Categories(F) /\ Markers(E) \subseteq Markers(F)
  BY DEF Categories, Markers
<1> QED BY <1>1, <1>2, <1>3 DEF Demo, ProcessRelevant, NetworkRelevant

\* What more evidence withdraws, it withdraws for the demo service.
LEMMA OnlyDemoWithdraws ==
    ASSUME NEW E, NEW F, E \subseteq F
    PROVE  LET lost == (Recommended(E) \cap Executable) \ (Recommended(F) \cap Executable) IN
           lost # {} =>
             /\ lost \subseteq {"collect_host_diagnostic", "collect_incident_triage_bundle"}
             /\ ~Demo(E) /\ Demo(F)
<1> DEFINE on(G) == Recommended(G) \cap Executable
           lost == on(E) \ on(F)
<1>1. \A x \in on(E) : x \in Executable
  OBVIOUS
<1>2. ASSUME NEW x \in lost
      PROVE  /\ x \in {"collect_host_diagnostic", "collect_incident_triage_bundle"}
             /\ ~Demo(E) /\ Demo(F)
  <2>1. x \in on(E) /\ x \notin on(F) /\ x \in Executable
    OBVIOUS
  <2>2. /\ x = "collect_process_diagnostic" => FALSE
        /\ x = "terminate_evidence_process" => FALSE
        /\ x = "collect_network_diagnostic" => FALSE
        /\ x = "restart_quietward_demo_service" => FALSE
    BY <2>1, EnabledMeans, MoreIsRelevant
  <2>3. /\ x = "collect_host_diagnostic" => ~Demo(E) /\ Demo(F)
        /\ x = "collect_incident_triage_bundle" => ~Demo(E) /\ Demo(F)
    BY <2>1, EnabledMeans, MoreIsRelevant
  <2> QED BY <2>1, <2>2, <2>3 DEF Executable
<1> QED BY <1>2

-----------------------------------------------------------------------------
(* The steps of Guidance *)

LEMMA Implements == GuidedInit /\ [][GuidedNext]_guidedVars => Spec
<1>1. GuidedInit => Init
  BY DEF GuidedInit
<1>2. [GuidedNext]_guidedVars => [Next]_vars
  BY DEF GuidedNext, GuidedIngest, Next, guidedVars
<1> QED BY <1>1, <1>2, PTL DEF Spec

\* Evidence joins one incident and leaves the others as they were.
LEMMA EvidenceJoins ==
    ASSUME IInv, NEW id \in EventId, NEW c \in Content, GuidedIngest(id, c)
    PROVE  \E i \in Incident :
              /\ Advise(i, c)
              /\ Opened' = Opened \cup {i}
              /\ EvidenceIn(i)' = EvidenceIn(i) \cup {EvidenceOf[c]}
              /\ \A j \in Opened \ {i} : EvidenceIn(j)' = EvidenceIn(j)
<1>1. id \notin Accepted
  BY IngestPlaces DEF IInv, GuidedIngest
<1>2. PICK i \in Incident, row \in IncidentRow : Placing(id, c, i, row)
  BY IngestPlaces DEF IInv, GuidedIngest
<1>3. Effect(id, c, i, row)
  BY <1>1, <1>2, AssignEffect DEF Placing
<1>4. PICK k \in Incident : events'[id].incident = k /\ Advise(k, c)
  BY DEF GuidedIngest
<1>5. k = i
  BY <1>3, <1>4 DEF Effect
<1>6. EvidenceIn(i)' = EvidenceIn(i) \cup {EvidenceOf[c]}
  <2>1. ContentsIn(i)' = ContentsIn(i) \cup {c}
    BY <1>3 DEF Effect
  <2> QED BY <2>1 DEF EvidenceIn
<1>7. \A j \in Opened \ {i} : EvidenceIn(j)' = EvidenceIn(j)
  BY <1>3 DEF Effect, EvidenceIn
<1>8. Opened' = Opened \cup {i}
  BY <1>3 DEF Effect
<1> QED BY <1>4, <1>5, <1>6, <1>7, <1>8

LEMMA OtherStepsKeep ==
    ASSUME \/ \E i \in Opened, s \in ActionableStatus \cup ClosedStatus, v \in Severity :
                  UpdateIncident(i, s, v)
           \/ Tick
           \/ UNCHANGED vars
    PROVE  Opened' = Opened /\ \A i : EvidenceIn(i)' = EvidenceIn(i)
BY DEF UpdateIncident, Tick, vars, Opened, EvidenceIn, ContentsIn, EventsIn, Of, Accepted

LEMMA AdvisedStep ==
    ASSUME GuidedInv, [GuidedNext]_guidedVars
    PROVE  Advised'
<1>1. ASSUME NEW id \in EventId, NEW c \in Content, GuidedIngest(id, c)
      PROVE  Advised'
  <2>1. PICK i \in Incident :
              /\ Advise(i, c)
              /\ Opened' = Opened \cup {i}
              /\ EvidenceIn(i)' = EvidenceIn(i) \cup {EvidenceOf[c]}
              /\ \A j \in Opened \ {i} : EvidenceIn(j)' = EvidenceIn(j)
    BY <1>1, EvidenceJoins DEF GuidedInv
  <2>2. PICK a \in Advices(EvidenceIn(i) \cup {EvidenceOf[c]}) :
            advice' = [j \in Opened \cup {i} |-> IF j = i THEN a ELSE advice[j]]
    BY <2>1 DEF Advise
  <2>3. ASSUME NEW j \in Opened'
        PROVE  advice'[j] \in Advices(EvidenceIn(j)')
    <3>1. CASE j = i
      BY <2>1, <2>2, <3>1
    <3>2. CASE j # i
      BY <2>1, <2>2, <2>3, <3>2 DEF GuidedInv, Advised
    <3> QED BY <3>1, <3>2
  <2>4. \A j \in Opened' : advice'[j] \in Advices(EvidenceIn(j))'
    BY <2>3 DEF Advices, Recommended, ProbableCause, Playbooks
  <2> QED BY <2>1, <2>2, <2>4 DEF Advised
<1>2. CASE /\ \/ \E i \in Opened, s \in ActionableStatus \cup ClosedStatus, v \in Severity :
                     UpdateIncident(i, s, v)
              \/ Tick
              \/ UNCHANGED vars
           /\ UNCHANGED advice
  BY <1>2, OtherStepsKeep DEF GuidedInv, Advised
<1> QED BY <1>1, <1>2 DEF GuidedNext, guidedVars

LEMMA GuidedInvariant == GuidedSpec => []GuidedInv
<1>1. GuidedInit => Advised
  BY DEF GuidedInit, Init, Advised, Opened
<1>2. GuidedInv /\ IInv' /\ [GuidedNext]_guidedVars => GuidedInv'
  BY AdvisedStep DEF GuidedInv
<1>3. GuidedSpec => []IInv
  BY Implements, Invariant, PTL DEF GuidedSpec
<1>4. IInv /\ Advised => GuidedInv
  BY DEF GuidedInv
<1> QED BY <1>1, <1>2, <1>3, <1>4, PTL DEF GuidedSpec

\* With its recommendations, ingestion is still ingestion: what is proved of it holds.
THEOREM GuidanceImplementsIngestion == GuidedSpec => Spec
BY Implements DEF GuidedSpec

\* An incident recommends what all its evidence calls for, as if evidence that claims
\* authority had brought no assessment (_refresh_incident, _metadata).
THEOREM AdviceIsOfTheEvidence == GuidedSpec => []AdviceFollowsEvidence
<1>1. GuidedInv => AdviceFollowsEvidence
  <2> SUFFICES ASSUME GuidedInv, NEW i \in Opened
               PROVE  advice[i].recommended = Recommended({Unclaimed(e) : e \in EvidenceIn(i)})
    BY DEF GuidedInv, Advised, AdviceFollowsEvidence
  <2>1. EvidenceIn(i) \in SUBSET Evidence
    BY InTyped, GuidanceAssumption DEF GuidedInv, IInv, EvidenceIn
  <2>2. advice[i].recommended = Recommended(EvidenceIn(i))
    BY DEF GuidedInv, Advised, Advices
  <2> QED BY <2>1, <2>2, ClaimsAreIgnored
<1> QED BY <1>1, GuidedInvariant, PTL

\* More evidence withdraws no capability, except that the demo service replaces the
\* host diagnostic and the triage (recommendations_for).
THEOREM CapabilitiesAreKept == GuidedSpec => CapabilitiesStay
<1>1. GuidedInv /\ GuidedInv' /\ [GuidedNext]_guidedVars =>
        [\A i \in Opened : LET lost == Enabled(i) \ Enabled(i)' IN
           lost # {} =>
             /\ lost \subseteq {"collect_host_diagnostic", "collect_incident_triage_bundle"}
             /\ ~Demo(EvidenceIn(i)) /\ Demo(EvidenceIn(i))']_guidedVars
  <2> SUFFICES ASSUME GuidedInv, GuidedInv', [GuidedNext]_guidedVars, NEW i \in Opened
               PROVE  LET lost == Enabled(i) \ Enabled(i)' IN
                      lost # {} =>
                        /\ lost \subseteq {"collect_host_diagnostic", "collect_incident_triage_bundle"}
                        /\ ~Demo(EvidenceIn(i)) /\ Demo(EvidenceIn(i))'
    OBVIOUS
  <2>1. i \in Opened' /\ EvidenceIn(i) \subseteq EvidenceIn(i)'
    <3>1. CASE \E id \in EventId, c \in Content : GuidedIngest(id, c)
      <4>1. PICK id \in EventId, c \in Content : GuidedIngest(id, c)
        BY <3>1
      <4>2. PICK k \in Incident :
                /\ Opened' = Opened \cup {k}
                /\ EvidenceIn(k)' = EvidenceIn(k) \cup {EvidenceOf[c]}
                /\ \A j \in Opened \ {k} : EvidenceIn(j)' = EvidenceIn(j)
        BY <4>1, EvidenceJoins DEF GuidedInv
      <4> QED BY <4>2
    <3>2. CASE ~\E id \in EventId, c \in Content : GuidedIngest(id, c)
      BY <3>2, OtherStepsKeep DEF GuidedNext, guidedVars
    <3> QED BY <3>1, <3>2
  <2>2. PICK E, F : E = EvidenceIn(i) /\ F = EvidenceIn(i)'
    OBVIOUS
  <2>3. Enabled(i) = Recommended(E) \cap Executable
    BY <2>2 DEF GuidedInv, Advised, Advices, Enabled
  <2>4. advice'[i].recommended = Recommended(EvidenceIn(i))'
    BY <2>1 DEF GuidedInv, Advised, Advices
  <2>5. Enabled(i)' = Recommended(F) \cap Executable
    BY <2>2, <2>4 DEF Enabled
  <2>6. Demo(EvidenceIn(i))' = Demo(F)
    BY <2>2
  <2> QED BY <2>1, <2>2, <2>3, <2>5, <2>6, OnlyDemoWithdraws
<1> QED BY <1>1, GuidedInvariant, PTL DEF GuidedSpec, CapabilitiesStay
=============================================================================
