----------------------------- MODULE RecoveryProofs -----------------------------
(***************************************************************************)
(* Theorems about Recovery, for any number of analysts, events, scopes,    *)
(* families, playbook versions and artifacts.                              *)
(*                                                                         *)
(* A step changes at most one case, and what it writes is a sound case     *)
(* (CaseSteps).  A closed incident is frozen: no step changes its cases,   *)
(* its events or its actions before it is opened again.                    *)
(*                                                                         *)
(* The total that a closure carries is a fold over the cases; it is shown  *)
(* to count the revisions that they have been through (TotalCounts), and   *)
(* what was read has been through a part of them.                          *)
(***************************************************************************)
EXTENDS Recovery, FiniteSetTheorems, WellFoundedInduction, TLAPS

Sound(case) == case \in Case /\ Earned(case)

AllSound == /\ Started \subseteq Category
            /\ cases = [c \in Started |-> cases[c]]
            /\ \A c \in Started : Sound(cases[c])

\* What was read is behind what is there, or is exactly that.
ScreenBehind ==
    \A c \in DOMAIN screen :
        /\ c \in Started
        /\ screen[c].revision <= cases[c].revision
        /\ screen[c].revision = cases[c].revision => screen[c] = cases[c]

\* No case is lost, and one that changes takes its next revision.
Forward ==
    \A c \in Started :
        c \in Started' /\ (cases'[c] = cases[c] \/ cases'[c].revision = cases[c].revision + 1)

IInv == TypeOK /\ StateIsEarned /\ ClosedIsRecovered /\ ScreenBehind

-----------------------------------------------------------------------------

LEMMA NewCaseSound ==
    ASSUME TypeOK, NEW f \in Family, NEW x \in Analyst, NEW b \in Artifact
    PROVE  Sound(NewCase(f, x, b))
BY RecoveryAssumption DEF TypeOK, Sound, Case, CaseState, Earned, NewCase

\* A commit writes one sound case and leaves the others as they are.
LEMMA CommitSound ==
    ASSUME TypeOK, AllSound, NEW c \in Started, NEW case, Sound(case), Commit(c, case),
           case.revision = cases[c].revision
    PROVE  AllSound' /\ Forward
<1> DEFINE next == [case EXCEPT !.revision = @ + 1]
<1>1. Sound(next)
  BY DEF Sound, Case, Earned
<1>2. cases' = [d \in Started |-> IF d = c THEN next ELSE cases[d]]
  BY DEF Commit, TypeOK, IsCases, Started
<1>3. Started' = Started
  BY <1>2 DEF Started
<1> QED
  BY <1>1, <1>2, <1>3 DEF AllSound, Forward, Sound, Case

LEMMA SoundTypes ==
    ASSUME TypeOK, StateIsEarned
    PROVE  AllSound
BY DEF TypeOK, IsCases, AllSound, Sound, StateIsEarned, Started

-----------------------------------------------------------------------------
(* The steps of one workflow *)

LEMMA StartSound ==
    ASSUME TypeOK, AllSound, NEW c \in Category, NEW f \in Family,
           NEW x \in Analyst, NEW b \in Artifact, Start(c, f, x, b)
    PROVE  AllSound' /\ Forward
<1>1. Sound(NewCase(f, x, b))
  BY NewCaseSound
<1>2. cases' = [d \in Started \cup {c} |-> IF d = c THEN NewCase(f, x, b) ELSE cases[d]]
  BY DEF Start
<1>3. Started' = Started \cup {c} /\ c \notin Started
  BY <1>2 DEF Started, Start
<1> QED
  BY <1>1, <1>2, <1>3 DEF AllSound, Forward

LEMMA ApproveSound ==
    ASSUME TypeOK, AllSound, NEW c \in Category, NEW x \in Analyst, Approve(c, x)
    PROVE  AllSound' /\ Forward
<1> DEFINE next == [cases[c] EXCEPT !.state = "approved", !.approver = x]
<1>1. c \in Started /\ Commit(c, next) /\ Sound(cases[c]) /\ next.revision = cases[c].revision
      /\ cases[c].state = "awaiting_approval" /\ x # cases[c].owner
  BY DEF Approve, OnCase, AllSound
<1>2. Sound(next)
  BY <1>1 DEF Sound, Case, CaseState, Earned
<1> QED
  BY <1>1, <1>2, CommitSound

LEMMA CheckpointSound ==
    ASSUME TypeOK, AllSound, NEW c \in Category, NEW a \in Artifact, NEW failed \in BOOLEAN,
           RecordCheckpoint(c, a, failed)
    PROVE  AllSound' /\ Forward
<1> DEFINE case == cases[c]
           needed == Steps[case.family][playbook[case.family]]
           after == IF failed THEN "blocked"
                    ELSE IF case.done + 1 = needed THEN "awaiting_verification"
                    ELSE "in_progress"
           next == [case EXCEPT !.done = @ + 1, !.receipts = @ \cup {a}, !.state = after]
<1>1. c \in Started /\ Commit(c, next) /\ Sound(case) /\ next.revision = cases[c].revision /\ Fresh(case)
      /\ case.state \in {"approved", "in_progress"}
  BY DEF RecordCheckpoint, OnCase, AllSound
<1>2. after \in {"blocked", "in_progress", "awaiting_verification"}
      /\ (after = "awaiting_verification" => case.done + 1 = needed)
  OBVIOUS
<1>3. needed = Steps[case.family][case.playbook]
  BY <1>1 DEF Fresh
<1> HIDE DEF needed, after
<1>4. Sound(next)
  <2>1. case \in Case /\ after \in CaseState /\ case.done + 1 \in Nat
        /\ case.receipts \cup {a} \in SUBSET Artifact
    BY <1>1, <1>2 DEF Sound, Case, CaseState
  <2>2. next \in Case
    BY <2>1 DEF Case
  <2>3. Earned(next)
    BY <1>1, <1>2, <1>3 DEF Sound, Case, Earned
  <2> QED BY <2>2, <2>3 DEF Sound
<1> QED
  BY <1>1, <1>4, CommitSound

LEMMA VerifySound ==
    ASSUME TypeOK, AllSound, NEW c \in Category, NEW x \in Analyst, NEW a \in Artifact,
           Verify(c, x, a)
    PROVE  AllSound' /\ Forward
<1> DEFINE case == cases[c]
           next == [case EXCEPT !.state = "verified", !.verifier = x, !.attested = a]
<1>1. c \in Started /\ Commit(c, next) /\ Sound(case) /\ next.revision = cases[c].revision
      /\ case.state = "awaiting_verification" /\ x # case.owner
  BY DEF Verify, OnCase, AllSound
<1>2. Sound(next)
  <2>1. next \in Case
    BY <1>1 DEF Sound, Case, CaseState
  <2>2. Earned(next)
    BY <1>1, RecoveryAssumption DEF Sound, Case, Earned
  <2> QED BY <2>1, <2>2 DEF Sound
<1> QED
  BY <1>1, <1>2, CommitSound

LEMMA EscalateSound ==
    ASSUME TypeOK, AllSound, NEW c \in Category, NEW x \in Analyst, Escalate(c, x)
    PROVE  AllSound' /\ Forward
<1> DEFINE next == [cases[c] EXCEPT !.state = "escalated", !.assigned = x, !.acknowledged = FALSE]
<1>1. c \in Started /\ Commit(c, next) /\ Sound(cases[c]) /\ next.revision = cases[c].revision /\ cases[c].state # "verified"
  BY DEF Escalate, OnCase, AllSound
<1>2. Sound(next)
  BY <1>1 DEF Sound, Case, CaseState, Earned
<1> QED
  BY <1>1, <1>2, CommitSound

LEMMA AcknowledgeSound ==
    ASSUME TypeOK, AllSound, NEW c \in Category, AcknowledgeEscalation(c)
    PROVE  AllSound' /\ Forward
<1> DEFINE next == [cases[c] EXCEPT !.acknowledged = TRUE]
<1>1. c \in Started /\ Commit(c, next) /\ Sound(cases[c]) /\ next.revision = cases[c].revision
  BY DEF AcknowledgeEscalation, OnCase, AllSound
<1>2. Sound(next)
  BY <1>1 DEF Sound, Case, Earned
<1> QED
  BY <1>1, <1>2, CommitSound

LEMMA RebaselineSound ==
    ASSUME TypeOK, AllSound, NEW c \in Category, NEW f \in Family, NEW b \in Artifact,
           Rebaseline(c, f, b)
    PROVE  AllSound' /\ Forward
<1> DEFINE new == NewCase(f, cases[c].owner, b)
           next == [new EXCEPT !.revision = cases[c].revision]
<1>1. c \in Started /\ Commit(c, next) /\ Sound(cases[c]) /\ next.revision = cases[c].revision
  BY DEF Rebaseline, OnCase, AllSound
<1>2. Sound(new)
  BY <1>1, NewCaseSound DEF Sound, Case
<1> HIDE DEF new
<1>3. Sound(next)
  BY <1>1, <1>2 DEF Sound, Case, Earned
<1> QED
  BY <1>1, <1>3, CommitSound

LEMMA ShownTyped ==
    ASSUME TypeOK, NEW c \in Category, NEW a \in Artifact, Show(c, a)
    PROVE  shown' \in [Category -> SUBSET Artifact]
BY DEF TypeOK, Show

\* Whatever is done about a scope, all cases remain sound, and it is done while
\* the incident is open.
LEMMA CaseSteps ==
    ASSUME TypeOK, AllSound, NEW c \in Category, CaseNext(c)
    PROVE  /\ AllSound' /\ Forward
           /\ status' \in OpenStatus
           /\ UNCHANGED <<events, playbook, busy, screen>>
           /\ shown' \in [Category -> SUBSET Artifact]
<1>1. CASE \E f \in Family, x \in Analyst, b \in Artifact : Start(c, f, x, b)
  <2>1. PICK f \in Family, x \in Analyst, b \in Artifact : Start(c, f, x, b)
    BY <1>1
  <2>2. AllSound' /\ Forward
    BY <2>1, StartSound
  <2>3. shown' \in [Category -> SUBSET Artifact]
    BY <2>1, ShownTyped DEF Start
  <2> QED
    BY <2>1, <2>2, <2>3 DEF Start, OpenStatus
<1>2. CASE \E x \in Analyst : Approve(c, x)
  BY <1>2, ApproveSound DEF Approve, OnCase, TypeOK
<1>3. CASE \E x \in Analyst : Escalate(c, x)
  BY <1>3, EscalateSound DEF Escalate, OnCase, TypeOK
<1>4. CASE \E a \in Artifact, failed \in BOOLEAN : RecordCheckpoint(c, a, failed)
  <2>1. PICK a \in Artifact, failed \in BOOLEAN : RecordCheckpoint(c, a, failed)
    BY <1>4
  <2>2. AllSound' /\ Forward
    BY <2>1, CheckpointSound
  <2>3. shown' \in [Category -> SUBSET Artifact]
    BY <2>1, ShownTyped DEF RecordCheckpoint
  <2> QED
    BY <2>1, <2>2, <2>3 DEF RecordCheckpoint, OnCase
<1>5. CASE \E x \in Analyst, a \in Artifact : Verify(c, x, a)
  BY <1>5, VerifySound DEF Verify, OnCase, TypeOK
<1>6. CASE AcknowledgeEscalation(c)
  BY <1>6, AcknowledgeSound DEF AcknowledgeEscalation, OnCase, TypeOK
<1>7. CASE \E f \in Family, b \in Artifact : Rebaseline(c, f, b)
  BY <1>7, RebaselineSound DEF Rebaseline, OnCase, Show, TypeOK
<1> QED
  BY <1>1, <1>2, <1>3, <1>4, <1>5, <1>6, <1>7 DEF CaseNext

-----------------------------------------------------------------------------
(* The invariant *)

LEMMA ForwardSuffices ==
    ASSUME TypeOK, AllSound, ScreenBehind, Forward, UNCHANGED screen
    PROVE  ScreenBehind'
<1> SUFFICES ASSUME NEW c \in DOMAIN screen
             PROVE  /\ c \in Started'
                    /\ screen[c].revision <= cases'[c].revision
                    /\ screen[c].revision = cases'[c].revision => screen[c] = cases'[c]
  BY DEF ScreenBehind
<1>1. /\ c \in Started /\ screen[c].revision <= cases[c].revision
      /\ screen[c].revision = cases[c].revision => screen[c] = cases[c]
  BY DEF ScreenBehind
<1>2. screen[c].revision \in Nat /\ cases[c].revision \in Nat
  BY <1>1 DEF TypeOK, IsCases, Case, AllSound, Sound
<1>3. c \in Started' /\ (cases'[c] = cases[c] \/ cases'[c].revision = cases[c].revision + 1)
  BY <1>1 DEF Forward
<1> QED
  BY <1>1, <1>2, <1>3

LEMMA CasesKept ==
    ASSUME ScreenBehind, UNCHANGED <<cases, screen>>
    PROVE  ScreenBehind'
BY DEF ScreenBehind, Started

LEMMA Initial == Init => IInv
<1> SUFFICES ASSUME Init PROVE IInv
  OBVIOUS
<1>1. Started = {}
  BY DEF Init, Started
<1>2. IsCases(cases) /\ IsCases(screen)
  BY <1>1 DEF Init, IsCases, Started
<1> QED
  BY <1>1, <1>2 DEF Init, IInv, TypeOK, StateIsEarned, ClosedIsRecovered,
                    ScreenBehind, OpenStatus, ClosedStatus

\* The two ways to close an incident that has cases both ask for this.
LEMMA RecoveredSuffices ==
    ASSUME Recovered, UNCHANGED <<cases, events>>, ~busy'
    PROVE  ClosedIsRecovered'
BY DEF Recovered, Fresh, ClosedIsRecovered, Started, Scopes

\* Nothing about a closed incident changes.
LEMMA ClosedStays ==
    ASSUME ClosedIsRecovered, UNCHANGED <<cases, events, busy, status>>
    PROVE  ClosedIsRecovered'
BY DEF ClosedIsRecovered, Started, Scopes

LEMMA OpenSuffices ==
    ASSUME status' \in OpenStatus
    PROVE  ClosedIsRecovered'
BY DEF ClosedIsRecovered, OpenStatus, ClosedStatus

LEMMA SoundSuffices ==
    ASSUME AllSound', UNCHANGED <<events, playbook, busy, screen>>, TypeOK,
           status' \in OpenStatus \cup ClosedStatus,
           shown' \in [Category -> SUBSET Artifact]
    PROVE  TypeOK' /\ StateIsEarned'
BY DEF AllSound, Sound, TypeOK, IsCases, StateIsEarned, Started

LEMMA Inductive == IInv /\ [Next]_recoveryVars => IInv'
<1> SUFFICES ASSUME IInv, [Next]_recoveryVars PROVE IInv'
  OBVIOUS
<1>0. TypeOK /\ StateIsEarned /\ ClosedIsRecovered /\ AllSound /\ ScreenBehind
  BY SoundTypes DEF IInv
<1>1. ASSUME NEW e \in Event, IngestEvent(e) PROVE IInv'
  <2>1. UNCHANGED cases /\ status' \in OpenStatus
    BY <1>1 DEF IngestEvent
  <2>2. TypeOK' /\ StateIsEarned'
    BY <1>0, <1>1 DEF IngestEvent, TypeOK, StateIsEarned, Started
  <2> QED
    BY <1>0, <1>1, <2>1, <2>2, OpenSuffices, CasesKept DEF IInv, IngestEvent
<1>2. ASSUME NEW f \in Family, NEW v \in Version, Release(f, v) PROVE IInv'
  <2>1. TypeOK' /\ StateIsEarned'
    BY <1>0, <1>2 DEF Release, TypeOK, StateIsEarned, Started
  <2> QED
    BY <1>0, <1>2, <2>1, ClosedStays, CasesKept DEF IInv, Release
<1>3. CASE ActionsChange
  <2>1. TypeOK' /\ StateIsEarned'
    BY <1>0, <1>3 DEF ActionsChange, TypeOK, StateIsEarned, Started
  <2>2. ClosedIsRecovered'
    BY <1>0, <1>3 DEF ActionsChange, ClosedIsRecovered, Started, Scopes, OpenStatus, ClosedStatus
  <2> QED
    BY <1>0, <1>3, <2>1, <2>2, CasesKept DEF IInv, ActionsChange
<1>4. CASE Read
  <2>1. TypeOK' /\ StateIsEarned'
    BY <1>0, <1>4 DEF Read, TypeOK, StateIsEarned, Started
  <2>2. ScreenBehind'
    <3>1. \A c \in Started : cases[c].revision \in Nat
      BY <1>0 DEF AllSound, Sound, Case
    <3> QED
      BY <1>4, <3>1 DEF Read, ScreenBehind, Started
  <2> QED
    BY <1>0, <1>4, <2>1, <2>2, ClosedStays DEF IInv, Read
<1>5. ASSUME NEW c \in Category, CaseNext(c) PROVE IInv'
  <2>1. /\ AllSound' /\ Forward
        /\ status' \in OpenStatus
        /\ UNCHANGED <<events, playbook, busy, screen>>
        /\ shown' \in [Category -> SUBSET Artifact]
    BY <1>0, <1>5, CaseSteps
  <2> QED
    BY <1>0, <2>1, SoundSuffices, OpenSuffices, ForwardSuffices DEF IInv
<1>6. ASSUME NEW s \in OpenStatus \cup ClosedStatus, PatchStatus(s) PROVE IInv'
  <2>1. TypeOK' /\ StateIsEarned'
    BY <1>0, <1>6 DEF PatchStatus, TypeOK, StateIsEarned, Started
  <2>2. ScreenBehind'
    BY <1>0, <1>6, CasesKept DEF PatchStatus
  <2>3. CASE s \in ClosedStatus /\ Started # {}
    BY <1>6, <2>1, <2>3, <2>2, RecoveredSuffices DEF IInv, PatchStatus, Recovered
  <2>4. CASE s \in OpenStatus
    BY <1>6, <2>1, <2>4, <2>2, OpenSuffices DEF IInv, PatchStatus
  <2>5. CASE Started = {}
    BY <1>6, <2>1, <2>5, <2>2 DEF IInv, PatchStatus, ClosedIsRecovered, Started
  <2> QED
    BY <2>3, <2>4, <2>5
<1>7. CASE CloseVerified
  <2>1. TypeOK' /\ StateIsEarned'
    BY <1>0, <1>7 DEF CloseVerified, TypeOK, StateIsEarned, Started, ClosedStatus
  <2> QED
    BY <1>0, <1>7, <2>1, RecoveredSuffices, CasesKept DEF IInv, CloseVerified, Recovered
<1>8. CASE UNCHANGED recoveryVars
  <2>1. TypeOK' /\ StateIsEarned'
    BY <1>0, <1>8 DEF recoveryVars, TypeOK, StateIsEarned, Started
  <2> QED
    BY <1>0, <1>8, <2>1, ClosedStays, CasesKept DEF IInv, recoveryVars
<1> QED
  BY <1>1, <1>2, <1>3, <1>4, <1>5, <1>6, <1>7, <1>8 DEF Next

LEMMA Invariant == Spec => []IInv
BY Initial, Inductive, PTL DEF Spec

-----------------------------------------------------------------------------

\* The tables of the recovery service are always well typed.
THEOREM TypeCorrect == Spec => []TypeOK
BY Invariant, PTL DEF IInv

\* No case is ever in a state that its approval, its checkpoints and its
\* verification do not account for (approve, checkpoint, verify, rebaseline).
THEOREM StatesAreEarned == Spec => []StateIsEarned
BY Invariant, PTL DEF IInv

\* Closing an incident that has cases, by either route, means recovery by another
\* analyst on all of its evidence, and it stays so (assert_closure).
THEOREM ClosureIsRecovery == Spec => []ClosedIsRecovered
BY Invariant, PTL DEF IInv

\* A revision that is still current stands for exactly what its reader saw, so
\* expected_revision guards against every intermediate change (_get, _commit).
THEOREM RevisionsIdentify == Spec => []RevisionIdentifies
<1>1. IInv => RevisionIdentifies
  BY DEF IInv, ScreenBehind, RevisionIdentifies
<1> QED
  BY <1>1, Invariant, PTL

-----------------------------------------------------------------------------
(* What a total counts *)

LEMMA LeastExists ==
    ASSUME NEW S \in SUBSET Nat, S # {}
    PROVE  \E m \in S : \A n \in S : m <= n
<1> DEFINE R == {ss \in Nat \X Nat : ss[1] < ss[2]}
<1>1. IsWellFoundedOn(R, Nat)
  BY NatLessThanWellFounded, Zenon DEF OpToRel
<1> HIDE DEF R
<1>2. PICK m \in S : \A n \in S : ~(<<n, m>> \in R)
  BY <1>1, WFMin, Zenon
<1>3. \A n \in S : ~(n < m)
  BY <1>2 DEF R
<1> QED
  BY <1>3

\* The case that a sum takes next out of a set of them.
Some(s) == CHOOSE c \in s : TRUE

\* How a sum over a set builds on those over its subsets.
IsTally(cs, Sets, f) ==
    f = [s \in Sets |-> IF s = {} THEN 0 ELSE cs[Some(s)].revision + f[s \ {Some(s)}]]

\* There is such a function: the smallest size at which there were none would
\* have one, built on the one for the size before it.
LEMMA TallyExists ==
    ASSUME NEW cs, NEW S, IsFiniteSet(S)
    PROVE  \E f : IsTally(cs, SUBSET S, f)
<1> DEFINE Up(n) == {s \in SUBSET S : Cardinality(s) <= n}
           Bad == {n \in Nat : ~ \E f : IsTally(cs, Up(n), f)}
<1>1. \A s \in SUBSET S : IsFiniteSet(s) /\ Cardinality(s) \in Nat
  BY FS_Subset, FS_CardinalityType
<1>2. ASSUME NEW m \in Bad, \A n \in Bad : m <= n
      PROVE  FALSE
  <2>1. CASE m = 0
    <3> DEFINE f == [s \in Up(m) |-> 0]
    <3>1. \A s \in Up(m) : s = {}
      BY <1>1, <2>1, FS_EmptySet
    <3>2. IsTally(cs, Up(m), f)
      BY <3>1 DEF IsTally
    <3> HIDE DEF f, Up
    <3> QED
      BY <3>2
  <2>2. CASE m # 0
    <3>1. m - 1 \in Nat /\ m - 1 \notin Bad /\ m \in Nat
      <4>1. m \in Nat
        OBVIOUS
      <4>2. m - 1 \in Nat /\ ~(m <= m - 1)
        BY <2>2, <4>1
      <4> HIDE DEF Bad
      <4> QED
        BY <1>2, <4>1, <4>2
    <3>2. PICK f : IsTally(cs, Up(m - 1), f)
      BY <3>1
    <3> DEFINE rest(s) == s \ {Some(s)}
               g == [s \in Up(m) |-> IF s = {} THEN 0 ELSE cs[Some(s)].revision + f[rest(s)]]
    <3>3. \A s \in Up(m) : s # {} => rest(s) \in Up(m - 1)
      <4> SUFFICES ASSUME NEW s \in Up(m), s # {} PROVE rest(s) \in Up(m - 1)
        OBVIOUS
      <4>1. Some(s) \in s
        BY DEF Some
      <4>2. Cardinality(rest(s)) = Cardinality(s) - 1
        BY <1>1, <4>1, FS_RemoveElement
      <4> QED
        BY <1>1, <3>1, <4>2
    <3>4. Up(m - 1) \subseteq Up(m)
      BY <1>1, <3>1
    <3>5. \A s \in Up(m - 1) : g[s] = f[s]
      <4> HIDE DEF Up
      <4> QED
        BY <3>2, <3>4 DEF IsTally
    <3>6. IsTally(cs, Up(m), g)
      <4> HIDE DEF Up
      <4>1. \A s \in Up(m) : s # {} => g[rest(s)] = f[rest(s)]
        BY <3>3, <3>5
      <4> QED
        BY <4>1 DEF IsTally
    <3> HIDE DEF g, Up
    <3> QED
      BY <3>6
  <2> QED
    BY <2>1, <2>2
<1>3. Bad = {}
  <2> HIDE DEF Bad
  <2>1. Bad \in SUBSET Nat
    BY DEF Bad
  <2> QED
    BY <1>2, <2>1, LeastExists
<1>4. Cardinality(S) \in Nat /\ \A s \in SUBSET S : Cardinality(s) <= Cardinality(S)
  BY FS_Subset, FS_CardinalityType
<1>5. Up(Cardinality(S)) = SUBSET S
  BY <1>4
<1> HIDE DEF Up
<1>6. \E f : IsTally(cs, Up(Cardinality(S)), f)
  BY <1>3, <1>4
<1> QED
  BY <1>5, <1>6

\* Total is the value of such a function.
LEMMA TotalIsTally ==
    ASSUME NEW cs, IsFiniteSet(DOMAIN cs)
    PROVE  \E f : IsTally(cs, SUBSET DOMAIN cs, f) /\ Total(cs) = f[DOMAIN cs]
<1> DEFINE f == CHOOSE h : IsTally(cs, SUBSET DOMAIN cs, h)
<1>1. IsTally(cs, SUBSET DOMAIN cs, f)
  BY TallyExists
<1>2. Total(cs) = f[DOMAIN cs]
  BY DEF Total, MapThenSumSet, MapThenFoldSet, IsTally, Some
<1> HIDE DEF f
<1> QED
  BY <1>1, <1>2

\* The revisions that the cases of a set have been through.
Passed(cs, s) == {r \in s \X Nat : r[2] \in 1..cs[r[1]].revision}

LEMMA PassedOne ==
    ASSUME NEW cs, NEW s, NEW c \in s, NEW n \in Nat, n = cs[c].revision,
           NEW rest, rest = s \ {c}, IsFiniteSet(Passed(cs, rest))
    PROVE  /\ IsFiniteSet(Passed(cs, s))
           /\ Cardinality(Passed(cs, s)) = n + Cardinality(Passed(cs, rest))
<1> DEFINE others == Passed(cs, rest)
           own == {c} \X (1..n)
<1>1. Passed(cs, s) = others \cup own
  BY DEF Passed
<1>2. others \cap own = {}
  BY DEF Passed
<1>3. IsFiniteSet(1..n) /\ Cardinality(1..n) = n
  <2>1. n \in Int /\ 1 \in Int
    OBVIOUS
  <2>2. IsFiniteSet(1..n) /\ Cardinality(1..n) = IF 1 > n THEN 0 ELSE n - 1 + 1
    BY <2>1, FS_Interval, Zenon
  <2>3. (IF 1 > n THEN 0 ELSE n - 1 + 1) = n
    OBVIOUS
  <2> QED
    BY <2>2, <2>3
<1>4. IsFiniteSet({c}) /\ Cardinality({c}) = 1
  BY FS_Singleton
<1>5. IsFiniteSet(own) /\ Cardinality(own) = n
  <2>1. IsFiniteSet(own) /\ Cardinality(own) = Cardinality({c}) * Cardinality(1..n)
    BY <1>3, <1>4, FS_Product
  <2>2. 1 * n = n
    OBVIOUS
  <2> QED
    BY <1>3, <1>4, <2>1, <2>2
<1> HIDE DEF own, others
<1>6. /\ IsFiniteSet(others \cup own)
      /\ Cardinality(others \cup own)
           = Cardinality(others) + Cardinality(own) - Cardinality(others \cap own)
  BY <1>5, FS_Union DEF others
<1>7. Cardinality(others \cap own) = 0 /\ Cardinality(others) \in Nat
  BY <1>2, FS_EmptySet, FS_CardinalityType DEF others
<1> QED
  BY <1>1, <1>5, <1>6, <1>7 DEF others

LEMMA TallyCounts ==
    ASSUME NEW cs, NEW S, IsFiniteSet(S), \A c \in S : cs[c].revision \in Nat,
           NEW f, IsTally(cs, SUBSET S, f)
    PROVE  \A s \in SUBSET S :
               IsFiniteSet(Passed(cs, s)) /\ f[s] = Cardinality(Passed(cs, s))
<1> DEFINE Counts(s) == IsFiniteSet(Passed(cs, s)) /\ f[s] = Cardinality(Passed(cs, s))
           Bad == {n \in Nat : \E s \in SUBSET S : Cardinality(s) = n /\ ~Counts(s)}
<1>1. \A s \in SUBSET S : IsFiniteSet(s) /\ Cardinality(s) \in Nat
  BY FS_Subset, FS_CardinalityType
<1>2. ASSUME NEW m \in Bad, \A n \in Bad : m <= n
      PROVE  FALSE
  <2>1. PICK s \in SUBSET S : Cardinality(s) = m /\ ~Counts(s)
    OBVIOUS
  <2>2. f[s] = IF s = {} THEN 0 ELSE cs[Some(s)].revision + f[s \ {Some(s)}]
    BY DEF IsTally
  <2>3. CASE s = {}
    <3>1. Passed(cs, s) = {}
      BY <2>3 DEF Passed
    <3> QED
      BY <2>1, <2>2, <2>3, <3>1, FS_EmptySet
  <2>4. CASE s # {}
    <3>1. Some(s) \in s /\ cs[Some(s)].revision \in Nat
      BY <2>4 DEF Some
    <3>2. Cardinality(s \ {Some(s)}) = m - 1 /\ m - 1 \in Nat
      BY <1>1, <2>1, <3>1, FS_RemoveElement
    <3>3. m - 1 \notin Bad
      BY <1>2, <3>2
    <3>4. Counts(s \ {Some(s)})
      BY <3>2, <3>3
    <3>5. /\ IsFiniteSet(Passed(cs, s))
          /\ Cardinality(Passed(cs, s))
               = cs[Some(s)].revision + Cardinality(Passed(cs, s \ {Some(s)}))
      BY <3>1, <3>4, PassedOne
    <3> QED
      BY <2>1, <2>2, <2>4, <3>4, <3>5
  <2> QED
    BY <2>3, <2>4
<1>3. Bad = {}
  <2> HIDE DEF Bad
  <2>1. Bad \in SUBSET Nat
    BY DEF Bad
  <2> QED
    BY <1>2, <2>1, LeastExists
<1> QED
  BY <1>1, <1>3

\* A total is the number of revisions its cases have been through.
LEMMA TotalCounts ==
    ASSUME NEW cs, IsFiniteSet(DOMAIN cs), \A c \in DOMAIN cs : cs[c].revision \in Nat
    PROVE  /\ IsFiniteSet(Passed(cs, DOMAIN cs))
           /\ Total(cs) = Cardinality(Passed(cs, DOMAIN cs))
<1>1. PICK f : IsTally(cs, SUBSET DOMAIN cs, f) /\ Total(cs) = f[DOMAIN cs]
  BY TotalIsTally
<1> QED
  BY <1>1, TallyCounts

-----------------------------------------------------------------------------
(* The total tells two catalogues apart *)

\* Finitely many cases were started, each at revision 1.
Counted == IsFiniteSet(Started) /\ \A c \in Started : cases[c].revision >= 1

LEMMA CommitKeeps ==
    ASSUME NEW c, NEW case, Commit(c, case)
    PROVE  Started' = Started
  BY DEF Commit, Started

\* The only case a step adds is a new one.
LEMMA StartedStep ==
    ASSUME [Next]_recoveryVars
    PROVE  \/ UNCHANGED cases
           \/ Started' = Started
           \/ \E c : Started' = Started \cup {c} /\ cases'[c].revision = 1
<1>1. ASSUME NEW c \in Category, CaseNext(c)
      PROVE  \/ Started' = Started
             \/ Started' = Started \cup {c} /\ cases'[c].revision = 1
  <2>1. ASSUME NEW f \in Family, NEW x \in Analyst, NEW b \in Artifact, Start(c, f, x, b)
        PROVE  Started' = Started \cup {c} /\ cases'[c].revision = 1
    BY <2>1 DEF Start, Started, NewCase
  <2>2. ASSUME NEW case, Commit(c, case)
        PROVE  Started' = Started
    BY <2>2, CommitKeeps
  <2> QED
    BY <1>1, <2>1, <2>2
       DEF CaseNext, Approve, Escalate, RecordCheckpoint, Verify, AcknowledgeEscalation, Rebaseline
<1>2. (\A c \in Category : ~CaseNext(c)) => UNCHANGED cases
  BY DEF Next, IngestEvent, Release, ActionsChange, Read, PatchStatus, CloseVerified, recoveryVars
<1> QED
  BY <1>1, <1>2

LEMMA ForwardAlways ==
    ASSUME IInv, [Next]_recoveryVars
    PROVE  Forward
<1>1. ASSUME NEW c \in Category, CaseNext(c)
      PROVE  Forward
  BY <1>1, CaseSteps, SoundTypes DEF IInv
<1>2. UNCHANGED cases => Forward
  BY DEF Forward, Started
<1> QED
  BY <1>1, <1>2
     DEF Next, IngestEvent, Release, ActionsChange, Read, PatchStatus, CloseVerified, recoveryVars

LEMMA CountedAlways == Spec => []Counted
<1>1. Init => Counted
  BY FS_EmptySet DEF Init, Counted, Started
<1>2. ASSUME IInv, Counted, [Next]_recoveryVars
      PROVE  Counted'
  <2>1. IsFiniteSet(Started')
    BY <1>2, StartedStep, FS_AddElement DEF Counted, Started
  <2>2. ASSUME NEW c \in Started'
        PROVE  cases'[c].revision >= 1
    <3>1. CASE c \in Started
      <4>1. cases[c].revision \in Nat /\ cases[c].revision >= 1
        BY <1>2, <3>1 DEF IInv, TypeOK, IsCases, Case, Started, Counted
      <4> QED
        BY <1>2, <3>1, <4>1, ForwardAlways DEF Forward
    <3>2. CASE c \notin Started
      <4>1. ~UNCHANGED cases /\ Started' # Started
        BY <3>2 DEF Started
      <4>2. PICK d : Started' = Started \cup {d} /\ cases'[d].revision = 1
        BY <1>2, <4>1, StartedStep
      <4> QED
        BY <3>2, <4>2
    <3> QED
      BY <3>1, <3>2
  <2> QED
    BY <2>1, <2>2 DEF Counted
<1> QED
  BY <1>1, <1>2, Invariant, PTL DEF Spec

\* A closure that carries the total of the revisions its analyst has read is
\* refused whenever a case has moved or been added since: what was read has been
\* through a part of the revisions, and as many only if it is all of them.
THEOREM TotalsIdentify == Spec => []TotalIdentifies
<1>1. ASSUME IInv, Counted, Total(screen) = Total(cases)
      PROVE  screen = cases
  <2>1. /\ IsCases(screen) /\ IsCases(cases) /\ ScreenBehind
        /\ IsFiniteSet(DOMAIN cases) /\ DOMAIN screen \subseteq DOMAIN cases
    BY <1>1 DEF IInv, TypeOK, Counted, ScreenBehind, Started
  <2>2. /\ \A c \in DOMAIN screen : screen[c].revision \in Nat
        /\ \A c \in DOMAIN cases : cases[c].revision \in Nat
    BY <2>1 DEF IsCases, Case
  <2> DEFINE seen == Passed(screen, DOMAIN screen)
             there == Passed(cases, DOMAIN cases)
  <2>3. IsFiniteSet(there) /\ Total(cases) = Cardinality(there)
    BY <2>1, <2>2, TotalCounts
  <2>4. Total(screen) = Cardinality(seen)
    BY <2>1, <2>2, FS_Subset, TotalCounts
  <2>5. seen \subseteq there
    BY <2>1, <2>2 DEF Passed, ScreenBehind
  <2>6. seen = there
    BY <1>1, <2>3, <2>4, <2>5, FS_Subset
  <2>7. ASSUME NEW c \in DOMAIN cases
        PROVE  c \in DOMAIN screen /\ screen[c] = cases[c]
    <3>1. cases[c].revision \in Nat /\ cases[c].revision >= 1
      BY <1>1, <2>2 DEF Counted, Started
    <3>2. <<c, cases[c].revision>> \in there
      BY <3>1 DEF Passed
    <3>3. c \in DOMAIN screen /\ cases[c].revision <= screen[c].revision
      BY <2>6, <3>2 DEF Passed
    <3> QED
      BY <2>1, <2>2, <3>1, <3>3 DEF ScreenBehind
  <2> QED
    BY <2>1, <2>7 DEF IsCases
<1>2. IInv /\ Counted => TotalIdentifies
  BY <1>1 DEF TotalIdentifies
<1> QED
  BY <1>2, Invariant, CountedAlways, PTL
=============================================================================
