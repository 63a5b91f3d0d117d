---------------------------- MODULE AuditChainProofs ----------------------------
(***************************************************************************)
(* Theorems about AuditChain, for any ids, tables and clock.               *)
(***************************************************************************)
EXTENDS AuditChain, FiniteSetTheorems, WellFoundedInduction, TLAPS

USE AuditAssumption DEF Genesis

-----------------------------------------------------------------------------
(* The order of rows, and the last row of a table *)

LEMMA RowTypes == ASSUME NEW r \in Row PROVE r.time \in Nat /\ r.id \in Nat /\ r.id # 0
BY DEF Row

LEMMA BeforeIsStrict ==
  ASSUME NEW r \in Row, NEW s \in Row
  PROVE  /\ ~ Before(r, r)
         /\ Before(r, s) => ~ Before(s, r)
         /\ r.id # s.id => Before(r, s) \/ Before(s, r)
BY RowTypes DEF Before

LEMMA BeforeIsTransitive ==
  ASSUME NEW r \in Row, NEW s \in Row, NEW t \in Row, Before(r, s), Before(s, t)
  PROVE  Before(r, t)
BY RowTypes DEF Before

Top(S) == \E r \in S : \A s \in S : s = r \/ Before(s, r)

LEMMA LeastCardinality ==
  ASSUME NEW B \in SUBSET Nat, NEW n \in B
  PROVE  \E m \in B : \A k \in B : m <= k
<1> DEFINE R == {ss \in Nat \X Nat : ss[1] < ss[2]}
<1>1. IsWellFoundedOn(R, Nat)
  BY NatLessThanWellFounded, Zenon DEF OpToRel
<1> HIDE DEF R
<1>2. PICK m \in B : \A k \in B : ~ (<<k, m>> \in R)
  BY <1>1, WFMin, Zenon
<1>3. \A k \in B : m <= k
  <2> SUFFICES ASSUME NEW k \in B PROVE m <= k
    OBVIOUS
  <2>1. ~ (k < m)
    BY <1>2 DEF R
  <2> QED BY <2>1
<1> QED BY <1>3

\* A smallest table without a last row would stay one without any row.
LEMMA TopExists ==
  ASSUME NEW S, IsTable(S), S # {}
  PROVE  Top(S)
<1> DEFINE Bad == {n \in Nat : \E U \in SUBSET S : U # {} /\ ~ Top(U) /\ Cardinality(U) = n}
<1>0. S \subseteq Row /\ IsFiniteSet(S) /\ \A r, s \in S : r.id = s.id => r = s
  BY DEF IsTable
<1>1. ASSUME ~ Top(S) PROVE FALSE
  <2>1. Cardinality(S) \in Bad
    BY <1>0, <1>1, FS_CardinalityType
  <2>2. PICK m \in Bad : \A k \in Bad : m <= k
    BY <2>1, LeastCardinality
  <2>3. PICK U \in SUBSET S : U # {} /\ ~ Top(U) /\ Cardinality(U) = m
    BY <2>2
  <2>4. PICK x \in U : TRUE
    BY <2>3
  <2>5. /\ IsFiniteSet(U \ {x}) /\ Cardinality(U \ {x}) = m - 1
        /\ m \in Nat /\ Cardinality(U \ {x}) \in Nat
    BY <1>0, <2>3, <2>4, FS_Subset, FS_RemoveElement, FS_CardinalityType
  <2>6. Cardinality(U \ {x}) \notin Bad
    <3> HIDE DEF Bad
    <3> QED BY <2>2, <2>5
  <2>7. U \ {x} = {} \/ Top(U \ {x})
    BY <2>5, <2>6
  <2>8. CASE U \ {x} = {}
    BY <2>3, <2>4, <2>8 DEF Top
  <2>9. CASE Top(U \ {x})
    <3>1. PICK y \in U \ {x} : \A s \in U \ {x} : s = y \/ Before(s, y)
      BY <2>9 DEF Top
    <3>2. x \in Row /\ y \in Row /\ x.id # y.id
      BY <1>0, <2>4, <3>1
    <3>3. CASE Before(x, y)
      BY <2>3, <3>1, <3>3 DEF Top
    <3>4. CASE Before(y, x)
      <4>1. \A s \in U : s = x \/ Before(s, x)
        <5> TAKE s \in U
        <5>1. s \in Row
          BY <1>0, <2>3
        <5> QED BY <3>1, <3>2, <3>4, <5>1, BeforeIsTransitive
      <4> QED BY <2>3, <2>4, <4>1 DEF Top
    <3> QED BY <3>2, <3>3, <3>4, BeforeIsStrict
  <2> QED BY <2>7, <2>8, <2>9
<1> QED BY <1>1

LEMMA LastIsLast ==
  ASSUME NEW S, IsTable(S), S # {}
  PROVE  /\ Last(S) \in S
         /\ \A s \in S : s = Last(S) \/ Before(s, Last(S))
BY TopExists DEF Top, Last

LEMMA TableOfFewer ==
  ASSUME NEW S, IsTable(S), NEW T \in SUBSET S PROVE IsTable(T)
BY FS_Subset DEF IsTable

\* A row behind a table sees the whole of it, and the rows of the table do not see the new one.
LEMMA EarlierOfMore ==
  ASSUME NEW S, NEW x \in Row, S \subseteq Row, \A s \in S : Before(s, x)
  PROVE  /\ Earlier(S \cup {x}, x) = S
         /\ \A s \in S : Earlier(S \cup {x}, s) = Earlier(S, s)
<1>1. ~ Before(x, x) /\ \A s \in S : ~ Before(x, s)
  BY BeforeIsStrict
<1> QED BY <1>1 DEF Earlier

\* A stamped row is behind the table.
LEMMA StampIsLater ==
  ASSUME NEW S, IsTable(S), NEW x \in Row, now \in Nat, x.time = Stamp(S), NEW s \in S
  PROVE  Before(s, x)
<1>1. Last(S) \in S /\ (s = Last(S) \/ Before(s, Last(S)))
  BY LastIsLast
<1>2. Last(S).time \in Nat /\ s.time \in Nat /\ s.time <= Last(S).time
  BY <1>1, RowTypes DEF IsTable, Before
<1>3. x.time > Last(S).time /\ x.time \in Nat
  <2>1. S # {} /\ x.time \in Nat
    BY RowTypes
  <2> QED BY <1>2, <2>1 DEF Stamp
<1> QED BY <1>2, <1>3 DEF Before

\* The chain goes on: a row that refers to the head of a valid table makes it a valid one.
LEMMA ChainGrows ==
  ASSUME NEW S, S \subseteq Row, Valid(S), NEW x \in Row, \A s \in S : Before(s, x),
         x.hashed, x.prev = HeadHash(S)
  PROVE  Valid(S \cup {x})
<1> SUFFICES ASSUME NEW r \in S \cup {x}
             PROVE  r.hashed /\ r.prev = HeadHash(Earlier(S \cup {x}, r))
  BY DEF Valid
<1>1. CASE r = x
  BY <1>1, EarlierOfMore
<1>2. CASE r \in S
  BY <1>2, EarlierOfMore DEF Valid
<1> QED BY <1>1, <1>2

LEMMA LastIsUnique ==
  ASSUME NEW S, S \subseteq Row, NEW y \in S, \A s \in S : s = y \/ Before(s, y)
  PROVE  Last(S) = y
<1>1. \A z \in S : (\A s \in S : s = z \/ Before(s, z)) => z = y
  BY BeforeIsStrict
<1> QED BY <1>1 DEF Last

LEMMA LinkedRow ==
  ASSUME NEW S, IsTable(S), NEW r \in S
  PROVE  /\ Linked(S, r) \in Row
         /\ Linked(S, r).id = r.id /\ Linked(S, r).time = r.time /\ Linked(S, r).hashed
         /\ Linked(S, r).prev = IF Earlier(S, r) = {} THEN Genesis ELSE Last(Earlier(S, r)).id
<1>1. r \in Row
  BY DEF IsTable
<1>2. (IF Earlier(S, r) = {} THEN Genesis ELSE Last(Earlier(S, r)).id) \in AuditId \cup {Genesis}
  <2>1. ASSUME Earlier(S, r) # {} PROVE Last(Earlier(S, r)).id \in AuditId
    <3>1. IsTable(Earlier(S, r))
      BY TableOfFewer DEF Earlier
    <3> QED BY <2>1, <3>1, LastIsLast DEF IsTable, Row
  <2> QED BY <2>1
<1> QED BY <1>1, <1>2 DEF Linked, Row

\* The backfill turns any table into a valid one with the same ids and times.
LEMMA BackfillIsValid ==
  ASSUME NEW S, IsTable(S), NEW T, T = {Linked(S, r) : r \in S}
  PROVE  IsTable(T) /\ Valid(T)
<1>1. T \subseteq Row /\ \A t, u \in T : t.id = u.id => t = u
  BY LinkedRow DEF IsTable
<1>2. IsFiniteSet(T)
  <2> DEFINE f == [r \in S |-> Linked(S, r)]
  <2>1. f \in Surjection(S, T)
    BY DEF Surjection
  <2> QED BY <2>1, FS_Surjection DEF IsTable
<1>3. Valid(T)
  <2> SUFFICES ASSUME NEW r \in S
               PROVE  /\ Linked(S, r).hashed
                      /\ Linked(S, r).prev = HeadHash(Earlier(T, Linked(S, r)))
    BY DEF Valid
  <2>1. Earlier(T, Linked(S, r)) = {Linked(S, s) : s \in Earlier(S, r)}
    <3>1. \A s \in S : Before(Linked(S, s), Linked(S, r)) <=> Before(s, r)
      BY LinkedRow DEF Before
    <3> QED BY <3>1 DEF Earlier
  <2>2. CASE Earlier(S, r) = {}
    BY <2>1, <2>2, LinkedRow DEF HeadHash
  <2>3. CASE Earlier(S, r) # {}
    <3> PICK y : y = Last(Earlier(S, r))
      OBVIOUS
    <3> PICK E : E = Earlier(T, Linked(S, r))
      OBVIOUS
    <3>1. y \in Earlier(S, r) /\ \A s \in Earlier(S, r) : s = y \/ Before(s, y)
      <4>1. IsTable(Earlier(S, r))
        BY TableOfFewer DEF Earlier
      <4> QED BY <2>3, <4>1, LastIsLast
    <3>2. y \in S /\ Linked(S, y) \in E
      BY <2>1, <3>1 DEF Earlier
    <3>3. \A e \in E : e = Linked(S, y) \/ Before(e, Linked(S, y))
      <4> TAKE e \in E
      <4>1. PICK s \in Earlier(S, r) : e = Linked(S, s)
        BY <2>1
      <4>2. s \in S
        BY DEF Earlier
      <4>3. CASE s = y
        BY <4>1, <4>3
      <4>4. CASE Before(s, y)
        BY <3>2, <4>1, <4>2, <4>4, LinkedRow DEF Before
      <4> QED BY <3>1, <4>3, <4>4
    <3>4. E \subseteq Row
      BY <1>1 DEF Earlier
    <3>5. Last(E) = Linked(S, y)
      BY <3>2, <3>3, <3>4, LastIsUnique
    <3>6. HeadHash(E) = y.id
      BY <3>2, <3>5, LinkedRow DEF HeadHash
    <3> QED BY <2>3, <3>6, LinkedRow
  <2> QED BY <2>2, <2>3
<1> QED BY <1>1, <1>2, <1>3 DEF IsTable

-----------------------------------------------------------------------------
(* The invariant *)

AllHashed(S) == \A r \in S : r.hashed
Mixed(S) == (\E r \in S : r.hashed) /\ (\E r \in S : ~ r.hashed)

\* What an open transaction has added is behind what is committed.
PendingIsBehind == \A new \in pending, old \in rows : Before(old, new)

IInv ==
    /\ ChainTypeOK
    /\ AllHashed(rows) => Valid(rows)
    /\ mode = "checking" => AllHashed(rows) \/ Mixed(rows)
    /\ ServedChainIsValid
    /\ RefusedIsMixed
    /\ PendingIsBehind

LEMMA ValidIsHashed == ASSUME NEW S, Valid(S) PROVE AllHashed(S)
BY DEF Valid, AllHashed

LEMMA EmptyIsTable == IsTable({})
BY FS_EmptySet DEF IsTable

LEMMA Initially == ChainInit => IInv
<1> SUFFICES ASSUME ChainInit PROVE IInv
  OBVIOUS
<1>1. ChainTypeOK
  <2>1. rows \cup pending = {}
    BY DEF ChainInit
  <2> QED BY <2>1, EmptyIsTable DEF ChainInit, ChainTypeOK
<1>2. Valid(rows)
  BY DEF ChainInit, Valid
<1> QED BY <1>1, <1>2 DEF ChainInit, IInv, ServedChainIsValid, RefusedIsMixed, PendingIsBehind

-----------------------------------------------------------------------------
(* One lemma per action *)

LEMMA StepClockStep == IInv /\ StepClock => IInv'
<1> SUFFICES ASSUME IInv, StepClock PROVE IInv'
  OBVIOUS
<1>1. now' \in Nat /\ UNCHANGED <<rows, pending, mode>>
  BY DEF StepClock
<1> QED BY <1>1 DEF IInv, ChainTypeOK, ServedChainIsValid, RefusedIsMixed, PendingIsBehind

LEMMA EarlierReleaseStep ==
  ASSUME IInv, NEW id \in AuditId, EarlierRelease(id) PROVE IInv'
<1> PICK x : x = [id |-> id, time |-> now, prev |-> Genesis, hashed |-> FALSE]
  OBVIOUS
<1>1. rows' = rows \cup {x} /\ pending' = {} /\ pending = {} /\ mode' = "down" /\ now' = now
  BY DEF EarlierRelease, IInv, ChainTypeOK
<1>2. IsTable(rows')
  <2>1. IsTable(rows)
    BY <1>1, TableOfFewer DEF IInv, ChainTypeOK
  <2>2. x \in Row /\ \A r \in rows : r.id # x.id
    BY DEF EarlierRelease, IInv, ChainTypeOK, Row
  <2> QED BY <1>1, <2>1, <2>2, FS_AddElement DEF IsTable
<1>3. ChainTypeOK'
  <2>1. rows' \cup pending' = rows'
    BY <1>1
  <2> QED BY <1>1, <1>2, <2>1 DEF IInv, ChainTypeOK
<1>4. ~ AllHashed(rows')
  BY <1>1 DEF AllHashed
<1> QED BY <1>1, <1>3, <1>4 DEF IInv, ServedChainIsValid, RefusedIsMixed, PendingIsBehind

LEMMA BackfillStep == IInv /\ Backfill => IInv'
<1> SUFFICES ASSUME IInv, Backfill PROVE IInv'
  OBVIOUS
<1>1. pending' = {} /\ pending = {} /\ mode' = "checking" /\ now' = now
  BY DEF Backfill, IInv, ChainTypeOK
<1>2. IsTable(rows)
  BY <1>1, TableOfFewer DEF IInv, ChainTypeOK
<1>3. IsTable(rows') /\ (AllHashed(rows') => Valid(rows')) /\ (AllHashed(rows') \/ Mixed(rows'))
  <2>1. CASE Legacy(rows)
    <3>1. rows' = {Linked(rows, r) : r \in rows}
      BY <2>1 DEF Backfill
    <3> QED BY <1>2, <3>1, BackfillIsValid, ValidIsHashed
  <2>2. CASE ~ Legacy(rows)
    <3>1. rows' = rows
      BY <2>2 DEF Backfill
    <3> QED BY <1>2, <2>2, <3>1 DEF Legacy, AllHashed, Mixed, IInv
  <2> QED BY <2>1, <2>2
<1>4. ChainTypeOK'
  <2>1. rows' \cup pending' = rows'
    BY <1>1
  <2> QED BY <1>1, <1>3, <2>1 DEF IInv, ChainTypeOK
<1> QED BY <1>1, <1>3, <1>4 DEF IInv, ServedChainIsValid, RefusedIsMixed, PendingIsBehind

LEMMA VerifyStep == IInv /\ Verify => IInv'
<1> SUFFICES ASSUME IInv, Verify PROVE IInv'
  OBVIOUS
<1>1. /\ UNCHANGED <<now, rows, pending>> /\ pending = {}
      /\ mode' = IF Valid(rows) THEN "serving" ELSE "refused"
  BY DEF Verify, IInv, ChainTypeOK
<1>2. rows' \cup pending' = rows
  BY <1>1
<1>3. ~ Valid(rows) => Mixed(rows)
  BY DEF Verify, IInv
<1> QED BY <1>1, <1>2, <1>3 DEF IInv, ChainTypeOK, ServedChainIsValid, RefusedIsMixed, PendingIsBehind,
                               Mixed, AllHashed

\* Stopping and rolling back leave the committed rows alone.
LEMMA DropStep == IInv /\ (Stop \/ Rollback) => IInv'
<1> SUFFICES ASSUME IInv, Stop \/ Rollback PROVE IInv'
  OBVIOUS
<1>1. /\ UNCHANGED <<now, rows>> /\ pending' = {}
      /\ (mode' = "down") \/ (mode' = "serving" /\ mode = "serving")
  <2>1. CASE Stop
    BY <2>1 DEF Stop
  <2>2. CASE Rollback
    BY <2>2 DEF Rollback, IInv, ChainTypeOK
  <2> QED BY <2>1, <2>2
<1>2. rows' \cup pending' = rows /\ IsTable(rows)
  BY <1>1, TableOfFewer DEF IInv, ChainTypeOK
<1> QED BY <1>1, <1>2 DEF IInv, ChainTypeOK, ServedChainIsValid, RefusedIsMixed, PendingIsBehind, AllHashed

LEMMA RecordAuditStep ==
  ASSUME IInv, NEW id \in AuditId, RecordAudit(id) PROVE IInv'
<1> PICK table : table = rows \cup pending
  OBVIOUS
<1> PICK x : x = [id |-> id, time |-> Stamp(table), prev |-> HeadHash(table), hashed |-> TRUE]
  OBVIOUS
<1>1. /\ mode = "serving" /\ \A r \in table : r.id # id
      /\ pending' = pending \cup {x} /\ UNCHANGED <<now, rows, mode>>
  BY DEF RecordAudit
<1>2. IsTable(table) /\ Valid(table) /\ now \in Nat
  BY <1>1 DEF IInv, ChainTypeOK, ServedChainIsValid
<1>3. x \in Row
  <2>1. table # {} => Last(table) \in Row
    BY <1>2, LastIsLast DEF IsTable
  <2>2. Stamp(table) \in Nat /\ HeadHash(table) \in AuditId \cup {Genesis}
    BY <1>2, <2>1 DEF Stamp, HeadHash, Row
  <2> QED BY <2>2 DEF Row
<1>4. \A s \in table : Before(s, x)
  BY <1>2, <1>3, StampIsLater
<1>5. rows' \cup pending' = table \cup {x}
  BY <1>1
<1>6. Valid(table \cup {x})
  BY <1>2, <1>3, <1>4, ChainGrows DEF IsTable
<1>7. IsTable(table \cup {x})
  <2>1. IsFiniteSet(table \cup {x})
    BY <1>2, FS_AddElement DEF IsTable
  <2>2. x.id = id
    OBVIOUS
  <2>3. \A r \in table : r.id # x.id
    BY <1>1, <2>2
  <2>4. \A r, s \in table : r.id = s.id => r = s
    BY <1>2 DEF IsTable
  <2>5. \A r, s \in table \cup {x} : r.id = s.id => r = s
    <3> SUFFICES ASSUME NEW r \in table \cup {x}, NEW s \in table \cup {x}, r.id = s.id
                 PROVE  r = s
      OBVIOUS
    <3>1. CASE r = x
      <4>1. s \notin table
        BY <2>3, <3>1
      <4> QED BY <3>1, <4>1
    <3>2. CASE r \in table
      <4>1. s # x
        BY <2>3, <3>2
      <4> QED BY <2>4, <3>2, <4>1
    <3> QED BY <3>1, <3>2
  <2> QED BY <1>2, <1>3, <2>1, <2>5 DEF IsTable
<1>8. PendingIsBehind'
  BY <1>1, <1>4 DEF PendingIsBehind, IInv
<1> QED BY <1>1, <1>5, <1>6, <1>7, <1>8 DEF IInv, ChainTypeOK, ServedChainIsValid, RefusedIsMixed, AllHashed

LEMMA CommitStep == IInv /\ Commit => IInv'
<1> SUFFICES ASSUME IInv, Commit PROVE IInv'
  OBVIOUS
<1>1. /\ mode = "serving" /\ UNCHANGED <<now, mode>>
      /\ rows' = rows \cup pending /\ pending' = {}
  BY DEF Commit, IInv, ChainTypeOK
<1>2. rows' \cup pending' = rows \cup pending
  BY <1>1
<1> QED BY <1>1, <1>2 DEF IInv, ChainTypeOK, ServedChainIsValid, RefusedIsMixed, PendingIsBehind

LEMMA Inductive == IInv /\ [ChainNext]_auditVars => IInv'
<1> SUFFICES ASSUME IInv, [ChainNext]_auditVars PROVE IInv'
  OBVIOUS
<1>1. CASE ChainNext
  BY <1>1, StepClockStep, EarlierReleaseStep, BackfillStep, VerifyStep, DropStep,
     RecordAuditStep, CommitStep DEF ChainNext
<1>2. CASE UNCHANGED auditVars
  BY <1>2 DEF auditVars, IInv, ChainTypeOK, IsTable, ServedChainIsValid, RefusedIsMixed,
              PendingIsBehind, AllHashed, Mixed, Valid
<1> QED BY <1>1, <1>2

LEMMA Invariant == ChainSpec => []IInv
BY Initially, Inductive, PTL DEF ChainSpec

-----------------------------------------------------------------------------
(* The results *)

\* The table keeps its types and its primary key, and nothing is pending but in a server that serves.
THEOREM TypeCorrect == ChainSpec => []ChainTypeOK
<1>1. IInv => ChainTypeOK
  BY DEF IInv
<1> QED BY <1>1, Invariant, PTL

\* A served chain verifies, with the open transaction and without it.
THEOREM ChainStands == ChainSpec => []ServedChainIsValid
<1>1. IInv => ServedChainIsValid
  BY DEF IInv
<1> QED BY <1>1, Invariant, PTL

\* A server that refuses to serve has found hashed and unhashed rows together.
THEOREM RefusalsAreEarned == ChainSpec => []RefusedIsMixed
<1>1. IInv => RefusedIsMixed
  BY DEF IInv
<1> QED BY <1>1, Invariant, PTL

\* Committed rows that are hashed are never rewritten.
THEOREM HashedRowsStay == ChainSpec => HashedStays
<1>1. [ChainNext]_auditVars => [\A r \in rows : r.hashed => r \in rows']_auditVars
  BY DEF ChainNext, StepClock, EarlierRelease, Backfill, Legacy, Verify, Stop, RecordAudit, Commit, Rollback
<1> QED BY <1>1, PTL DEF ChainSpec, HashedStays

\* What requests commit is behind all that was committed before.
THEOREM RowsAreAppended == ChainSpec => AppendedAtTheEnd
<1>1. IInv /\ [ChainNext]_auditVars =>
        [mode = "serving" => \A new \in rows' \ rows, old \in rows : Before(old, new)]_auditVars
  BY DEF IInv, PendingIsBehind, ChainNext, StepClock, EarlierRelease, Backfill, Verify, Stop,
         RecordAudit, Commit, Rollback
<1> QED BY <1>1, Initially, Inductive, PTL DEF ChainSpec, AppendedAtTheEnd
=============================================================================
