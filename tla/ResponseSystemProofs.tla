------------------------- MODULE ResponseSystemProofs -------------------------
(***************************************************************************)
(* Proofs about ResponseSystem: the server and any number of endpoints,    *)
(* crashes and lost messages, for every set of ids, incidents, agents and  *)
(* action types.                                                           *)
(***************************************************************************)
EXTENDS ResponseSystem, ActionLifecycleProofs, FiniteSetTheorems, TLAPS

Began == {"executing"} \cup Terminal
HasBegun(a) == actions[a].status \in Began
Own(g) == {a \in Ids : actions[a].agent = g}

\* Every action the agent was ever given fits in its ledger.
LedgerHolds(g) == Cardinality(Own(g)) <= LedgerLimit

-----------------------------------------------------------------------------
(* The inductive invariant *)

\* Requests are numbered in the order they arrive, so a batch has one first.
Numbered ==
    /\ \A a \in Ids : actions[a].requested <= Cardinality(Ids)
    /\ \A a, b \in Ids : actions[a].requested = actions[b].requested => a = b

ClockBound == now <= MaxTime

\* What an entry of a ledger says agrees with what the server has recorded.
Matches(entry, row) ==
    /\ row.status \in Terminal => entry.status = row.status /\ entry.result = row.result
    /\ row.startedAt # NoTime => entry.startedAt = row.startedAt

\* An entry is a possible report, and tells of no effect that there was not.
EntrySound(entry, a) ==
    /\ entry.startedAt \in 1..now
    /\ entry.result # {} => entry.status = "succeeded" /\ actions[a].type = Triage
    /\ entry.status = "succeeded" /\ actions[a].type \in {Demo, Terminate} => applied[a] > 0
    /\ Matches(entry, actions[a])

EntriesSound(g, ledger) == \A a \in DOMAIN ledger : a \in Own(g) /\ EntrySound(ledger[a], a)

LedgerSound(g) == EntriesSound(g, disk[g]) /\ EntriesSound(g, memory[g])

Running == {"execute", "save", "report"}

\* An action in the batch has begun, for the server, exactly when it was
\* delivered as executing or is the current one and past its acknowledgement.
ItemSound(g, x) ==
    /\ x.id \in Own(g)
    /\ HasBegun(x.id) <=>
           \/ x.status = "executing"
           \/ IsFirst(g, x) /\ step[g] \in Running

BatchSound(g) ==
    /\ \A x \in batch[g] : ItemSound(g, x)
    /\ \A x, y \in batch[g] : x.id = y.id => x = y

\* What is known of the current action at each step of the pass.
CurrentSound(g, x) ==
    /\ step[g] \in {"ack"} \cup Running => Holds(memory[g], x.id)
    /\ step[g] = "ack" => x.status = "dispatching"
    /\ step[g] = "execute" => memory[g][x.id].status = "executing"
    /\ step[g] \in {"save", "report"} => memory[g][x.id].status \in Terminal

PassSound(g) == \A x \in batch[g] : IsFirst(g, x) => CurrentSound(g, x)

\* The current action has run and its outcome is only in memory.
Unsaved(g, a) ==
    /\ step[g] = "save"
    /\ \E x \in batch[g] : IsFirst(g, x) /\ x.id = a
    /\ disk[g][a].status = "executing"
    /\ disk[g][a].startedAt = memory[g][a].startedAt

\* During a pass the file is a part of the memory, up to that outcome.
FilesAgree(g) ==
    step[g] # "idle" =>
        \A a \in DOMAIN disk[g] :
            /\ Holds(memory[g], a)
            /\ disk[g][a] = memory[g][a] \/ Unsaved(g, a)

\* A ledger that is not full forgets nothing that the endpoint has begun.
Remembers(g) == LedgerHolds(g) => \A a \in Own(g) : HasBegun(a) => Holds(disk[g], a)

Retained(g) ==
    /\ Remembers(g)
    /\ LedgerHolds(g) /\ step[g] # "idle" => DOMAIN memory[g] \subseteq DOMAIN disk[g]

FixtureSound(g) == fixture[g] # NoAction => applied[fixture[g]] > 0

AgentInv(g) ==
    /\ LedgerSound(g)
    /\ BatchSound(g)
    /\ PassSound(g)
    /\ FilesAgree(g)
    /\ Retained(g)
    /\ FixtureSound(g)

Listed(g, h) ==
    \E b \in Ids : /\ actions[b].agent = g
                   /\ actions[b].type = Triage
                   /\ actions[b].status = "succeeded"
                   /\ h \in actions[b].result

\* Every process that is gone was listed, and was terminated for one action.
GoneSound == \A g \in Agent : \A h \in gone[g] : Listed(g, h)

Kills(a) == a \in Ids /\ actions[a].type = Terminate /\ applied[a] > 0

KillsSound ==
    /\ \A a \in ActionId : Kills(a) =>
          applied[a] = 1 /\ actions[a].handle \in gone[actions[a].agent]
    /\ \A a, b \in ActionId :
          /\ Kills(a) /\ Kills(b)
          /\ actions[a].agent = actions[b].agent
          /\ actions[a].handle = actions[b].handle
          => a = b

Effects == EffectIsAuthorised /\ SuccessIsReal /\ GoneSound /\ KillsSound

SInv ==
    /\ IInv
    /\ SystemTypeOK
    /\ Numbered
    /\ ClockBound
    /\ \A g \in Agent : AgentInv(g)
    /\ Effects


-----------------------------------------------------------------------------
(* Rows of the server, as a step leaves them *)

RowKept(b) ==
    /\ KeepsIdentity(b)
    /\ HasBegun(b) => actions'[b] = actions[b]
    /\ ~HasBegun(b) => actions'[b].status \notin Began

\* A step in which no report of this agent is recorded.
OwnKept(g) ==
    /\ Own(g) \subseteq Own(g)'
    /\ \A a \in Own(g) : RowKept(a)
    /\ \A a \in Own(g)' \ Own(g) : actions'[a].status \notin Began

StartsKnown == \A a \in Ids : actions[a].startedAt # NoTime <=> HasBegun(a)

LEMMA StartKnown == IInv => StartsKnown
  BY DEF IInv, TimelineConsistent, StartsKnown, HasBegun, Began

LEMMA StartKnownNext == IInv' => StartsKnown'
  BY StartKnown, PTL

LEMMA GovernedRows ==
    ASSUME IInv, ConstantsAssumption, Governs
    PROVE  /\ Ids \subseteq Ids'
           /\ \A b \in Ids : RowKept(b)
           /\ \A b \in Ids' \ Ids : actions'[b].status = "pending"
           /\ \A g \in Agent : OwnKept(g)
<1>1. \A b \in Ids : RowKept(b)
  <2> SUFFICES ASSUME NEW b \in Ids, Governed(b) PROVE RowKept(b)
    BY GovernedStep
  <2>1. CASE HasBegun(b)
    BY <2>1 DEF Governed, Stays, IsVoided, IsRejected, IsApproved, IsDispatched,
                RowKept, HasBegun, Began, Undispatched, Terminal
  <2>2. CASE ~HasBegun(b)
    BY <2>2 DEF Governed, Stays, IsVoided, IsRejected, IsApproved, IsDispatched,
                RowKept, HasBegun, Began, Undispatched, Terminal
  <2>3. QED
    BY <2>1, <2>2
<1>2. Ids \subseteq Ids' /\ \A b \in Ids' \ Ids : actions'[b].status = "pending"
  BY GovernedStep DEF Adds, IsNew
<1>3. \A g \in Agent : OwnKept(g)
  BY <1>1, <1>2 DEF OwnKept, Own, RowKept, KeepsIdentity, Began, Terminal
<1>4. QED
  BY <1>1, <1>2, <1>3

LEMMA UnchangedRows ==
    ASSUME UNCHANGED vars
    PROVE  \A g \in Agent : OwnKept(g)
  BY DEF vars, OwnKept, Own, RowKept, KeepsIdentity, HasBegun, Ids

LEMMA FirstIsUnique ==
    ASSUME Numbered, IInv, NEW g \in Agent, BatchSound(g),
           NEW x \in batch[g], NEW y \in batch[g], IsFirst(g, x), IsFirst(g, y)
    PROVE  x = y
<1>1. x.id \in Ids /\ y.id \in Ids
  BY DEF BatchSound, ItemSound, Own
<1>2. actions[x.id].requested \in Nat /\ actions[y.id].requested \in Nat
  BY <1>1, RowFacts DEF IInv, ActionRow
<1>3. actions[x.id].requested = actions[y.id].requested
  BY <1>2 DEF IsFirst
<1>4. QED
  BY <1>1, <1>3 DEF Numbered, BatchSound

LEMMA FirstIsKept ==
    ASSUME NEW g \in Agent, BatchSound(g), \A a \in Own(g) : KeepsIdentity(a),
           batch'[g] = batch[g], NEW x
    PROVE  IsFirst(g, x)' <=> IsFirst(g, x)
  BY DEF IsFirst, BatchSound, ItemSound, KeepsIdentity

LEMMA LedgerHeld ==
    ASSUME IInv, IInv', NEW g \in Agent, Own(g) \subseteq Own(g)', LedgerHolds(g)',
           SystemAssumption
    PROVE  LedgerHolds(g)
<1>1. IsFiniteSet(Own(g)')
  <2>1. IsFiniteSet(Ids') /\ Own(g)' \subseteq Ids'
    BY DEF IInv, TypeOK, Own
  <2>2. QED
    BY <2>1, FS_Subset
<1>2. /\ IsFiniteSet(Own(g))
      /\ Cardinality(Own(g)) <= Cardinality(Own(g)')
  BY <1>1, FS_Subset
<1>3. Cardinality(Own(g)) \in Nat /\ Cardinality(Own(g)') \in Nat
  BY <1>1, <1>2, FS_CardinalityType
<1>4. QED
  BY <1>2, <1>3 DEF LedgerHolds, SystemAssumption

-----------------------------------------------------------------------------
(* An agent that does nothing *)

Untouched(g) ==
    /\ disk'[g] = disk[g] /\ memory'[g] = memory[g]
    /\ batch'[g] = batch[g] /\ step'[g] = step[g] /\ fixture'[g] = fixture[g]

EffectsGrow == \A a \in ActionId : applied[a] > 0 => applied'[a] > 0

LEMMA EntryKept ==
    ASSUME IInv, IInv', EffectsGrow, now <= now', NEW a \in Ids, RowKept(a),
           a \in Ids', NEW entry \in Entry, EntrySound(entry, a)
    PROVE  EntrySound(entry, a)'
<1>1. now \in Nat /\ now' \in Nat /\ a \in ActionId
  BY DEF IInv, TypeOK
<1>2. entry.startedAt \in 1..now'
  BY <1>1 DEF EntrySound, Entry
<1>3. actions'[a].type = actions[a].type
  BY DEF RowKept, KeepsIdentity
<1>4. Matches(entry, actions'[a])
  <2>1. CASE HasBegun(a)
    BY <2>1 DEF RowKept, EntrySound
  <2>2. CASE ~HasBegun(a)
    BY <2>2, StartKnown, StartKnownNext DEF StartsKnown, RowKept, Matches, HasBegun, Began, Terminal
  <2>3. QED
    BY <2>1, <2>2
<1>5. QED
  BY <1>1, <1>2, <1>3, <1>4 DEF EntrySound, EffectsGrow

LEMMA LedgerEntries ==
    ASSUME SystemTypeOK, NEW g \in Agent
    PROVE  /\ \A a \in DOMAIN disk[g] : disk[g][a] \in Entry
           /\ \A a \in DOMAIN memory[g] : memory[g][a] \in Entry
<1>1. IsLedger(disk[g]) /\ IsLedger(memory[g])
  BY DEF SystemTypeOK
<1>2. ASSUME NEW l, IsLedger(l) PROVE \A a \in DOMAIN l : l[a] \in Entry
  BY <1>2 DEF IsLedger
<1>3. QED
  BY <1>1, <1>2

LEMMA EntriesKept ==
    ASSUME IInv, IInv', NEW g \in Agent, NEW ledger, IsLedger(ledger), EntriesSound(g, ledger),
           OwnKept(g), EffectsGrow, now <= now'
    PROVE  EntriesSound(g, ledger)'
<1> SUFFICES ASSUME NEW a \in DOMAIN ledger
             PROVE  a \in Own(g)' /\ EntrySound(ledger[a], a)'
  BY DEF EntriesSound
<1>1. ledger[a] \in Entry /\ a \in Own(g) /\ EntrySound(ledger[a], a)
  BY DEF IsLedger, EntriesSound
<1>2. a \in Ids /\ a \in Ids' /\ a \in Own(g)' /\ RowKept(a)
  BY <1>1 DEF Own, OwnKept
<1>3. QED
  BY <1>1, <1>2, EntryKept

LEMMA LedgerFrame ==
    ASSUME IInv, IInv', SystemTypeOK, NEW g \in Agent, LedgerSound(g), OwnKept(g),
           Untouched(g), EffectsGrow, now <= now'
    PROVE  LedgerSound(g)'
<1>1. IsLedger(disk[g]) /\ IsLedger(memory[g])
  BY DEF SystemTypeOK
<1>2. \A ledger : IsLedger(ledger) /\ EntriesSound(g, ledger) => EntriesSound(g, ledger)'
  BY EntriesKept
<1>3. QED
  BY <1>1, <1>2 DEF LedgerSound, EntriesSound, EntrySound, Untouched

LEMMA BatchFrame ==
    ASSUME NEW g \in Agent, BatchSound(g), OwnKept(g),
           batch'[g] = batch[g], step'[g] \in Running <=> step[g] \in Running
    PROVE  BatchSound(g)'
<1>1. ASSUME NEW x \in batch[g]
      PROVE  ItemSound(g, x)'
  <2>1. ItemSound(g, x) /\ x.id \in Own(g) /\ x.id \in Own(g)' /\ RowKept(x.id)
    BY DEF BatchSound, ItemSound, OwnKept
  <2>2. IsFirst(g, x)' <=> IsFirst(g, x)
    BY FirstIsKept DEF OwnKept, RowKept
  <2>3. HasBegun(x.id)' <=> HasBegun(x.id)
    BY <2>1 DEF RowKept, HasBegun
  <2>4. QED
    BY <2>1, <2>2, <2>3 DEF ItemSound
<1>2. QED
  BY <1>1 DEF BatchSound

LEMMA RetainedFrame ==
    ASSUME IInv, IInv', SystemAssumption, NEW g \in Agent, Retained(g), OwnKept(g), Untouched(g)
    PROVE  Retained(g)'
<1> SUFFICES ASSUME LedgerHolds(g)'
             PROVE  /\ step[g] # "idle" => DOMAIN memory[g] \subseteq DOMAIN disk[g]
                    /\ \A a \in Own(g)' : actions'[a].status \in Began => Holds(disk[g], a)
  BY DEF Retained, Remembers, Untouched, Holds, HasBegun
<1>1. LedgerHolds(g)
  BY LedgerHeld DEF OwnKept
<1>2. ASSUME NEW a \in Own(g)', actions'[a].status \in Began
      PROVE  a \in Own(g) /\ HasBegun(a)
  BY <1>2 DEF OwnKept, RowKept
<1>3. QED
  BY <1>1, <1>2 DEF Retained, Remembers

LEMMA AgentFrame ==
    ASSUME SInv, IInv', SystemAssumption, NEW g \in Agent, OwnKept(g), Untouched(g),
           EffectsGrow, now <= now'
    PROVE  AgentInv(g)'
<1> USE DEF SInv, AgentInv
<1>1. AgentInv(g) /\ IInv /\ SystemTypeOK
  OBVIOUS
<1>2. LedgerSound(g)'
  BY <1>1, LedgerFrame
<1>3. BatchSound(g)'
  BY <1>1, BatchFrame DEF Untouched
<1>4. \A x : IsFirst(g, x)' <=> IsFirst(g, x)
  BY <1>1, FirstIsKept DEF OwnKept, RowKept, Untouched
<1>5. PassSound(g)'
  BY <1>1, <1>4 DEF PassSound, CurrentSound, Untouched, Holds
<1>6. FilesAgree(g)'
  BY <1>1, <1>4 DEF FilesAgree, Unsaved, Untouched, Holds
<1>7. Retained(g)'
  BY <1>1, RetainedFrame
<1>8. FixtureSound(g)'
  BY <1>1 DEF FixtureSound, Untouched, EffectsGrow, SystemTypeOK
<1>9. QED
  BY <1>2, <1>3, <1>5, <1>6, <1>7, <1>8

-----------------------------------------------------------------------------
(* An agent that ends its process, and one that polls *)

LEMMA RemembersStep ==
    ASSUME IInv, IInv', SystemAssumption, NEW g \in Agent, Remembers(g), OwnKept(g),
           disk'[g] = disk[g]
    PROVE  Remembers(g)'
<1> SUFFICES ASSUME LedgerHolds(g)', NEW a \in Own(g)', actions'[a].status \in Began
             PROVE  Holds(disk[g], a)
  BY DEF Remembers, Holds, HasBegun
<1>1. LedgerHolds(g)
  BY LedgerHeld DEF OwnKept
<1>2. a \in Own(g) /\ HasBegun(a)
  BY DEF OwnKept, RowKept
<1>3. QED
  BY <1>1, <1>2 DEF Remembers

\* Nothing but the files outlives the process.
LEMMA ExitAgent ==
    ASSUME SystemTypeOK, NEW g \in Agent, Exit(g),
           EntriesSound(g, disk[g])', Remembers(g)', FixtureSound(g)'
    PROVE  AgentInv(g)'
<1>1. /\ memory'[g] = EmptyLedger
      /\ batch'[g] = {}
      /\ step'[g] = "idle"
  BY DEF Exit, SystemTypeOK
<1>2. DOMAIN EmptyLedger = {}
  BY DEF EmptyLedger
<1>3. EntriesSound(g, memory[g])'
  BY <1>1, <1>2 DEF EntriesSound
<1>4. QED
  BY <1>1, <1>3 DEF AgentInv, LedgerSound, BatchSound, PassSound, FilesAgree, Retained

LEMMA QuietExit ==
    ASSUME SInv, IInv', SystemAssumption, NEW g \in Agent, Exit(g), OwnKept(g),
           disk' = disk, fixture' = fixture, applied' = applied, now <= now'
    PROVE  AgentInv(g)'
<1>1. AgentInv(g) /\ IInv /\ SystemTypeOK
  BY DEF SInv
<1>2. EffectsGrow /\ IsLedger(disk[g])
  BY <1>1 DEF EffectsGrow, SystemTypeOK
<1>3. EntriesSound(g, disk[g])'
  <2>1. \A ledger : IsLedger(ledger) /\ EntriesSound(g, ledger) => EntriesSound(g, ledger)'
    BY <1>1, <1>2, EntriesKept
  <2>2. QED
    BY <1>1, <1>2, <2>1 DEF AgentInv, LedgerSound, EntriesSound, EntrySound
<1>4. Remembers(g)'
  BY <1>1, RemembersStep DEF AgentInv, Retained
<1>5. FixtureSound(g)'
  BY <1>1 DEF AgentInv, FixtureSound
<1>6. QED
  BY <1>1, <1>3, <1>4, <1>5, ExitAgent

LEMMA PollAgent ==
    ASSUME SInv, IInv', ConstantsAssumption, SystemAssumption, NEW g \in Agent, Poll(g)
    PROVE  AgentInv(g)'
<1>1. AgentInv(g) /\ IInv /\ SystemTypeOK
  BY DEF SInv
<1>2. OwnKept(g)
  BY <1>1, GovernedRows DEF Poll, Governs
<1>3. /\ memory'[g] = disk[g] /\ disk' = disk /\ fixture' = fixture /\ applied' = applied
      /\ batch'[g] = {[id |-> a, status |-> actions'[a].status] : a \in Delivered(g)'}
      /\ step'[g] \in {"idle", "begin"}
      /\ now' = now
  BY <1>1 DEF Poll, GoTo, SystemTypeOK, durable, PollPending
<1>4. EffectsGrow /\ IsLedger(disk[g]) /\ now <= now'
  BY <1>1, <1>3 DEF EffectsGrow, SystemTypeOK, IInv, TypeOK
<1>5. LedgerSound(g)'
  <2>1. \A ledger : IsLedger(ledger) /\ EntriesSound(g, ledger) => EntriesSound(g, ledger)'
    BY <1>1, <1>2, <1>4, EntriesKept
  <2>2. QED
    BY <1>1, <1>3, <1>4, <2>1 DEF AgentInv, LedgerSound, EntriesSound, EntrySound
<1>6. BatchSound(g)'
  <2>1. ASSUME NEW x \in batch'[g]
        PROVE  ItemSound(g, x)'
    <3>1. PICK a \in Delivered(g)' : x = [id |-> a, status |-> actions'[a].status]
      BY <1>3
    <3>2. a \in Own(g)' /\ actions'[a].status \in {"dispatching", "executing"}
      BY DEF Delivered, Own
    <3>3. QED
      BY <1>3, <3>1, <3>2 DEF ItemSound, HasBegun, Began, Terminal, Running
  <2>2. \A x, y \in batch'[g] : x.id = y.id => x = y
    BY <1>3
  <2>3. QED
    BY <2>1, <2>2 DEF BatchSound
<1>7. PassSound(g)'
  BY <1>3 DEF PassSound, CurrentSound, Running
<1>8. FilesAgree(g)'
  BY <1>3 DEF FilesAgree, Holds
<1>9. Retained(g)'
  BY <1>1, <1>2, <1>3, RemembersStep DEF AgentInv, Retained
<1>10. FixtureSound(g)'
  BY <1>1, <1>3 DEF AgentInv, FixtureSound
<1>11. QED
  BY <1>5, <1>6, <1>7, <1>8, <1>9, <1>10 DEF AgentInv

-----------------------------------------------------------------------------
(* An agent that works on its current action *)

\* The file gets a part of the memory, and all of it if it fits.
LEMMA SaveFacts ==
    ASSUME SystemTypeOK, SystemAssumption, NEW g \in Agent, SaveLedger(g),
           DOMAIN memory'[g] \subseteq Ids
    PROVE  /\ DOMAIN disk' = Agent
           /\ \A h \in Agent : h # g => disk'[h] = disk[h]
           /\ DOMAIN disk'[g] \subseteq DOMAIN memory'[g]
           /\ \A a \in DOMAIN disk'[g] : disk'[g][a] = memory'[g][a]
           /\ Cardinality(DOMAIN memory'[g]) <= LedgerLimit => DOMAIN disk'[g] = DOMAIN memory'[g]
<1> DEFINE M == memory'[g]
           earlier(a) == {b \in DOMAIN M : Before(g, a, b)}
           kept == {a \in DOMAIN M : Cardinality(earlier(a)) < LedgerLimit}
<1>1. disk' = [disk EXCEPT ![g] = [a \in kept |-> M[a]]]
  BY DEF SaveLedger
<1>2. disk'[g] = [a \in kept |-> M[a]] /\ DOMAIN disk'[g] = kept
  BY <1>1 DEF SystemTypeOK
<1>3. ASSUME Cardinality(DOMAIN M) <= LedgerLimit, NEW a \in DOMAIN M
      PROVE  a \in kept
  <2>1. IsFiniteSet(DOMAIN M)
    BY FS_Subset DEF SystemTypeOK, TypeOK
  <2>2. actions[a].requested \in Nat /\ a \in Nat
    BY RowFacts DEF SystemTypeOK, TypeOK, SystemAssumption, ActionRow
  <2>3. ~Before(g, a, a)
    BY <2>2 DEF Before
  <2>4. earlier(a) \subseteq DOMAIN M \ {a}
    BY <2>3
  <2>5. /\ IsFiniteSet(DOMAIN M \ {a})
        /\ Cardinality(DOMAIN M \ {a}) = Cardinality(DOMAIN M) - 1
    BY <1>3, <2>1, FS_RemoveElement
  <2>6. Cardinality(earlier(a)) <= Cardinality(DOMAIN M \ {a}) /\ IsFiniteSet(earlier(a))
    BY <2>4, <2>5, FS_Subset
  <2>7. Cardinality(earlier(a)) \in Nat /\ Cardinality(DOMAIN M) \in Nat
    BY <2>1, <2>6, FS_CardinalityType
  <2>8. Cardinality(earlier(a)) < LedgerLimit
    BY <1>3, <2>5, <2>6, <2>7 DEF SystemAssumption
  <2>9. QED
    BY <2>8
<1>4. QED
  BY <1>1, <1>2, <1>3 DEF SystemTypeOK

LEMMA MemoryFits ==
    ASSUME IInv, SystemAssumption, NEW g \in Agent, LedgerHolds(g), NEW S \in SUBSET Own(g)
    PROVE  Cardinality(S) <= LedgerLimit
<1>1. IsFiniteSet(Own(g))
  BY FS_Subset DEF IInv, TypeOK, Own
<1>2. IsFiniteSet(S) /\ Cardinality(S) <= Cardinality(Own(g))
  BY <1>1, FS_Subset
<1>3. Cardinality(S) \in Nat /\ Cardinality(Own(g)) \in Nat
  BY <1>1, <1>2, FS_CardinalityType
<1>4. QED
  BY <1>2, <1>3 DEF LedgerHolds, SystemAssumption

LEMMA StillEntry ==
    ASSUME UNCHANGED vars, EffectsGrow, NEW a \in ActionId, NEW entry, EntrySound(entry, a)
    PROVE  EntrySound(entry, a)'
  BY DEF vars, EntrySound, EffectsGrow, Matches

LEMMA StillLedger ==
    ASSUME TypeOK, UNCHANGED vars, EffectsGrow, NEW g \in Agent, LedgerSound(g),
           disk'[g] = disk[g], memory'[g] = memory[g]
    PROVE  LedgerSound(g)'
<1>1. \A a \in Own(g) : a \in Own(g)' /\ a \in ActionId
  BY DEF vars, Own, Ids, TypeOK
<1>2. \A a \in ActionId : \A entry : EntrySound(entry, a) => EntrySound(entry, a)'
  BY StillEntry
<1>3. QED
  BY <1>1, <1>2 DEF LedgerSound, EntriesSound, EntrySound

LEMMA StillRemembers ==
    ASSUME UNCHANGED vars, NEW g \in Agent, Remembers(g),
           LedgerHolds(g) => DOMAIN disk[g] \subseteq DOMAIN disk'[g]
    PROVE  Remembers(g)'
  BY DEF vars, Remembers, LedgerHolds, Own, Ids, HasBegun, Holds

LEMMA StillBatch ==
    ASSUME UNCHANGED vars, NEW g \in Agent, BatchSound(g), batch'[g] = batch[g],
           step'[g] \in Running <=> step[g] \in Running
    PROVE  BatchSound(g)'
  BY BatchFrame, UnchangedRows

LEMMA StillFirst ==
    ASSUME UNCHANGED vars, NEW g \in Agent, batch'[g] = batch[g], NEW y
    PROVE  IsFirst(g, y)' <=> IsFirst(g, y)
  BY DEF vars, IsFirst

\* The intent of a new action is in memory and, before anything else, on disk.
LEMMA BeginNewAgent ==
    ASSUME SInv, SystemAssumption, NEW g \in Agent, NEW x \in batch[g], IsFirst(g, x),
           Begin(g, x), ~Unacceptable(g, x), ~Holds(memory[g], x.id)
    PROVE  AgentInv(g)'
<1> DEFINE e == [status |-> "executing", startedAt |-> now, result |-> {}]
           M == memory[g]
<1>1. AgentInv(g) /\ IInv /\ SystemTypeOK /\ TypeOK /\ Numbered
  BY DEF SInv, IInv
<1>2. /\ UNCHANGED vars /\ fixture' = fixture /\ applied' = applied
      /\ batch' = batch /\ step[g] = "begin" /\ step'[g] = "ack"
      /\ memory'[g] = With(M, x.id, e)
      /\ SaveLedger(g)
  BY <1>1 DEF Begin, GoTo, SystemTypeOK
<1>3. ItemSound(g, x) /\ x.status = "dispatching"
  BY <1>1 DEF AgentInv, BatchSound, Unacceptable, SystemTypeOK, Item
<1>4. x.id \in Own(g) /\ x.id \in Ids /\ x.id \in ActionId /\ ~HasBegun(x.id)
  BY <1>1, <1>2, <1>3 DEF ItemSound, Running, Own, TypeOK
<1>5. EntrySound(e, x.id)
  <2>1. actions[x.id].startedAt = NoTime /\ actions[x.id].status \notin Terminal
    BY <1>1, <1>4, StartKnown DEF StartsKnown, HasBegun, Began
  <2>2. now \in 1..now
    BY <1>1 DEF TypeOK
  <2>3. QED
    BY <2>1, <2>2 DEF EntrySound, Matches
<1>6. EffectsGrow
  BY <1>2 DEF EffectsGrow
<1>7. DOMAIN memory'[g] = DOMAIN M \cup {x.id}
  BY <1>2 DEF With
<1>8. \A a \in DOMAIN memory'[g] : memory'[g][a] = IF a = x.id THEN e ELSE M[a]
  BY <1>2 DEF With
<1>9. \A a \in DOMAIN memory'[g] : a \in Own(g) /\ a \in ActionId /\ EntrySound(memory'[g][a], a)
  BY <1>1, <1>4, <1>5, <1>7, <1>8 DEF AgentInv, LedgerSound, EntriesSound, Own, TypeOK
<1>10. \A a \in DOMAIN memory'[g] : a \in Own(g)' /\ EntrySound(memory[g][a], a)'
  BY <1>2, <1>6, <1>9, StillEntry DEF vars, Own, Ids, EntrySound
<1>11. /\ DOMAIN disk'[g] \subseteq DOMAIN memory'[g]
       /\ \A a \in DOMAIN disk'[g] : disk'[g][a] = memory'[g][a]
       /\ Cardinality(DOMAIN memory'[g]) <= LedgerLimit => DOMAIN disk'[g] = DOMAIN memory'[g]
  BY <1>1, <1>2, <1>9, SaveFacts DEF Own
<1>12. LedgerSound(g)'
  BY <1>10, <1>11 DEF LedgerSound, EntriesSound, EntrySound
<1>13. BatchSound(g)'
  BY <1>1, <1>2, StillBatch DEF AgentInv, Running
<1>14. PassSound(g)'
  <2>1. ASSUME NEW y \in batch[g], IsFirst(g, y)
        PROVE  y = x
    BY <1>1, <2>1, FirstIsUnique DEF AgentInv
  <2>2. \A y \in batch'[g] : IsFirst(g, y)' => y = x
    BY <1>2, <2>1, StillFirst
  <2>3. QED
    BY <1>2, <1>3, <1>7, <2>2 DEF PassSound, CurrentSound, Running, Holds
<1>15. FilesAgree(g)'
  BY <1>11 DEF FilesAgree, Holds
<1>16. Retained(g)'
  <2>1. LedgerHolds(g) => DOMAIN disk'[g] = DOMAIN memory'[g]
    <3>1. DOMAIN memory'[g] \in SUBSET Own(g)
      BY <1>9
    <3>2. QED
      BY <1>1, <1>11, <3>1, MemoryFits
  <2>2. DOMAIN disk[g] \subseteq DOMAIN memory'[g]
    BY <1>1, <1>2, <1>7 DEF AgentInv, FilesAgree, Holds
  <2>3. Remembers(g)'
    BY <1>1, <1>2, <2>1, <2>2, StillRemembers DEF AgentInv, Retained
  <2>4. LedgerHolds(g)' => LedgerHolds(g)
    BY <1>2 DEF vars, LedgerHolds, Own, Ids
  <2>5. QED
    BY <2>1, <2>3, <2>4 DEF Retained
<1>17. FixtureSound(g)'
  BY <1>1, <1>2 DEF AgentInv, FixtureSound
<1>18. QED
  BY <1>12, <1>13, <1>14, <1>15, <1>16, <1>17 DEF AgentInv

LEMMA BeginKnownAgent ==
    ASSUME SInv, NEW g \in Agent, NEW x \in batch[g], IsFirst(g, x),
           Begin(g, x), Holds(memory[g], x.id)
    PROVE  AgentInv(g)'
<1> DEFINE M == memory[g]
<1>1. AgentInv(g) /\ IInv /\ SystemTypeOK /\ TypeOK /\ Numbered
  BY DEF SInv, IInv
<1>2. /\ UNCHANGED vars /\ fixture' = fixture /\ applied' = applied
      /\ batch' = batch /\ memory' = memory /\ disk' = disk /\ step[g] = "begin"
      /\ step'[g] = IF x.status = "dispatching" THEN "ack"
                    ELSE IF Finished(M, x.id) THEN "report" ELSE "execute"
  BY <1>1 DEF Begin, GoTo, SystemTypeOK, Unacceptable
<1>3. LedgerSound(g)'
  BY <1>1, <1>2, StillLedger DEF AgentInv, EffectsGrow
<1>4. ItemSound(g, x) /\ x.status \in {"dispatching", "executing"}
  BY <1>1 DEF AgentInv, BatchSound, SystemTypeOK, Item
<1>5. ASSUME NEW y \in batch[g], IsFirst(g, y)
      PROVE  y = x
  BY <1>1, <1>5, FirstIsUnique DEF AgentInv
<1>6. \A y : IsFirst(g, y)' <=> IsFirst(g, y)
  BY <1>2, StillFirst
<1>7. BatchSound(g)'
  <2>1. ASSUME NEW y \in batch[g]
        PROVE  ItemSound(g, y)'
    <3>1. ItemSound(g, y) /\ y.id \in Own(g)'
      BY <1>1, <1>2 DEF AgentInv, BatchSound, ItemSound, vars, Own, Ids
    <3>2. HasBegun(y.id)' <=> y.status = "executing"
      BY <1>2, <3>1 DEF ItemSound, Running, vars, HasBegun
    <3>3. IsFirst(g, y)' /\ step'[g] \in Running => y.status = "executing"
      BY <1>2, <1>4, <1>5, <1>6 DEF Running
    <3>4. QED
      BY <3>1, <3>2, <3>3 DEF ItemSound
  <2>2. QED
    BY <1>1, <1>2, <2>1 DEF BatchSound, AgentInv
<1>8. PassSound(g)'
  <2>1. M[x.id].status \in {"executing"} \cup Terminal
    BY <1>1, LedgerEntries DEF Holds, Entry
  <2>2. CurrentSound(g, x)'
    BY <1>2, <2>1 DEF CurrentSound, Running, Holds, Finished, Terminal
  <2>3. QED
    BY <1>2, <1>5, <1>6, <2>2 DEF PassSound
<1>9. FilesAgree(g)'
  BY <1>1, <1>2 DEF AgentInv, FilesAgree, Unsaved, Holds
<1>10. Retained(g)'
  BY <1>1, <1>2, StillRemembers DEF AgentInv, Retained, vars, LedgerHolds, Own, Ids
<1>11. FixtureSound(g)'
  BY <1>1, <1>2 DEF AgentInv, FixtureSound
<1>12. QED
  BY <1>3, <1>7, <1>8, <1>9, <1>10, <1>11 DEF AgentInv

\* What running the current action leaves behind, by any of its executors.
Ran(g, x, e) ==
    /\ UNCHANGED <<vars, batch, disk>>
    /\ step[g] = "execute" /\ step'[g] = "save"
    /\ memory'[g] = With(memory[g], x.id, e)
    /\ e \in Entry /\ e.status \in Terminal
    /\ e.startedAt = memory[g][x.id].startedAt
    /\ e.result # {} => e.status = "succeeded" /\ actions[x.id].type = Triage
    /\ e.status = "succeeded" /\ actions[x.id].type \in {Demo, Terminate} => applied'[x.id] > 0
    /\ EffectsGrow /\ FixtureSound(g)'
    /\ \A h \in Agent \ {g} : Untouched(h)

LEMMA ExecuteRan ==
    ASSUME SInv, SystemAssumption, ConstantsAssumption, NEW g \in Agent, NEW x \in batch[g],
           IsFirst(g, x), Execute(g, x)
    PROVE  \E e \in Entry : Ran(g, x, e)
<1> DEFINE e(status, result) ==
              [status |-> status, startedAt |-> memory[g][x.id].startedAt, result |-> result]
<1>1. AgentInv(g) /\ SystemTypeOK /\ step[g] = "execute"
  BY DEF SInv, Execute
<1>2. x.id \in ActionId /\ x.id # NoAction /\ applied \in [ActionId -> Nat]
  BY <1>1 DEF SystemTypeOK, Item, SystemAssumption, NoAction
<1>3. memory[g][x.id].startedAt \in Nat
  <2>1. x.id \in DOMAIN memory[g]
    BY <1>1 DEF AgentInv, PassSound, CurrentSound, Running, Holds
  <2>2. QED
    BY <1>1, <2>1, LedgerEntries DEF Entry
<1>4. ASSUME NEW status \in Terminal, NEW result \in SUBSET Handle,
             Outcome(g, x, status, result)
      PROVE  /\ e(status, result) \in Entry
             /\ memory'[g] = With(memory[g], x.id, e(status, result))
             /\ \A h \in Agent \ {g} : memory'[h] = memory[h]
  BY <1>1, <1>3, <1>4 DEF Outcome, Entry, SystemTypeOK
<1>5. /\ UNCHANGED <<vars, batch, disk>> /\ step'[g] = "save"
      /\ \A h \in Agent \ {g} : step'[h] = step[h]
  BY <1>1 DEF Execute, GoTo, SystemTypeOK
<1>6. ASSUME NEW status \in Terminal, NEW result \in SUBSET Handle,
             Outcome(g, x, status, result),
             result # {} => status = "succeeded" /\ actions[x.id].type = Triage,
             status = "succeeded" /\ actions[x.id].type \in {Demo, Terminate}
                 => applied'[x.id] > 0,
             EffectsGrow, FixtureSound(g)', \A h \in Agent \ {g} : fixture'[h] = fixture[h]
      PROVE  \E f \in Entry : Ran(g, x, f)
  <2>1. Ran(g, x, e(status, result))
    BY <1>1, <1>4, <1>5, <1>6 DEF Ran, Untouched
  <2>2. QED
    BY <1>4, <1>6, <2>1
<1>7. ASSUME Apply(x.id) PROVE EffectsGrow /\ applied'[x.id] > 0
  <2>1. applied'[x.id] = applied[x.id] + 1 /\ applied[x.id] \in Nat
    BY <1>2, <1>7 DEF Apply
  <2>2. \A a \in ActionId : a # x.id => applied'[a] = applied[a]
    BY <1>2, <1>7 DEF Apply
  <2>3. QED
    BY <2>1, <2>2 DEF EffectsGrow
<1>8. CASE RunDemo(g, x)
  <2>1. "succeeded" \in Terminal /\ {} \in SUBSET Handle
    BY DEF Terminal
  <2>2. EffectsGrow /\ applied'[x.id] > 0
    BY <1>1, <1>2, <1>8, <1>7 DEF RunDemo, EffectsGrow, AgentInv, FixtureSound
  <2>3. FixtureSound(g)' /\ \A h \in Agent \ {g} : fixture'[h] = fixture[h]
    BY <1>1, <1>8, <2>2 DEF RunDemo, FixtureSound, SystemTypeOK
  <2>4. QED
    BY <1>6, <1>8, <2>1, <2>2, <2>3 DEF RunDemo
<1>9. CASE RunTerminate(g, x)
  <2>1. {} \in SUBSET Handle
    OBVIOUS
  <2>2. EffectsGrow /\ applied'[x.id] > 0
    BY <1>9, <1>7 DEF RunTerminate
  <2>3. FixtureSound(g)'
    BY <1>1, <1>9, <2>2 DEF RunTerminate, AgentInv, FixtureSound, EffectsGrow, SystemTypeOK
  <2>4. QED
    BY <1>6, <1>9, <2>1, <2>2, <2>3 DEF RunTerminate
<1>10. CASE RunCollect(g, x)
  <2>1. "succeeded" \in Terminal
    BY DEF Terminal
  <2>2. EffectsGrow /\ FixtureSound(g)'
    BY <1>1, <1>10 DEF RunCollect, AgentInv, FixtureSound, EffectsGrow
  <2>3. QED
    BY <1>6, <1>10, <2>1, <2>2 DEF RunCollect
<1>11. CASE RunFails(g, x)
  <2>1. "failed" \in Terminal /\ {} \in SUBSET Handle
    BY DEF Terminal
  <2>2. EffectsGrow /\ FixtureSound(g)'
    BY <1>1, <1>11 DEF RunFails, AgentInv, FixtureSound, EffectsGrow
  <2>3. QED
    BY <1>6, <1>11, <2>1, <2>2 DEF RunFails
<1>12. QED
  BY <1>8, <1>9, <1>10, <1>11 DEF Execute

\* The current action is executing for the server as well: had an outcome been
\* recorded, the ledger would have it.
LEMMA ExecutesOpen ==
    ASSUME SInv, NEW g \in Agent, NEW x \in batch[g], IsFirst(g, x), step[g] = "execute"
    PROVE  /\ x.id \in Own(g)
           /\ Holds(memory[g], x.id)
           /\ EntrySound(memory[g][x.id], x.id)
           /\ actions[x.id].status = "executing"
<1>1. AgentInv(g) /\ SystemTypeOK
  BY DEF SInv
<1>2. ItemSound(g, x) /\ CurrentSound(g, x)
  BY <1>1 DEF AgentInv, BatchSound, PassSound
<1>3. /\ HasBegun(x.id) /\ Holds(memory[g], x.id)
      /\ memory[g][x.id].status = "executing"
  BY <1>2 DEF ItemSound, CurrentSound, Running
<1>4. EntrySound(memory[g][x.id], x.id)
  BY <1>1, <1>3 DEF AgentInv, LedgerSound, EntriesSound, Holds
<1>5. QED
  BY <1>2, <1>3, <1>4 DEF ItemSound, EntrySound, Matches, HasBegun, Began, Terminal

LEMMA ExecuteAgent ==
    ASSUME SInv, SystemAssumption, NEW g \in Agent, NEW x \in batch[g],
           IsFirst(g, x), NEW e \in Entry, Ran(g, x, e)
    PROVE  AgentInv(g)'
<1> DEFINE M == memory[g]
<1>1. AgentInv(g) /\ IInv /\ SystemTypeOK /\ TypeOK /\ Numbered
  BY DEF SInv, IInv
<1>2. /\ UNCHANGED vars /\ batch' = batch /\ disk' = disk
      /\ step[g] = "execute" /\ step'[g] = "save"
      /\ memory'[g] = With(M, x.id, e)
      /\ EffectsGrow /\ FixtureSound(g)'
  BY DEF Ran
<1>3. /\ x.id \in Own(g) /\ Holds(M, x.id) /\ EntrySound(M[x.id], x.id)
      /\ actions[x.id].status = "executing" /\ x.id \in ActionId
  BY <1>1, <1>2, ExecutesOpen DEF Own, TypeOK
<1>4. EntrySound(e, x.id)'
  BY <1>2, <1>3 DEF Ran, EntrySound, Matches, vars, Terminal
<1>5. DOMAIN memory'[g] = DOMAIN M
  BY <1>2, <1>3 DEF With, Holds
<1>6. \A a \in DOMAIN M : memory'[g][a] = IF a = x.id THEN e ELSE M[a]
  BY <1>2 DEF With
<1>7. \A a \in Own(g) : a \in Own(g)' /\ a \in ActionId
  BY <1>1, <1>2 DEF vars, Own, Ids, TypeOK
<1>8. \A a \in ActionId : \A entry : EntrySound(entry, a) => EntrySound(entry, a)'
  BY <1>2, StillEntry
<1>9. LedgerSound(g)'
  <2>1. EntriesSound(g, disk[g])'
    BY <1>1, <1>2, <1>7, <1>8 DEF AgentInv, LedgerSound, EntriesSound, EntrySound
  <2>2. ASSUME NEW a \in DOMAIN M
        PROVE  a \in Own(g)' /\ EntrySound(memory[g][a], a)'
    <3>1. a \in Own(g) /\ EntrySound(M[a], a)
      BY <1>1 DEF AgentInv, LedgerSound, EntriesSound
    <3>2. CASE a = x.id
      BY <1>4, <1>6, <1>7, <3>1, <3>2 DEF EntrySound
    <3>3. CASE a # x.id
      BY <1>6, <1>7, <1>8, <3>1, <3>3 DEF EntrySound
    <3>4. QED
      BY <3>2, <3>3
  <2>3. QED
    BY <1>5, <2>1, <2>2 DEF LedgerSound, EntriesSound
<1>10. BatchSound(g)'
  BY <1>1, <1>2, StillBatch DEF AgentInv, Running
<1>11. ASSUME NEW y \in batch[g], IsFirst(g, y)
       PROVE  y = x
  BY <1>1, <1>11, FirstIsUnique DEF AgentInv
<1>12. \A y : IsFirst(g, y)' <=> IsFirst(g, y)
  BY <1>2, StillFirst
<1>13. PassSound(g)'
  <2>1. CurrentSound(g, x)'
    BY <1>2, <1>3, <1>5, <1>6 DEF CurrentSound, Running, Holds, Ran
  <2>2. QED
    BY <1>2, <1>11, <1>12, <2>1 DEF PassSound
<1>14. FilesAgree(g)'
  <2>1. ASSUME NEW a \in DOMAIN disk[g]
        PROVE  a \in DOMAIN M /\ disk[g][a] = M[a]
    BY <1>1, <1>2 DEF AgentInv, FilesAgree, Unsaved, Holds
  <2>2. CurrentSound(g, x) /\ M[x.id].status = "executing"
    BY <1>1, <1>2 DEF AgentInv, PassSound, CurrentSound
  <2>3. ASSUME x.id \in DOMAIN disk[g]
        PROVE  Unsaved(g, x.id)'
    BY <1>2, <1>3, <1>6, <1>12, <2>1, <2>2, <2>3 DEF Unsaved, Ran, Holds
  <2>4. QED
    BY <1>2, <1>5, <1>6, <2>1, <2>3 DEF FilesAgree, Holds
<1>15. Retained(g)'
  <2>1. Remembers(g)'
    BY <1>1, <1>2, StillRemembers DEF AgentInv, Retained
  <2>2. LedgerHolds(g)' => LedgerHolds(g)
    BY <1>2 DEF vars, LedgerHolds, Own, Ids
  <2>3. QED
    BY <1>1, <1>2, <1>5, <2>1, <2>2 DEF AgentInv, Retained
<1>16. QED
  BY <1>2, <1>9, <1>10, <1>13, <1>14, <1>15 DEF AgentInv

LEMMA SaveAgent ==
    ASSUME SInv, SystemAssumption, NEW g \in Agent, Save(g)
    PROVE  AgentInv(g)'
<1> DEFINE M == memory[g]
<1>1. AgentInv(g) /\ IInv /\ SystemTypeOK /\ TypeOK
  BY DEF SInv, IInv
<1>2. /\ UNCHANGED vars /\ fixture' = fixture /\ applied' = applied
      /\ batch' = batch /\ memory' = memory
      /\ step[g] = "save" /\ step'[g] = "report" /\ SaveLedger(g)
  BY <1>1 DEF Save, GoTo, SystemTypeOK
<1>3. \A a \in DOMAIN M : a \in Own(g) /\ a \in Ids /\ a \in ActionId /\ EntrySound(M[a], a)
  BY <1>1 DEF AgentInv, LedgerSound, EntriesSound, Own, TypeOK
<1>4. /\ DOMAIN disk'[g] \subseteq DOMAIN M
      /\ \A a \in DOMAIN disk'[g] : disk'[g][a] = M[a]
      /\ Cardinality(DOMAIN M) <= LedgerLimit => DOMAIN disk'[g] = DOMAIN M
  BY <1>1, <1>2, <1>3, SaveFacts
<1>5. \A a \in ActionId : \A entry : EntrySound(entry, a) => EntrySound(entry, a)'
  BY <1>2, StillEntry DEF EffectsGrow
<1>6. \A a \in Own(g) : a \in Own(g)'
  BY <1>2 DEF vars, Own, Ids
<1>7. LedgerSound(g)'
  BY <1>2, <1>3, <1>4, <1>5, <1>6 DEF LedgerSound, EntriesSound, EntrySound
<1>8. BatchSound(g)'
  BY <1>1, <1>2, StillBatch DEF AgentInv, Running
<1>9. \A y : IsFirst(g, y)' <=> IsFirst(g, y)
  BY <1>2, StillFirst
<1>10. PassSound(g)'
  BY <1>1, <1>2, <1>9 DEF AgentInv, PassSound, CurrentSound, Running, Holds
<1>11. FilesAgree(g)'
  BY <1>2, <1>4 DEF FilesAgree, Holds
<1>12. Retained(g)'
  <2>1. LedgerHolds(g) => DOMAIN disk'[g] = DOMAIN M
    <3>1. DOMAIN M \in SUBSET Own(g)
      BY <1>3
    <3>2. QED
      BY <1>1, <1>4, <3>1, MemoryFits
  <2>2. DOMAIN disk[g] \subseteq DOMAIN M
    BY <1>1, <1>2 DEF AgentInv, FilesAgree, Holds
  <2>3. Remembers(g)'
    BY <1>1, <1>2, <2>1, <2>2, StillRemembers DEF AgentInv, Retained
  <2>4. LedgerHolds(g)' => LedgerHolds(g)
    BY <1>2 DEF vars, LedgerHolds, Own, Ids
  <2>5. QED
    BY <1>2, <2>1, <2>3, <2>4 DEF Retained
<1>13. FixtureSound(g)'
  BY <1>1, <1>2 DEF AgentInv, FixtureSound
<1>14. QED
  BY <1>7, <1>8, <1>10, <1>11, <1>12, <1>13 DEF AgentInv

-----------------------------------------------------------------------------
(* An agent that reports *)

\* What the server's tables are after a report on the current action.
Posted(g, x) ==
    /\ Ids' = Ids /\ now' = now
    /\ \A b \in Ids : KeepsIdentity(b) /\ (b # x.id => actions'[b] = actions[b])
    /\ actions[x.id].status \in Terminal => actions'[x.id] = actions[x.id]
    /\ actions'[x.id].status \in Began
    /\ Matches(memory[g][x.id], actions'[x.id])

Acknowledgement(g, x) ==
    [status |-> "executing", startedAt |-> memory[g][x.id].startedAt,
     completedAt |-> NoTime, result |-> {}]

Final(g, x) ==
    [status |-> memory[g][x.id].status, startedAt |-> memory[g][x.id].startedAt,
     completedAt |-> now, result |-> memory[g][x.id].result]

\* Who posts has the action in its ledger.
LEMMA PostedHeld ==
    ASSUME SInv, NEW g \in Agent, NEW x \in batch[g], IsFirst(g, x),
           step[g] \in {"ack", "report"}
    PROVE  /\ x.id \in Own(g) /\ x.id \in Ids
           /\ Holds(memory[g], x.id)
           /\ memory[g][x.id] \in Entry
           /\ EntrySound(memory[g][x.id], x.id)
           /\ step[g] = "report" => memory[g][x.id].status \in Terminal
<1>1. AgentInv(g) /\ SystemTypeOK
  BY DEF SInv
<1>2. ItemSound(g, x) /\ CurrentSound(g, x)
  BY <1>1 DEF AgentInv, BatchSound, PassSound
<1>3. Holds(memory[g], x.id) /\ (step[g] = "report" => memory[g][x.id].status \in Terminal)
  BY <1>2 DEF CurrentSound, Running
<1>4. QED
  BY <1>1, <1>2, <1>3, LedgerEntries DEF ItemSound, AgentInv, LedgerSound, EntriesSound, Holds, Own

\* What it posts is a report that the server's model expects of an endpoint.
LEMMA PostedReports ==
    ASSUME SInv, ConstantsAssumption, NEW g \in Agent, NEW x \in batch[g], IsFirst(g, x),
           step[g] \in {"ack", "report"}
    PROVE  /\ Acknowledgement(g, x) \in Reports(actions[x.id].type)
           /\ step[g] = "report" => Final(g, x) \in Reports(actions[x.id].type)
<1> DEFINE e == memory[g][x.id]
<1>1. /\ e \in Entry /\ EntrySound(e, x.id)
      /\ step[g] = "report" => e.status \in Terminal
  BY PostedHeld
<1>2. now \in Nat \ {0} /\ now <= MaxTime /\ MaxTime \in Nat /\ ClockError \in Nat
  BY DEF SInv, IInv, TypeOK, ClockBound, ConstantsAssumption
<1>3. e.startedAt \in StartReadings /\ e.startedAt <= now /\ now \in ClockReadings
  BY <1>1, <1>2 DEF EntrySound, StartReadings, ClockReadings
<1>4. Acknowledgement(g, x) \in Acknowledgements
  BY <1>3 DEF Acknowledgement, Acknowledgements
<1>5. ASSUME step[g] = "report" PROVE Final(g, x) \in Outcomes(actions[x.id].type)
  BY <1>1, <1>3, <1>5 DEF Final, Outcomes, Entry, EntrySound
<1>6. QED
  BY <1>4, <1>5 DEF Reports

LEMMA PostedRow ==
    ASSUME SInv, NEW g \in Agent, NEW x \in batch[g], IsFirst(g, x),
           step[g] \in {"ack", "report"},
           NEW p \in Reports(actions[x.id].type),
           p.startedAt = memory[g][x.id].startedAt,
           p.status \in Terminal => /\ p.status = memory[g][x.id].status
                                    /\ p.result = memory[g][x.id].result,
           PostResult(g, x.id, p)
    PROVE  Posted(g, x)
<1> DEFINE row == actions[x.id]
           e == memory[g][x.id]
<1>1. x.id \in Ids /\ EntrySound(e, x.id) /\ TypeOK
  BY PostedHeld DEF SInv, IInv
<1>2. row \in ActionRow /\ p \in Payload
  BY <1>1, RowFacts, ReportsType DEF ActionRow
<1>3. /\ Ids' = Ids /\ now' = now /\ approvals' = approvals
      /\ \A b \in Ids : b # x.id => actions'[b] = actions[b]
  BY <1>1 DEF PostResult, TypeOK, Ids
<1>4. \A b \in Ids : b # x.id => KeepsIdentity(b)
  BY <1>3 DEF KeepsIdentity
<1>5. Matches(e, row)
  BY <1>1 DEF EntrySound
<1>6. CASE RepeatedReport(row, p)
  <2>1. actions'[x.id] = row /\ row.status \in Began
    BY <1>6 DEF PostResult, RepeatedReport, Began
  <2>2. KeepsIdentity(x.id)
    BY <1>3, <2>1 DEF KeepsIdentity
  <2>3. QED
    BY <1>3, <1>4, <1>5, <2>1, <2>2 DEF Posted
<1>7. CASE ~RepeatedReport(row, p)
  <2>1. actions'[x.id] = RecordedRow(row, p) /\ NewReport(row, p)
    BY <1>1, <1>7 DEF PostResult, ResultAccepted, TypeOK, Ids
  <2>2. /\ KeepsIdentity(x.id)
        /\ actions'[x.id].status = p.status
        /\ actions'[x.id].startedAt = StartOf(row, p)
        /\ actions'[x.id].result = p.result
    BY <1>2, <1>3, <2>1 DEF KeepsIdentity, RecordedRow, ActionRow
  <2>3. p.status \in Began /\ row.status \notin Terminal
    BY <2>1 DEF NewReport, Began, Terminal
  <2>4. Matches(e, actions'[x.id])
    BY <1>5, <2>2 DEF Matches, StartOf
  <2>5. QED
    BY <1>3, <1>4, <2>2, <2>3, <2>4 DEF Posted
<1>8. QED
  BY <1>6, <1>7

\* An answer that was taken lets the pass go on.
Acknowledged(g, x) ==
    /\ step[g] = "ack"
    /\ GoTo(g, IF Finished(memory[g], x.id) THEN "report" ELSE "execute")
    /\ UNCHANGED <<memory, fresh, batch>>

Reported(g, x) ==
    /\ step[g] = "report"
    /\ batch' = [batch EXCEPT ![g] = @ \ {x}]
    /\ GoTo(g, IF batch'[g] = {} THEN "idle" ELSE "begin")
    /\ UNCHANGED <<memory, fresh>>

LEMMA PostSteps ==
    ASSUME SInv, ConstantsAssumption, NEW g \in Agent, NEW x \in batch[g], IsFirst(g, x),
           Acknowledge(g, x) \/ Report(g, x)
    PROVE  /\ UNCHANGED durable
           /\ step[g] \in {"ack", "report"}
           /\ \/ UNCHANGED vars /\ Exit(g)
              \/ /\ Posted(g, x)
                 /\ \E p \in Reports(actions[x.id].type) : PostResult(g, x.id, p)
                 /\ Exit(g) \/ Acknowledged(g, x) \/ Reported(g, x)
<1>1. CASE Acknowledge(g, x)
  <2> DEFINE p == Acknowledgement(g, x)
  <2>1. step[g] = "ack" /\ UNCHANGED durable
    BY <1>1 DEF Acknowledge
  <2>2. \/ PostResult(g, x.id, p) /\ (Exit(g) \/ Acknowledged(g, x))
        \/ UNCHANGED vars /\ Exit(g)
    BY <1>1, <2>1 DEF Acknowledge, Post, Acknowledgement, Acknowledged
  <2>3. p \in Reports(actions[x.id].type)
    BY <2>1, PostedReports
  <2>4. p.startedAt = memory[g][x.id].startedAt /\ p.status \notin Terminal
    BY DEF Acknowledgement, Terminal
  <2>5. PostResult(g, x.id, p) => Posted(g, x)
    BY <2>1, <2>3, <2>4, PostedRow
  <2>6. QED
    BY <2>1, <2>2, <2>3, <2>5
<1>2. CASE Report(g, x)
  <2> DEFINE p == Final(g, x)
  <2>1. step[g] = "report" /\ UNCHANGED durable
    BY <1>2 DEF Report
  <2>2. \/ PostResult(g, x.id, p) /\ (Exit(g) \/ Reported(g, x))
        \/ UNCHANGED vars /\ Exit(g)
    BY <1>2, <2>1 DEF Report, Post, Final, Reported
  <2>3. p \in Reports(actions[x.id].type)
    BY <2>1, PostedReports
  <2>4. /\ p.startedAt = memory[g][x.id].startedAt
        /\ p.status = memory[g][x.id].status
        /\ p.result = memory[g][x.id].result
    BY DEF Final
  <2>5. PostResult(g, x.id, p) => Posted(g, x)
    BY <2>1, <2>3, <2>4, PostedRow
  <2>6. QED
    BY <2>1, <2>2, <2>3, <2>5
<1>3. QED
  BY <1>1, <1>2

\* The other endpoints see nothing of the report.
LEMMA PostedElsewhere ==
    ASSUME SInv, NEW g \in Agent, NEW x \in batch[g], Posted(g, x), NEW h \in Agent, h # g
    PROVE  OwnKept(h)
<1>1. x.id \in Own(g)
  BY DEF SInv, AgentInv, BatchSound, ItemSound
<1>2. \A b \in Own(h) : b \in Ids /\ b # x.id
  BY <1>1 DEF Own
<1>3. Own(h)' = Own(h)
  BY DEF Posted, Own, KeepsIdentity
<1>4. QED
  BY <1>2, <1>3 DEF OwnKept, RowKept, Posted, HasBegun

\* What both files say is still so once the report is recorded.
LEMMA PostedLedger ==
    ASSUME SInv, NEW g \in Agent, NEW x \in batch[g], IsFirst(g, x),
           step[g] \in {"ack", "report"}, Posted(g, x), UNCHANGED durable
    PROVE  /\ EntriesSound(g, disk[g])'
           /\ Remembers(g)'
           /\ FixtureSound(g)'
           /\ Own(g)' = Own(g)
           /\ \A a \in DOMAIN memory[g] : a \in Own(g)'
           /\ \A a \in DOMAIN memory[g] : \A entry :
                 entry = memory[g][a] => EntrySound(entry, a)'
<1>1. AgentInv(g) /\ SystemTypeOK
  BY DEF SInv
<1>2. disk' = disk /\ applied' = applied /\ fixture' = fixture /\ now' = now
  BY DEF durable, Posted
<1>3. Own(g)' = Own(g)
  BY DEF Posted, Own, KeepsIdentity
<1>4. ASSUME NEW a \in Own(g), NEW entry, EntrySound(entry, a),
             a = x.id => entry = memory[g][x.id]
      PROVE  EntrySound(entry, a)'
  <2>1. a \in Ids /\ actions'[a].type = actions[a].type
    BY DEF Own, Posted, KeepsIdentity
  <2>2. Matches(entry, actions'[a])
    BY <1>4, <2>1 DEF Posted, EntrySound
  <2>3. QED
    BY <1>2, <1>4, <2>1, <2>2 DEF EntrySound
<1>5. \A a \in DOMAIN disk[g] : Holds(memory[g], a) /\ disk[g][a] = memory[g][a]
  BY <1>1 DEF AgentInv, FilesAgree, Unsaved
<1>6. EntriesSound(g, disk[g])'
  <2>1. \A a \in DOMAIN disk[g] : a \in Own(g) /\ EntrySound(disk[g][a], a)
    BY <1>1 DEF AgentInv, LedgerSound, EntriesSound
  <2>2. QED
    BY <1>2, <1>3, <1>4, <1>5, <2>1 DEF EntriesSound, EntrySound
<1>7. Remembers(g)'
  <2>1. LedgerHolds(g)' => LedgerHolds(g)
    BY <1>3 DEF LedgerHolds
  <2>2. ASSUME LedgerHolds(g) PROVE Holds(disk[g], x.id)
    BY <1>1, <2>2, PostedHeld DEF AgentInv, Retained, Holds
  <2>3. ASSUME NEW a \in Own(g), a # x.id, actions'[a].status \in Began
        PROVE  HasBegun(a)
    BY <2>3 DEF Own, Posted, HasBegun
  <2>4. QED
    BY <1>1, <1>2, <1>3, <2>1, <2>2, <2>3 DEF AgentInv, Retained, Remembers, HasBegun, Holds
<1>8. FixtureSound(g)'
  BY <1>1, <1>2 DEF AgentInv, FixtureSound
<1>9. \A a \in DOMAIN memory[g] : a \in Own(g) /\ EntrySound(memory[g][a], a)
  BY <1>1 DEF AgentInv, LedgerSound, EntriesSound
<1>10. QED
  BY <1>3, <1>4, <1>6, <1>7, <1>8, <1>9

LEMMA AcknowledgedAgent ==
    ASSUME SInv, NEW g \in Agent, NEW x \in batch[g], IsFirst(g, x),
           Posted(g, x), UNCHANGED durable, Acknowledged(g, x)
    PROVE  AgentInv(g)'
<1> DEFINE M == memory[g]
<1>1. AgentInv(g) /\ IInv /\ SystemTypeOK /\ Numbered
  BY DEF SInv
<1>2. /\ memory' = memory /\ batch' = batch /\ disk' = disk
      /\ step[g] = "ack" /\ step'[g] = IF Finished(M, x.id) THEN "report" ELSE "execute"
  BY <1>1 DEF Acknowledged, GoTo, SystemTypeOK, durable
<1>3. /\ EntriesSound(g, disk[g])' /\ Remembers(g)' /\ FixtureSound(g)' /\ Own(g)' = Own(g)
      /\ \A a \in DOMAIN M : a \in Own(g)'
      /\ \A a \in DOMAIN M : \A entry : entry = M[a] => EntrySound(entry, a)'
  BY <1>2, PostedLedger
<1>4. x.id \in Own(g) /\ x.id \in Ids /\ Holds(M, x.id) /\ M[x.id] \in Entry
  BY <1>2, PostedHeld
<1>5. LedgerSound(g)'
  BY <1>2, <1>3 DEF LedgerSound, EntriesSound, EntrySound
<1>6. ASSUME NEW y \in batch[g], IsFirst(g, y)
      PROVE  y = x
  BY <1>1, <1>6, FirstIsUnique DEF AgentInv
<1>7. \A y : IsFirst(g, y)' <=> IsFirst(g, y)
  BY <1>1, <1>2, FirstIsKept DEF AgentInv, Posted, Own
<1>8. BatchSound(g)'
  <2>1. ASSUME NEW y \in batch[g]
        PROVE  ItemSound(g, y)'
    <3>1. ItemSound(g, y) /\ y.id \in Own(g)' /\ y.id \in Ids
      BY <1>1, <1>3 DEF AgentInv, BatchSound, ItemSound, Own
    <3>2. CASE y = x
      BY <1>2, <1>7, <3>1, <3>2 DEF ItemSound, Posted, HasBegun, Running
    <3>3. CASE y # x
      <4>1. y.id # x.id /\ actions'[y.id] = actions[y.id]
        BY <1>1, <3>1, <3>3 DEF AgentInv, BatchSound, Posted
      <4>2. ~IsFirst(g, y)
        BY <1>6, <3>3
      <4>3. QED
        BY <1>2, <1>7, <3>1, <4>1, <4>2 DEF ItemSound, HasBegun
    <3>4. QED
      BY <3>2, <3>3
  <2>2. QED
    BY <1>1, <1>2, <2>1 DEF BatchSound, AgentInv
<1>9. PassSound(g)'
  <2>1. CurrentSound(g, x)'
    BY <1>2, <1>4 DEF CurrentSound, Running, Holds, Finished, Entry, Terminal
  <2>2. QED
    BY <1>2, <1>6, <1>7, <2>1 DEF PassSound
<1>10. FilesAgree(g)'
  BY <1>1, <1>2 DEF AgentInv, FilesAgree, Unsaved, Holds
<1>11. Retained(g)'
  BY <1>1, <1>2, <1>3 DEF AgentInv, Retained, LedgerHolds
<1>12. QED
  BY <1>3, <1>5, <1>8, <1>9, <1>10, <1>11 DEF AgentInv

LEMMA ReportedAgent ==
    ASSUME SInv, NEW g \in Agent, NEW x \in batch[g], IsFirst(g, x),
           Posted(g, x), UNCHANGED durable, Reported(g, x)
    PROVE  AgentInv(g)'
<1> DEFINE M == memory[g]
<1>1. AgentInv(g) /\ IInv /\ SystemTypeOK /\ Numbered
  BY DEF SInv
<1>2. /\ memory' = memory /\ disk' = disk
      /\ batch'[g] = batch[g] \ {x}
      /\ step[g] = "report" /\ step'[g] \in {"idle", "begin"}
  BY <1>1 DEF Reported, GoTo, SystemTypeOK, durable
<1>3. /\ EntriesSound(g, disk[g])' /\ Remembers(g)' /\ FixtureSound(g)' /\ Own(g)' = Own(g)
      /\ \A a \in DOMAIN M : a \in Own(g)'
      /\ \A a \in DOMAIN M : \A entry : entry = M[a] => EntrySound(entry, a)'
  BY <1>2, PostedLedger
<1>4. LedgerSound(g)'
  BY <1>2, <1>3 DEF LedgerSound, EntriesSound, EntrySound
<1>5. ASSUME NEW y \in batch[g], IsFirst(g, y)
      PROVE  y = x
  BY <1>1, <1>5, FirstIsUnique DEF AgentInv
<1>6. BatchSound(g)'
  <2>1. ASSUME NEW y \in batch'[g]
        PROVE  ItemSound(g, y)'
    <3>1. ItemSound(g, y) /\ y.id \in Own(g)' /\ y.id \in Ids /\ y \in batch[g] /\ y # x
      BY <1>1, <1>2, <1>3 DEF AgentInv, BatchSound, ItemSound, Own
    <3>2. actions'[y.id] = actions[y.id]
      BY <1>1, <3>1 DEF AgentInv, BatchSound, Posted
    <3>3. ~IsFirst(g, y)
      BY <1>5, <3>1
    <3>4. QED
      BY <1>2, <3>1, <3>2, <3>3 DEF ItemSound, HasBegun, Running
  <2>2. QED
    BY <1>1, <1>2, <2>1 DEF BatchSound, AgentInv
<1>7. PassSound(g)'
  BY <1>2 DEF PassSound, CurrentSound, Running
<1>8. FilesAgree(g)'
  BY <1>1, <1>2 DEF AgentInv, FilesAgree, Unsaved, Holds
<1>9. Retained(g)'
  BY <1>1, <1>2, <1>3 DEF AgentInv, Retained, LedgerHolds
<1>10. QED
  BY <1>3, <1>4, <1>6, <1>7, <1>8, <1>9 DEF AgentInv

-----------------------------------------------------------------------------
(* Every step *)

LEMMA StillIInv == IInv /\ UNCHANGED vars => IInv'
  BY ConstantsAssumption, Inductive

\* The composition adds nothing to what the server does.
LEMMA StepRefines ==
    ASSUME SInv, ConstantsAssumption, [SystemNext]_systemVars
    PROVE  [Next]_vars
<1>1. CASE ServerNext
  BY <1>1 DEF ServerNext, Next
<1>2. ASSUME NEW g \in Agent, Poll(g) \/ PollUnanswered(g)
      PROVE  [Next]_vars
  BY <1>2 DEF Poll, PollUnanswered, Next, EndpointNext
<1>3. ASSUME NEW g \in Agent, NEW x \in batch[g], Process(g, x)
      PROVE  [Next]_vars
  <2>1. CASE Acknowledge(g, x) \/ Report(g, x)
    <3>1. \/ UNCHANGED vars
          \/ \E p \in Reports(actions[x.id].type) : PostResult(g, x.id, p)
      BY <1>3, <2>1, PostSteps DEF Process
    <3>2. x.id \in Ids
      BY DEF SInv, AgentInv, BatchSound, ItemSound, Own
    <3>3. QED
      BY <3>1, <3>2 DEF Next, EndpointNext
  <2>2. CASE Begin(g, x) \/ Execute(g, x) \/ Save(g)
    BY <2>2 DEF Begin, Execute, Save
  <2>3. QED
    BY <1>3, <2>1, <2>2 DEF Process
<1>4. ASSUME NEW g \in Agent, Crash(g)
      PROVE  [Next]_vars
  BY <1>4 DEF Crash
<1>5. CASE UNCHANGED systemVars
  BY <1>5 DEF systemVars
<1>6. QED
  BY <1>1, <1>2, <1>3, <1>4, <1>5 DEF SystemNext, Pass

LEMMA ClockStep ==
    ASSUME IInv, ConstantsAssumption, ClockBound, [Next]_vars
    PROVE  now <= now' /\ ClockBound'
<1>1. now \in Nat
  BY DEF IInv, TypeOK
<1>2. AnalystNext => now' = now
  <2>1. \A i \in Incident, t \in IncidentStatus : PatchIncident(i, t) => now' = now
    BY DEF PatchIncident
  <2>2. \A g \in Agent : EnableAgent(g) \/ DisableAgent(g) => now' = now
    BY DEF EnableAgent, DisableAgent
  <2>3. \A a \in ActionId, i \in Incident, g \in Agent, t \in ActionType,
           h \in Handle \cup {NoHandle}, ttl \in TTL :
              RequestAction(a, i, g, t, h, ttl) => now' = now
    BY DEF RequestAction
  <2>4. \A a \in Ids : Approve(a) \/ Reject(a) => now' = now
    BY DEF Approve, Reject, Put
  <2>5. \A i \in Incident : ListActions(i) => now' = now
    BY DEF ListActions
  <2>6. QED
    BY <2>1, <2>2, <2>3, <2>4, <2>5 DEF AnalystNext
<1>3. EnvironmentNext => now' = now \/ Tick
  BY DEF EnvironmentNext, IngestEvent, EnrollAgent, ReportCapabilities
<1>4. EndpointNext => now' = now
  BY DEF EndpointNext, PollPending, PostResult
<1>5. now' = now \/ Tick
  BY <1>2, <1>3, <1>4 DEF Next, vars
<1>6. QED
  BY <1>1, <1>5 DEF Tick, ClockBound, ConstantsAssumption

\* A step of one agent leaves the files and the pass of the others alone.
LEMMA Elsewhere ==
    ASSUME SInv, SystemAssumption, ConstantsAssumption, NEW g \in Agent, Pass(g) \/ Crash(g),
           NEW h \in Agent, h # g
    PROVE  OwnKept(h) /\ Untouched(h) /\ EffectsGrow
<1>1. AgentInv(g) /\ IInv /\ SystemTypeOK /\ (UNCHANGED vars => OwnKept(h))
  BY UnchangedRows DEF SInv
<1>2. Exit(g) => /\ memory'[h] = memory[h] /\ batch'[h] = batch[h] /\ step'[h] = step[h]
  BY <1>1 DEF Exit, SystemTypeOK
<1>3. applied' = applied => EffectsGrow
  BY DEF EffectsGrow
<1>4. CASE Crash(g)
  BY <1>1, <1>2, <1>3, <1>4 DEF Crash, durable, Untouched
<1>5. CASE Poll(g)
  <2>1. OwnKept(h)
    BY <1>1, <1>5, GovernedRows DEF Poll, Governs
  <2>2. Untouched(h)
    BY <1>1, <1>5 DEF Poll, GoTo, durable, Untouched, SystemTypeOK
  <2>3. QED
    BY <1>3, <1>5, <2>1, <2>2 DEF Poll, durable
<1>6. ASSUME NEW x \in batch[g], Process(g, x)
      PROVE  OwnKept(h) /\ Untouched(h) /\ EffectsGrow
  <2>1. CASE Begin(g, x)
    <3>1. UNCHANGED vars /\ fixture' = fixture /\ applied' = applied
      BY <2>1 DEF Begin
    <3>2. CASE Exit(g) /\ UNCHANGED disk
      BY <1>1, <1>2, <1>3, <3>1, <3>2 DEF Untouched
    <3>3. CASE ~(Exit(g) /\ UNCHANGED disk)
      <4>1. memory'[h] = memory[h] /\ batch'[h] = batch[h] /\ step'[h] = step[h]
        BY <1>1, <2>1, <3>3 DEF Begin, GoTo, SystemTypeOK
      <4>2. disk'[h] = disk[h]
        BY <1>1, <2>1, <3>3 DEF Begin, SaveLedger, SystemTypeOK
      <4>3. QED
        BY <1>1, <1>3, <3>1, <4>1, <4>2 DEF Untouched
    <3>4. QED
      BY <3>2, <3>3
  <2>2. CASE Acknowledge(g, x) \/ Report(g, x)
    <3>1. disk' = disk /\ fixture' = fixture /\ EffectsGrow
      BY <1>3, <1>6, <2>2, PostSteps DEF Process, durable
    <3>2. Exit(g) \/ Acknowledged(g, x) \/ Reported(g, x)
      BY <1>6, <2>2, PostSteps DEF Process
    <3>3. memory'[h] = memory[h] /\ batch'[h] = batch[h] /\ step'[h] = step[h]
      BY <1>1, <1>2, <3>2 DEF Acknowledged, Reported, GoTo, SystemTypeOK
    <3>4. OwnKept(h)
      BY <1>1, <1>6, <2>2, PostSteps, PostedElsewhere DEF Process
    <3>5. QED
      BY <3>1, <3>3, <3>4 DEF Untouched
  <2>3. CASE Execute(g, x)
    <3>1. PICK e \in Entry : Ran(g, x, e)
      BY <1>6, <2>3, ExecuteRan DEF Process
    <3>2. QED
      BY <1>1, <3>1 DEF Ran
  <2>4. CASE Save(g)
    <3>1. UNCHANGED vars /\ fixture' = fixture /\ applied' = applied
      BY <2>4 DEF Save
    <3>2. memory'[h] = memory[h] /\ batch'[h] = batch[h] /\ step'[h] = step[h]
      BY <1>1, <2>4 DEF Save, GoTo, SystemTypeOK
    <3>3. disk'[h] = disk[h]
      BY <1>1, <2>4 DEF Save, SaveLedger, SystemTypeOK
    <3>4. QED
      BY <1>1, <1>3, <3>1, <3>2, <3>3 DEF Untouched
  <2>5. QED
    BY <1>6, <2>1, <2>2, <2>3, <2>4 DEF Process
<1>7. QED
  BY <1>4, <1>5, <1>6 DEF Pass

LEMMA ActingAgent ==
    ASSUME SInv, IInv', SystemAssumption, ConstantsAssumption, NEW g \in Agent,
           Pass(g) \/ Crash(g), now <= now'
    PROVE  AgentInv(g)'
<1>1. SystemTypeOK /\ (UNCHANGED vars => OwnKept(g))
  BY UnchangedRows DEF SInv
<1>2. CASE Crash(g)
  BY <1>1, <1>2, QuietExit DEF Crash, durable
<1>3. CASE Poll(g)
  BY <1>3, PollAgent
<1>4. ASSUME NEW x \in batch[g], Process(g, x)
      PROVE  AgentInv(g)'
  <2>1. IsFirst(g, x)
    BY <1>4 DEF Process
  <2>2. CASE Begin(g, x)
    <3>1. CASE Unacceptable(g, x)
      BY <1>1, <2>2, <3>1, QuietExit DEF Begin
    <3>2. CASE ~Unacceptable(g, x) /\ ~Holds(memory[g], x.id)
      BY <2>1, <2>2, <3>2, BeginNewAgent
    <3>3. CASE Holds(memory[g], x.id)
      BY <2>1, <2>2, <3>3, BeginKnownAgent
    <3>4. QED
      BY <3>1, <3>2, <3>3
  <2>3. CASE Acknowledge(g, x) \/ Report(g, x)
    <3>1. UNCHANGED durable /\ step[g] \in {"ack", "report"}
      BY <2>1, <2>3, PostSteps
    <3>2. CASE UNCHANGED vars /\ Exit(g)
      BY <1>1, <3>1, <3>2, QuietExit DEF durable
    <3>3. CASE Posted(g, x) /\ Exit(g)
      BY <1>1, <2>1, <3>1, <3>3, PostedLedger, ExitAgent
    <3>4. CASE Posted(g, x) /\ Acknowledged(g, x)
      BY <2>1, <3>1, <3>4, AcknowledgedAgent
    <3>5. CASE Posted(g, x) /\ Reported(g, x)
      BY <2>1, <3>1, <3>5, ReportedAgent
    <3>6. QED
      BY <2>1, <2>3, <3>2, <3>3, <3>4, <3>5, PostSteps
  <2>4. CASE Execute(g, x)
    BY <2>1, <2>4, ExecuteRan, ExecuteAgent
  <2>5. CASE Save(g)
    BY <2>5, SaveAgent
  <2>6. QED
    BY <1>4, <2>2, <2>3, <2>4, <2>5 DEF Process
<1>5. QED
  BY <1>2, <1>3, <1>4 DEF Pass

\* A step in which no agent does more than poll in vain.
Idle ==
    /\ Governs
    /\ UNCHANGED <<volatile, durable>>

LEMMA StepKinds ==
    ASSUME [SystemNext]_systemVars
    PROVE  Idle \/ \E g \in Agent : Pass(g) \/ Crash(g)
  BY DEF SystemNext, ServerNext, Idle, Governs, PollUnanswered, systemVars, endpointVars

LEMMA AgentsStep ==
    ASSUME SInv, IInv', SystemAssumption, ConstantsAssumption, [SystemNext]_systemVars
    PROVE  \A h \in Agent : AgentInv(h)'
<1>1. now <= now' /\ IInv
  BY StepRefines, ClockStep DEF SInv
<1>2. ASSUME NEW g \in Agent, Pass(g) \/ Crash(g), NEW h \in Agent
      PROVE  AgentInv(h)'
  <2>1. CASE h = g
    BY <1>1, <1>2, <2>1, ActingAgent
  <2>2. CASE h # g
    BY <1>1, <1>2, <2>2, Elsewhere, AgentFrame
  <2>3. QED
    BY <2>1, <2>2
<1>3. ASSUME Idle, NEW h \in Agent
      PROVE  AgentInv(h)'
  <2>1. OwnKept(h)
    BY <1>1, <1>3, GovernedRows DEF Idle
  <2>2. Untouched(h) /\ EffectsGrow
    BY <1>3 DEF Idle, Untouched, EffectsGrow, volatile, durable
  <2>3. QED
    BY <1>1, <2>1, <2>2, AgentFrame
<1>4. QED
  BY <1>2, <1>3, StepKinds

LEMMA NumberedStep ==
    ASSUME IInv, ConstantsAssumption, Numbered, [Next]_vars
    PROVE  Numbered'
<1>1. \A a \in Ids : actions'[a].requested = actions[a].requested
  BY StepMoves DEF Moves, Governed, KeepsIdentity
<1>2. IsFiniteSet(Ids) /\ Cardinality(Ids) \in Nat
  BY FS_CardinalityType DEF IInv, TypeOK
<1>3. \A a \in Ids : actions[a].requested \in Nat
  BY RowFacts DEF IInv, ActionRow
<1>4. CASE Ids' = Ids
  BY <1>1, <1>4 DEF Numbered
<1>5. ASSUME NEW a \in ActionId \ Ids, Ids' = Ids \cup {a}, Adds(a)
      PROVE  Numbered'
  <2>1. actions'[a].requested = Cardinality(Ids) + 1
    BY <1>5 DEF Adds, IsNew
  <2>2. Cardinality(Ids') = Cardinality(Ids) + 1
    BY <1>2, <1>5, FS_AddElement
  <2>3. QED
    BY <1>1, <1>2, <1>3, <1>5, <2>1, <2>2 DEF Numbered
<1>6. QED
  BY <1>4, <1>5, StepMoves

\* What becomes of the rows in any step.
RowsGrow ==
    /\ \A a \in Ids :
          /\ a \in Ids' /\ KeepsIdentity(a)
          /\ HasBegun(a) => actions'[a].status \in Began
          /\ actions[a].status \in Terminal => actions'[a] = actions[a]
    /\ \A a \in Ids' \ Ids : actions'[a].status = "pending"

LEMMA RowsStep ==
    ASSUME IInv, ConstantsAssumption, [Next]_vars
    PROVE  RowsGrow
<1>1. ASSUME NEW a \in Ids
      PROVE  /\ a \in Ids' /\ KeepsIdentity(a)
             /\ HasBegun(a) => actions'[a].status \in Began
             /\ actions[a].status \in Terminal => actions'[a] = actions[a]
  BY StepMoves DEF Moves, Governed, Stays, IsVoided, IsRejected, IsApproved, IsDispatched,
                   IsReported, HasBegun, Began, Undispatched, Terminal
<1>2. \A a \in Ids' \ Ids : actions'[a].status = "pending"
  BY StepMoves DEF Adds, IsNew
<1>3. QED
  BY <1>1, <1>2 DEF RowsGrow

-----------------------------------------------------------------------------
(* Type correctness *)

LEMMA WithType ==
    ASSUME NEW ledger, IsLedger(ledger), NEW a \in ActionId, NEW e \in Entry
    PROVE  IsLedger(With(ledger, a, e))
<1>1. /\ DOMAIN With(ledger, a, e) = DOMAIN ledger \cup {a}
      /\ \A b \in DOMAIN ledger \cup {a} :
            With(ledger, a, e)[b] = IF b = a THEN e ELSE ledger[b]
  BY DEF With
<1>2. \A b \in DOMAIN ledger : ledger[b] \in Entry /\ b \in ActionId
  BY DEF IsLedger
<1>3. With(ledger, a, e) \in [DOMAIN ledger \cup {a} -> Entry]
  BY <1>2 DEF With
<1>4. QED
  BY <1>1, <1>2, <1>3 DEF IsLedger

PassTypeOK ==
    /\ DOMAIN memory = Agent
    /\ \A g \in Agent : IsLedger(memory[g])
    /\ fresh \in [Agent -> SUBSET ActionId]
    /\ batch \in [Agent -> SUBSET Item]
    /\ step \in [Agent -> Step]

FilesTypeOK ==
    /\ DOMAIN disk = Agent
    /\ \A g \in Agent : IsLedger(disk[g])
    /\ fixture \in [Agent -> ActionId \cup {NoAction}]
    /\ gone \in [Agent -> SUBSET Handle]
    /\ applied \in [ActionId -> Nat]

LEMMA TypeParts == SystemTypeOK <=> TypeOK /\ PassTypeOK /\ FilesTypeOK /\ failures \in Nat
  BY DEF SystemTypeOK, PassTypeOK, FilesTypeOK

LEMMA ExitType ==
    ASSUME PassTypeOK, NEW g \in Agent, Exit(g)
    PROVE  PassTypeOK'
<1>1. IsLedger(EmptyLedger)
  BY DEF IsLedger, EmptyLedger
<1>2. "idle" \in Step
  BY DEF Step
<1>3. DOMAIN memory' = Agent /\ \A h \in Agent : IsLedger(memory'[h])
  BY <1>1 DEF Exit, PassTypeOK
<1>4. QED
  BY <1>2, <1>3 DEF Exit, PassTypeOK

LEMMA PollType ==
    ASSUME PassTypeOK, FilesTypeOK, TypeOK', NEW g \in Agent, Poll(g)
    PROVE  PassTypeOK'
<1>1. \A a \in Delivered(g)' : [id |-> a, status |-> actions'[a].status] \in Item
  BY DEF Delivered, Item, TypeOK
<1>2. {[id |-> a, status |-> actions'[a].status] : a \in Delivered(g)'} \in SUBSET Item
  BY <1>1
<1>3. batch' \in [Agent -> SUBSET Item]
  BY <1>2 DEF Poll, PassTypeOK
<1>4. DOMAIN memory' = Agent /\ \A h \in Agent : IsLedger(memory'[h])
  BY DEF Poll, PassTypeOK, FilesTypeOK
<1>5. fresh' \in [Agent -> SUBSET ActionId] /\ step' \in [Agent -> Step]
  BY DEF Poll, GoTo, PassTypeOK, Step
<1>6. QED
  BY <1>3, <1>4, <1>5 DEF PassTypeOK

LEMMA SaveType ==
    ASSUME SystemTypeOK, SystemAssumption, NEW g \in Agent, SaveLedger(g),
           DOMAIN memory'[g] \subseteq Ids, IsLedger(memory'[g])
    PROVE  DOMAIN disk' = Agent /\ \A h \in Agent : IsLedger(disk'[h])
<1> DEFINE kept == {a \in DOMAIN memory'[g] :
                       Cardinality({b \in DOMAIN memory'[g] : Before(g, a, b)}) < LedgerLimit}
           saved == [a \in kept |-> memory'[g][a]]
<1>1. disk' = [disk EXCEPT ![g] = saved]
  BY DEF SaveLedger
<1>2. \A a \in kept : memory'[g][a] \in Entry /\ a \in ActionId
  BY DEF IsLedger
<1>3. IsLedger(saved)
  BY <1>2 DEF IsLedger
<1>4. QED
  BY <1>1, <1>3 DEF SystemTypeOK

LEMMA BeginType ==
    ASSUME SInv, SystemAssumption, NEW g \in Agent, NEW x \in batch[g], IsFirst(g, x), Begin(g, x)
    PROVE  PassTypeOK' /\ FilesTypeOK'
<1>1. PassTypeOK /\ FilesTypeOK /\ SystemTypeOK /\ TypeOK /\ AgentInv(g)
  BY TypeParts DEF SInv
<1>2. x.id \in Own(g) /\ x.id \in Ids /\ x.id \in ActionId
  BY <1>1 DEF AgentInv, BatchSound, ItemSound, Own, TypeOK
<1>3. fixture' = fixture /\ gone' = gone /\ applied' = applied
  BY DEF Begin
<1>4. CASE Exit(g) /\ UNCHANGED disk
  BY <1>1, <1>3, <1>4, ExitType DEF FilesTypeOK
<1>5. CASE ~Unacceptable(g, x) /\ ~Holds(memory[g], x.id)
  <2> DEFINE e == [status |-> "executing", startedAt |-> now, result |-> {}]
  <2>1. e \in Entry
    BY <1>1 DEF Entry, TypeOK
  <2>2. /\ memory' = [memory EXCEPT ![g] = With(memory[g], x.id, e)]
        /\ fresh' = [fresh EXCEPT ![g] = @ \cup {x.id}]
        /\ step' = [step EXCEPT ![g] = "ack"] /\ batch' = batch /\ SaveLedger(g)
    BY <1>5 DEF Begin, GoTo
  <2>3. IsLedger(With(memory[g], x.id, e))
    BY <1>1, <1>2, <2>1, WithType DEF PassTypeOK
  <2>4. DOMAIN memory' = Agent /\ \A h \in Agent : IsLedger(memory'[h])
    BY <1>1, <2>2, <2>3 DEF PassTypeOK
  <2>5. PassTypeOK'
    BY <1>1, <1>2, <2>2, <2>4 DEF PassTypeOK, Step
  <2>6. DOMAIN memory'[g] \subseteq Ids
    <3>1. DOMAIN memory[g] \subseteq Ids
      BY <1>1 DEF AgentInv, LedgerSound, EntriesSound, Own
    <3>2. QED
      BY <1>1, <1>2, <2>2, <3>1 DEF With, PassTypeOK
  <2>7. FilesTypeOK'
    BY <1>1, <1>3, <2>2, <2>4, <2>6, SaveType DEF FilesTypeOK
  <2>8. QED
    BY <2>5, <2>7
<1>6. CASE Holds(memory[g], x.id)
  <2>1. memory' = memory /\ fresh' = fresh /\ batch' = batch /\ disk' = disk
    BY <1>6 DEF Begin, Unacceptable
  <2>2. step' \in [Agent -> Step]
    BY <1>1, <1>6 DEF Begin, Unacceptable, GoTo, PassTypeOK, Step
  <2>3. QED
    BY <1>1, <1>3, <2>1, <2>2 DEF PassTypeOK, FilesTypeOK
<1>7. QED
  BY <1>4, <1>5, <1>6 DEF Begin

\* The process that a termination names was listed by its own agent.
LEMMA TerminateListed ==
    ASSUME SInv, NEW g \in Agent, NEW x \in batch[g], IsFirst(g, x), step[g] = "execute",
           actions[x.id].type = Terminate
    PROVE  Listed(g, actions[x.id].handle) /\ actions[x.id].handle \in Handle
<1>1. x.id \in Ids /\ actions[x.id].agent = g /\ actions[x.id].status = "executing"
  BY ExecutesOpen DEF Own
<1>2. EvidenceBound(actions[x.id])
  BY <1>1 DEF SInv, IInv, ContainmentIsEvidenceBound, Authorised
<1>3. PICK b \in Ids : /\ actions[b].type = Triage
                       /\ actions[b].status = "succeeded"
                       /\ actions[b].agent = g
                       /\ actions[x.id].handle \in actions[b].result
  BY <1>1, <1>2 DEF EvidenceBound
<1>4. actions[b].result \subseteq Handle
  BY RowFacts DEF SInv, IInv, ActionRow
<1>5. QED
  BY <1>3, <1>4 DEF Listed

LEMMA ExecuteType ==
    ASSUME SInv, SystemAssumption, ConstantsAssumption, NEW g \in Agent, NEW x \in batch[g],
           IsFirst(g, x), Execute(g, x)
    PROVE  PassTypeOK' /\ FilesTypeOK'
<1>1. PassTypeOK /\ FilesTypeOK /\ step[g] = "execute"
  BY TypeParts DEF SInv, Execute
<1>2. x.id \in ActionId
  BY <1>1 DEF PassTypeOK, Item
<1>3. PICK e \in Entry : Ran(g, x, e)
  BY ExecuteRan
<1>4. DOMAIN memory' = Agent
  BY <1>1 DEF Execute, RunDemo, RunTerminate, RunCollect, RunFails, Outcome, PassTypeOK
<1>5. \A h \in Agent : IsLedger(memory'[h])
  <2>1. IsLedger(memory'[g])
    <3>1. memory'[g] = With(memory[g], x.id, e)
      BY <1>3 DEF Ran
    <3>2. IsLedger(With(memory[g], x.id, e))
      BY <1>1, <1>2, WithType DEF PassTypeOK
    <3>3. QED
      BY <3>1, <3>2
  <2>2. QED
    BY <1>1, <1>3, <2>1 DEF Ran, Untouched, PassTypeOK
<1>6. step' \in [Agent -> Step] /\ fresh' = fresh /\ batch' = batch /\ disk' = disk
  BY <1>1 DEF Execute, GoTo, PassTypeOK, Step
<1>7. Apply(x.id) => applied' \in [ActionId -> Nat]
  <2>1. applied \in [ActionId -> Nat] /\ applied[x.id] \in Nat
    BY <1>1, <1>2 DEF FilesTypeOK
  <2>2. \A n \in Nat : [applied EXCEPT ![x.id] = n] \in [ActionId -> Nat]
    BY <2>1
  <2>3. Apply(x.id) => applied' = [applied EXCEPT ![x.id] = applied[x.id] + 1]
    BY DEF Apply
  <2>4. applied[x.id] + 1 \in Nat
    BY <2>1
  <2>5. QED
    BY <2>2, <2>3, <2>4
<1>8. /\ fixture' \in [Agent -> ActionId \cup {NoAction}]
      /\ gone' \in [Agent -> SUBSET Handle]
      /\ applied' \in [ActionId -> Nat]
  <2>1. CASE RunDemo(g, x)
    BY <1>1, <1>2, <1>7, <2>1 DEF RunDemo, FilesTypeOK
  <2>2. CASE RunTerminate(g, x)
    <3>1. actions[x.id].handle \in Handle
      BY <1>1, <2>2, TerminateListed DEF RunTerminate
    <3>2. QED
      BY <1>1, <1>7, <2>2, <3>1 DEF RunTerminate, FilesTypeOK
  <2>3. CASE RunCollect(g, x) \/ RunFails(g, x)
    BY <1>1, <2>3 DEF RunCollect, RunFails, FilesTypeOK
  <2>4. QED
    BY <2>1, <2>2, <2>3 DEF Execute
<1>9. QED
  BY <1>1, <1>4, <1>5, <1>6, <1>8 DEF PassTypeOK, FilesTypeOK

LEMMA PostType ==
    ASSUME SInv, ConstantsAssumption, NEW g \in Agent, NEW x \in batch[g], IsFirst(g, x),
           Acknowledge(g, x) \/ Report(g, x)
    PROVE  PassTypeOK' /\ FilesTypeOK'
<1>1. PassTypeOK /\ FilesTypeOK
  BY TypeParts DEF SInv
<1>2. FilesTypeOK'
  BY <1>1, PostSteps DEF durable, FilesTypeOK
<1>3. CASE Exit(g)
  BY <1>1, <1>2, <1>3, ExitType
<1>4. CASE Acknowledged(g, x)
  BY <1>1, <1>2, <1>4 DEF Acknowledged, GoTo, PassTypeOK, Step
<1>5. CASE Reported(g, x)
  <2>1. batch' \in [Agent -> SUBSET Item]
    BY <1>1, <1>5 DEF Reported, PassTypeOK
  <2>2. step' \in [Agent -> Step]
    BY <1>1, <1>5 DEF Reported, GoTo, PassTypeOK, Step
  <2>3. QED
    BY <1>1, <1>2, <1>5, <2>1, <2>2 DEF Reported, PassTypeOK
<1>6. QED
  BY <1>3, <1>4, <1>5, PostSteps

LEMMA SaveStepType ==
    ASSUME SInv, SystemAssumption, NEW g \in Agent, Save(g)
    PROVE  PassTypeOK' /\ FilesTypeOK'
<1>1. PassTypeOK /\ FilesTypeOK /\ SystemTypeOK /\ AgentInv(g)
  BY TypeParts DEF SInv
<1>2. DOMAIN memory'[g] \subseteq Ids /\ IsLedger(memory'[g])
  BY <1>1 DEF Save, AgentInv, LedgerSound, EntriesSound, Own, PassTypeOK
<1>3. DOMAIN disk' = Agent /\ \A h \in Agent : IsLedger(disk'[h])
  BY <1>1, <1>2, SaveType DEF Save
<1>4. step' \in [Agent -> Step]
  BY <1>1 DEF Save, GoTo, PassTypeOK, Step
<1>5. QED
  BY <1>1, <1>3, <1>4 DEF Save, PassTypeOK, FilesTypeOK

LEMMA FailuresType ==
    ASSUME failures \in Nat, [SystemNext]_systemVars
    PROVE  failures' \in Nat
<1>1. failures' = failures \/ Fail
  <2>1. ASSUME NEW g \in Agent, NEW x \in batch[g], Process(g, x)
        PROVE  failures' = failures \/ Fail
    BY <2>1 DEF Process, Begin, Acknowledge, Execute, Save, Report, Post
  <2>2. ASSUME NEW g \in Agent, Poll(g) \/ PollUnanswered(g) \/ Crash(g)
        PROVE  failures' = failures \/ Fail
    BY <2>2 DEF Poll, PollUnanswered, Crash
  <2>3. CASE ServerNext \/ UNCHANGED systemVars
    BY <2>3 DEF ServerNext, systemVars, endpointVars
  <2>4. QED
    BY <2>1, <2>2, <2>3 DEF SystemNext, Pass
<1>2. QED
  BY <1>1 DEF Fail

LEMMA SystemTypeStep ==
    ASSUME SInv, IInv', SystemAssumption, ConstantsAssumption, [SystemNext]_systemVars
    PROVE  SystemTypeOK'
<1>1. PassTypeOK /\ FilesTypeOK /\ TypeOK' /\ failures' \in Nat
  BY TypeParts, FailuresType DEF SInv, IInv
<1>2. CASE Idle
  BY <1>1, <1>2 DEF Idle, volatile, durable, PassTypeOK, FilesTypeOK, SystemTypeOK
<1>3. ASSUME NEW g \in Agent, Crash(g)
      PROVE  PassTypeOK' /\ FilesTypeOK'
  BY <1>1, <1>3, ExitType DEF Crash, durable, FilesTypeOK
<1>4. ASSUME NEW g \in Agent, Poll(g)
      PROVE  PassTypeOK' /\ FilesTypeOK'
  <2>1. FilesTypeOK'
    BY <1>1, <1>4 DEF Poll, durable, FilesTypeOK
  <2>2. QED
    BY <1>1, <1>4, <2>1, PollType
<1>5. ASSUME NEW g \in Agent, NEW x \in batch[g], Process(g, x)
      PROVE  PassTypeOK' /\ FilesTypeOK'
  BY <1>5, BeginType, PostType, ExecuteType, SaveStepType DEF Process
<1>6. PassTypeOK' /\ FilesTypeOK' => SystemTypeOK'
  BY <1>1 DEF PassTypeOK, FilesTypeOK, SystemTypeOK
<1>7. QED
  BY <1>2, <1>3, <1>4, <1>5, <1>6, StepKinds DEF Pass

-----------------------------------------------------------------------------
(* What has been done to the endpoints *)

\* The current action of an endpoint runs.
Runs(g, x) == x \in batch[g] /\ IsFirst(g, x) /\ Execute(g, x)

LEMMA NothingElseApplies ==
    ASSUME [SystemNext]_systemVars
    PROVE  \/ applied' = applied /\ gone' = gone /\ fixture' = fixture
           \/ \E g \in Agent : \E x \in batch[g] : Runs(g, x)
<1>1. ASSUME NEW g \in Agent, NEW x \in batch[g], Process(g, x), ~Execute(g, x)
      PROVE  applied' = applied /\ gone' = gone /\ fixture' = fixture
  BY <1>1 DEF Process, Begin, Acknowledge, Save, Report, durable
<1>2. ASSUME NEW g \in Agent, Poll(g) \/ Crash(g)
      PROVE  applied' = applied /\ gone' = gone /\ fixture' = fixture
  BY <1>2 DEF Poll, Crash, durable
<1>3. Idle => applied' = applied /\ gone' = gone /\ fixture' = fixture
  BY DEF Idle, durable
<1>4. QED
  BY <1>1, <1>2, <1>3, StepKinds DEF Pass, Runs, Process

\* One action at most is applied in a step, and it was executing.
LEMMA RunsOne ==
    ASSUME SInv, NEW g \in Agent, NEW x, Runs(g, x)
    PROVE  /\ UNCHANGED vars
           /\ x.id \in Own(g) /\ x.id \in Ids /\ actions[x.id].status = "executing"
           /\ \A a \in ActionId : a # x.id => applied'[a] = applied[a]
           /\ applied'[x.id] \in {applied[x.id], applied[x.id] + 1}
<1>1. x \in batch[g] /\ IsFirst(g, x) /\ step[g] = "execute" /\ UNCHANGED vars
  BY DEF Runs, Execute
<1>2. x.id \in Own(g) /\ x.id \in Ids /\ actions[x.id].status = "executing"
  BY <1>1, ExecutesOpen DEF Own
<1>3. x.id \in ActionId /\ applied \in [ActionId -> Nat]
  BY <1>2 DEF SInv, IInv, TypeOK, SystemTypeOK
<1>4. applied' = applied \/ Apply(x.id)
  BY DEF Runs, Execute, RunDemo, RunTerminate, RunCollect, RunFails
<1>5. QED
  BY <1>1, <1>2, <1>3, <1>4 DEF Apply

LEMMA AuthorisedStep ==
    ASSUME SInv, IInv', ConstantsAssumption, [SystemNext]_systemVars
    PROVE  EffectIsAuthorised'
<1> SUFFICES ASSUME NEW a \in ActionId, applied'[a] > 0
             PROVE  a \in Ids' /\ actions'[a].status \in Began
  BY DEF EffectIsAuthorised, Began
<1>1. RowsGrow
  BY StepRefines, RowsStep DEF SInv
<1>2. CASE applied[a] > 0
  <2>1. a \in Ids /\ HasBegun(a)
    BY <1>2 DEF SInv, Effects, EffectIsAuthorised, HasBegun, Began
  <2>2. QED
    BY <1>1, <2>1 DEF RowsGrow
<1>3. CASE ~(applied[a] > 0)
  <2>1. PICK g \in Agent : \E x \in batch[g] : Runs(g, x)
    BY <1>3, NothingElseApplies
  <2>2. PICK x \in batch[g] : Runs(g, x)
    BY <2>1
  <2>3. a = x.id
    BY <1>3, <2>2, RunsOne
  <2>4. QED
    BY <2>2, <2>3, RunsOne DEF vars, Ids, Began
<1>4. QED
  BY <1>2, <1>3

\* Nothing that has been done is undone.
LEMMA EffectsStay ==
    ASSUME SInv, SystemAssumption, ConstantsAssumption, [SystemNext]_systemVars
    PROVE  EffectsGrow
<1>1. applied' = applied => EffectsGrow
  BY DEF EffectsGrow
<1>2. ASSUME NEW g \in Agent, NEW x \in batch[g], Runs(g, x)
      PROVE  EffectsGrow
  BY <1>2, ExecuteRan DEF Runs, Ran
<1>3. QED
  BY <1>1, <1>2, NothingElseApplies

\* A success is only recorded from a ledger that has it.
LEMMA SuccessStep ==
    ASSUME SInv, IInv', SystemAssumption, ConstantsAssumption, [SystemNext]_systemVars
    PROVE  SuccessIsReal'
<1> SUFFICES ASSUME NEW a \in Ids', actions'[a].status = "succeeded",
                    actions'[a].type \in {Demo, Terminate}
             PROVE  applied'[a] > 0
  BY DEF SuccessIsReal
<1>1. IInv /\ RowsGrow
  BY StepRefines, RowsStep DEF SInv
<1>2. a \in Ids /\ a \in ActionId /\ actions'[a].type = actions[a].type
  BY <1>1 DEF RowsGrow, KeepsIdentity, IInv, TypeOK
<1>3. applied[a] > 0 => applied'[a] > 0
  BY <1>2, EffectsStay DEF EffectsGrow
<1>4. CASE RowKept(a)
  BY <1>2, <1>3, <1>4 DEF RowKept, Began, Terminal, SInv, Effects, SuccessIsReal, HasBegun
<1>5. CASE ~RowKept(a)
  <2>1. ~Idle /\ ~UNCHANGED vars
    BY <1>1, <1>2, <1>5, GovernedRows DEF Idle, Governs
  <2>2. PICK g \in Agent : Pass(g) \/ Crash(g)
    BY <2>1, StepKinds
  <2>3. ~Poll(g) /\ ~Crash(g)
    BY <1>1, <1>2, <1>5, <2>1, GovernedRows DEF Poll, Governs, Crash
  <2>4. PICK x \in batch[g] : Process(g, x)
    BY <2>2, <2>3 DEF Pass
  <2>5. IsFirst(g, x) /\ (Acknowledge(g, x) \/ Report(g, x))
    BY <2>1, <2>4 DEF Process, Begin, Execute, Save
  <2>6. Posted(g, x) /\ step[g] \in {"ack", "report"}
    BY <2>1, <2>5, PostSteps
  <2>7. a = x.id
    BY <1>2, <1>5, <2>6 DEF Posted, RowKept, HasBegun
  <2>8. EntrySound(memory[g][a], a) /\ memory[g][a].status = "succeeded"
    BY <2>5, <2>6, <2>7, PostedHeld DEF Posted, Matches, Terminal
  <2>9. QED
    BY <1>2, <1>3, <2>8 DEF EntrySound
<1>6. QED
  BY <1>4, <1>5

LEMMA GoneStep ==
    ASSUME SInv, ConstantsAssumption, [SystemNext]_systemVars
    PROVE  GoneSound'
<1> SUFFICES ASSUME NEW g \in Agent, NEW h \in gone'[g]
             PROVE  Listed(g, h)'
  BY DEF GoneSound
<1>1. Listed(g, h) => Listed(g, h)'
  <2>1. RowsGrow
    BY StepRefines, RowsStep DEF SInv
  <2>2. QED
    BY <2>1 DEF RowsGrow, Listed, Terminal
<1>2. CASE h \in gone[g]
  BY <1>1, <1>2 DEF SInv, Effects, GoneSound
<1>3. CASE h \notin gone[g]
  <2>1. PICK k \in Agent : \E x \in batch[k] : Runs(k, x)
    BY <1>3, NothingElseApplies
  <2>2. PICK x \in batch[k] : Runs(k, x)
    BY <2>1
  <2>3. RunTerminate(k, x) /\ IsFirst(k, x) /\ step[k] = "execute"
    BY <1>3, <2>2 DEF Runs, Execute, RunDemo, RunCollect, RunFails
  <2>4. g = k /\ h = actions[x.id].handle
    BY <1>3, <2>3 DEF RunTerminate, SInv, SystemTypeOK
  <2>5. Listed(g, h)
    BY <2>3, <2>4, TerminateListed DEF RunTerminate
  <2>6. QED
    BY <1>1, <2>5
<1>4. QED
  BY <1>2, <1>3

LEMMA KillsStep ==
    ASSUME SInv, SystemAssumption, ConstantsAssumption, [SystemNext]_systemVars
    PROVE  KillsSound'
<1>1. RowsGrow /\ KillsSound /\ EffectIsAuthorised
  BY StepRefines, RowsStep DEF SInv, Effects
<1>2. ASSUME applied' = applied, gone' = gone
      PROVE  KillsSound'
  <2>1. ASSUME NEW a \in ActionId, Kills(a)'
        PROVE  /\ Kills(a)
               /\ actions'[a].agent = actions[a].agent /\ actions'[a].handle = actions[a].handle
    BY <1>1, <1>2, <2>1 DEF Kills, EffectIsAuthorised, RowsGrow, KeepsIdentity
  <2>2. QED
    BY <1>1, <1>2, <2>1 DEF KillsSound
<1>3. ASSUME NEW g \in Agent, NEW x \in batch[g], Runs(g, x)
      PROVE  KillsSound'
  <2>1. /\ UNCHANGED vars /\ x.id \in Ids /\ x.id \in ActionId /\ actions[x.id].agent = g
        /\ \A a \in ActionId : a # x.id => applied'[a] = applied[a]
        /\ applied[x.id] \in Nat
    <3>1. /\ UNCHANGED vars /\ x.id \in Ids /\ x.id \in Own(g)
          /\ \A a \in ActionId : a # x.id => applied'[a] = applied[a]
      BY <1>3, RunsOne
    <3>2. Ids \subseteq ActionId /\ applied \in [ActionId -> Nat]
      BY DEF SInv, IInv, TypeOK, SystemTypeOK
    <3>3. QED
      BY <3>1, <3>2 DEF Own
  <2>2. CASE RunTerminate(g, x)
    <3> DEFINE h == actions[x.id].handle
    <3>1. /\ actions[x.id].type = Terminate /\ h \notin gone[g]
          /\ gone' = [gone EXCEPT ![g] = @ \cup {h}]
          /\ applied' = [applied EXCEPT ![x.id] = @ + 1]
      BY <2>2 DEF RunTerminate, Apply
    <3>2. gone'[g] = gone[g] \cup {h} /\ \A k \in Agent : gone[k] \subseteq gone'[k]
      BY <3>1 DEF SInv, SystemTypeOK
    <3>3. \A a \in ActionId : Kills(a) => actions[a].agent # g \/ actions[a].handle # h
      BY <1>1, <3>1 DEF KillsSound
    <3>4. ~Kills(x.id)
      BY <2>1, <3>3
    <3>5. applied[x.id] = 0
      BY <2>1, <3>1, <3>4 DEF Kills
    <3>6. applied'[x.id] = 1
      BY <2>1, <3>1, <3>5 DEF SInv, SystemTypeOK
    <3>7. \A a \in ActionId : Kills(a)' <=> a = x.id \/ Kills(a)
      BY <2>1, <3>1, <3>4, <3>6 DEF Kills, vars, Ids
    <3>8. \A a \in ActionId : Kills(a)' =>
             applied'[a] = 1 /\ actions'[a].handle \in gone'[actions'[a].agent]
      <4>1. ASSUME NEW a \in ActionId, Kills(a)
            PROVE  applied'[a] = 1 /\ actions[a].handle \in gone'[actions[a].agent]
        <5>1. a \in Ids /\ a # x.id /\ actions[a].agent \in Agent
          BY <3>4, <4>1, RowFacts DEF Kills, SInv, IInv, ActionRow
        <5>2. QED
          BY <1>1, <2>1, <3>2, <4>1, <5>1 DEF KillsSound
      <4>2. QED
        BY <2>1, <3>2, <3>6, <3>7, <4>1 DEF vars
    <3>9. \A a, b \in ActionId :
             /\ Kills(a)' /\ Kills(b)'
             /\ actions'[a].agent = actions'[b].agent
             /\ actions'[a].handle = actions'[b].handle
             => a = b
      BY <1>1, <2>1, <3>3, <3>7 DEF KillsSound, vars
    <3>10. QED
      BY <3>8, <3>9 DEF KillsSound
  <2>3. CASE ~RunTerminate(g, x)
    <3>1. gone' = gone /\ (applied' = applied \/ actions[x.id].type = Demo)
      BY <1>3, <2>3 DEF Runs, Execute, RunDemo, RunCollect, RunFails
    <3>2. \A a \in ActionId : Kills(a)' <=> Kills(a)
      BY <2>1, <3>1 DEF Kills, vars, Ids, SystemAssumption
    <3>3. \A a \in ActionId : Kills(a) => applied'[a] = applied[a]
      BY <2>1, <3>1 DEF Kills, SystemAssumption
    <3>4. QED
      BY <1>1, <2>1, <3>1, <3>2, <3>3 DEF KillsSound, vars
  <2>4. QED
    BY <2>2, <2>3
<1>4. QED
  BY <1>2, <1>3, NothingElseApplies

-----------------------------------------------------------------------------
(* The invariant *)

LEMMA SystemInductive ==
    SInv /\ SystemAssumption /\ ConstantsAssumption /\ [SystemNext]_systemVars => SInv'
<1> SUFFICES ASSUME SInv, SystemAssumption, ConstantsAssumption, [SystemNext]_systemVars
             PROVE  SInv'
  OBVIOUS
<1>1. [Next]_vars
  BY StepRefines
<1>2. IInv'
  BY <1>1, Inductive DEF SInv
<1>3. SystemTypeOK'
  BY <1>2, SystemTypeStep
<1>4. Numbered' /\ ClockBound'
  BY <1>1, NumberedStep, ClockStep DEF SInv
<1>5. \A g \in Agent : AgentInv(g)'
  BY <1>2, AgentsStep
<1>6. Effects'
  BY <1>2, AuthorisedStep, SuccessStep, GoneStep, KillsStep DEF Effects
<1>7. QED
  BY <1>2, <1>3, <1>4, <1>5, <1>6 DEF SInv

LEMMA InitSInv == SystemAssumption /\ ConstantsAssumption /\ SystemInit => SInv
<1> SUFFICES ASSUME SystemAssumption, ConstantsAssumption, SystemInit
             PROVE  SInv
  OBVIOUS
<1>1. IInv /\ Ids = {} /\ now = 1
  BY InitIInv DEF SystemInit, Init, Ids
<1>2. DOMAIN EmptyLedger = {} /\ IsLedger(EmptyLedger)
  BY DEF EmptyLedger, IsLedger
<1>3. SystemTypeOK
  BY <1>1, <1>2 DEF SystemInit, SystemTypeOK, IInv, Step
<1>4. Numbered /\ ClockBound
  BY <1>1 DEF Numbered, ClockBound, ConstantsAssumption
<1>5. ASSUME NEW g \in Agent PROVE AgentInv(g)
  <2>1. /\ disk[g] = EmptyLedger /\ memory[g] = EmptyLedger
        /\ batch[g] = {} /\ step[g] = "idle" /\ fixture[g] = NoAction
    BY DEF SystemInit
  <2>2. Own(g) = {}
    BY <1>1 DEF Own
  <2>3. QED
    BY <1>2, <2>1, <2>2 DEF AgentInv, LedgerSound, EntriesSound, BatchSound, PassSound,
                            FilesAgree, Retained, Remembers, FixtureSound
<1>6. Effects
  BY <1>1 DEF SystemInit, Effects, EffectIsAuthorised, SuccessIsReal, GoneSound, KillsSound, Kills
<1>7. QED
  BY <1>1, <1>3, <1>4, <1>5, <1>6 DEF SInv

LEMMA SystemInvariant == SystemSpec => []SInv
<1>1. SystemInit => SInv
  BY SystemAssumption, ConstantsAssumption, InitSInv
<1>2. SInv /\ [SystemNext]_systemVars => SInv'
  BY SystemAssumption, ConstantsAssumption, SystemInductive
<1>3. QED
  BY <1>1, <1>2, PTL DEF SystemSpec

-----------------------------------------------------------------------------
(* The theorems: any number of endpoints, any crash, any lost message *)

\* The tables of the server, the files of the endpoints and what each pass has
\* in memory keep their types.
THEOREM SystemTypeCorrect == SystemSpec => []SystemTypeOK
<1>1. SInv => SystemTypeOK
  BY DEF SInv
<1>2. QED
  BY <1>1, SystemInvariant, PTL

\* Endpoints that run scripts/response_agent.py, crash and lose replies are
\* endpoints as the server's own model assumes them: what they post are reports
\* it expects, so every theorem of ActionLifecycleProofs holds of the composition.
THEOREM SystemImplementsServer == SystemSpec => Spec
<1>1. SystemInit => Init
  BY DEF SystemInit
<1>2. SInv /\ [SystemNext]_systemVars => [Next]_vars
  BY ConstantsAssumption, StepRefines
<1>3. QED
  BY <1>1, <1>2, SystemInvariant, PTL DEF SystemSpec, Spec

\* No endpoint changes anything for an action that the server could still
\* cancel: execute_action runs after the acknowledgement was taken, or for an
\* action that was delivered as executing.
THEOREM EffectsAreAuthorised == SystemSpec => []EffectIsAuthorised
<1>1. SInv => EffectIsAuthorised
  BY DEF SInv, Effects
<1>2. QED
  BY <1>1, SystemInvariant, PTL

\* A success that the console shows has happened on the endpoint, whichever
\* report of whichever retry brought it.
THEOREM SuccessesAreReal == SystemSpec => []SuccessIsReal
<1>1. SInv => SuccessIsReal
  BY DEF SInv, Effects
<1>2. QED
  BY <1>1, SystemInvariant, PTL

\* The start and the outcome that the server records are those of the
\* endpoint's ledger file, at all times and not only when a report arrives.
THEOREM ReportsAreRecorded == SystemSpec => []ReportIsRecorded
<1>1. SInv => ReportIsRecorded
  BY DEF SInv, AgentInv, LedgerSound, EntriesSound, EntrySound, Matches, ReportIsRecorded
<1>2. QED
  BY <1>1, SystemInvariant, PTL

\* A finished action of an endpoint does not run.
LEMMA FinishedIsIdle ==
    ASSUME SInv, NEW g \in Agent, NEW a \in DOMAIN disk[g], Finished(disk[g], a),
           NEW k \in Agent, NEW x \in batch[k], Runs(k, x)
    PROVE  a # x.id
<1> SUFFICES ASSUME a = x.id PROVE FALSE
  OBVIOUS
<1>1. AgentInv(g) /\ AgentInv(k)
  BY DEF SInv
<1>2. x.id \in Own(k) /\ a \in Own(g)
  BY <1>1, RunsOne DEF AgentInv, LedgerSound, EntriesSound
<1>3. k = g /\ step[g] = "execute" /\ IsFirst(g, x) /\ x \in batch[g]
  BY <1>2 DEF Own, Runs, Execute
<1>4. disk[g][a] = memory[g][a]
  BY <1>1, <1>3 DEF AgentInv, FilesAgree, Unsaved
<1>5. memory[g][x.id].status = "executing"
  BY <1>1, <1>3 DEF AgentInv, PassSound, CurrentSound
<1>6. QED
  BY <1>4, <1>5 DEF Finished, Terminal

\* Nor is its entry written again, but for dropping it from a full ledger.
LEMMA FinishedIsKept ==
    ASSUME SInv, SystemAssumption, ConstantsAssumption, NEW g \in Agent,
           NEW a \in DOMAIN disk[g], Finished(disk[g], a), Holds(disk'[g], a),
           NEW x \in batch[g], Process(g, x)
    PROVE  disk'[g][a] = disk[g][a]
<1>1. AgentInv(g) /\ SystemTypeOK /\ IInv /\ TypeOK
  BY DEF SInv, IInv
<1>2. \A b \in DOMAIN memory[g] : b \in Ids
  BY <1>1 DEF AgentInv, LedgerSound, EntriesSound, Own
<1>3. ASSUME SaveLedger(g), DOMAIN memory'[g] \subseteq Ids
      PROVE  disk'[g][a] = memory'[g][a]
  BY <1>1, <1>3, SaveFacts DEF Holds
<1>4. step[g] # "idle" => a \in DOMAIN memory[g] /\ disk[g][a] = memory[g][a]
  BY <1>1 DEF AgentInv, FilesAgree, Unsaved, Finished, Terminal, Holds
<1>5. CASE Begin(g, x) /\ disk' # disk
  <2>1. /\ step[g] = "begin" /\ ~Holds(memory[g], x.id) /\ SaveLedger(g)
        /\ \E e : memory' = [memory EXCEPT ![g] = With(@, x.id, e)]
    BY <1>5 DEF Begin
  <2>2. PICK e : memory'[g] = With(memory[g], x.id, e)
    BY <1>1, <2>1 DEF SystemTypeOK
  <2>3. /\ DOMAIN memory'[g] = DOMAIN memory[g] \cup {x.id}
        /\ \A b \in DOMAIN memory[g] : b # x.id => memory'[g][b] = memory[g][b]
    BY <2>2 DEF With
  <2>4. x.id \in Ids
    BY <1>1 DEF AgentInv, BatchSound, ItemSound, Own
  <2>5. QED
    BY <1>2, <1>3, <1>4, <2>1, <2>3, <2>4 DEF Holds
<1>6. CASE Save(g)
  BY <1>2, <1>3, <1>4, <1>6 DEF Save
<1>7. CASE disk' = disk
  BY <1>7
<1>8. QED
  BY <1>5, <1>6, <1>7 DEF Process, Acknowledge, Execute, Report, durable

\* An outcome in the ledger file is final: a repeated delivery replays it.
THEOREM RecordsAreReplayed == SystemSpec => RecordedIsNotRerun
<1>1. ASSUME SInv, SystemAssumption, ConstantsAssumption, [SystemNext]_systemVars,
             NEW g \in Agent, NEW a \in DOMAIN disk[g], Finished(disk[g], a)
      PROVE  applied'[a] = applied[a] /\ (Holds(disk'[g], a) => disk'[g][a] = disk[g][a])
  <2>1. AgentInv(g) /\ a \in ActionId
    BY <1>1 DEF SInv, SystemTypeOK, IsLedger
  <2>2. ASSUME NEW k \in Agent, NEW x \in batch[k], Runs(k, x)
        PROVE  applied'[a] = applied[a]
    BY <1>1, <2>1, <2>2, FinishedIsIdle, RunsOne
  <2>3. applied'[a] = applied[a]
    BY <1>1, <2>2, NothingElseApplies
  <2>4. ASSUME Pass(g), Holds(disk'[g], a)
        PROVE  disk'[g][a] = disk[g][a]
    BY <1>1, <2>4, FinishedIsKept DEF Pass, Poll, durable
  <2>5. ASSUME NEW k \in Agent, Pass(k) \/ Crash(k), k # g
        PROVE  disk'[g] = disk[g]
    BY <1>1, <2>5, Elsewhere DEF Untouched
  <2>6. QED
    BY <1>1, <2>3, <2>4, <2>5, StepKinds DEF Idle, Crash, durable
<1>2. SInv /\ [SystemNext]_systemVars =>
          [\A g \in Agent : \A a \in DOMAIN disk[g] : NotRerun(g, a)]_systemVars
  BY <1>1, SystemAssumption, ConstantsAssumption DEF NotRerun
<1>3. QED
  BY <1>2, SystemInvariant, PTL DEF SystemSpec, RecordedIsNotRerun

-----------------------------------------------------------------------------
(* What the ledger's limit bounds: 4096 entries in the code.  Past it the file
   drops outcomes that the server may still ask for, and the run
   SysFullLedger shows both properties fail. *)

\* No endpoint has been given more actions than its ledger keeps.
LedgersHold == \A g \in Agent : LedgerHolds(g)

\* As long as the ledgers hold, what has changed an endpoint is on its disk:
\* _save_ledger precedes the first report, and nothing is forgotten.
THEOREM IntentsAreDurable == SystemSpec => [](LedgersHold => IntentIsDurable)
<1>1. ASSUME SInv, LedgersHold, NEW a \in Ids, applied[a] > 0
      PROVE  Holds(disk[actions[a].agent], a)
  <2>1. actions[a].agent \in Agent
    BY <1>1, RowFacts DEF SInv, IInv, ActionRow
  <2>2. a \in ActionId
    BY <1>1 DEF SInv, IInv, TypeOK
  <2>3. HasBegun(a)
    BY <1>1, <2>2 DEF SInv, Effects, EffectIsAuthorised, HasBegun, Began
  <2>4. Remembers(actions[a].agent)
    BY <1>1, <2>1 DEF SInv, AgentInv, Retained
  <2>5. QED
    BY <1>1, <2>1, <2>3, <2>4 DEF LedgersHold, Remembers, Own
<1>2. SInv => (LedgersHold => IntentIsDurable)
  BY <1>1 DEF IntentIsDurable
<1>3. QED
  BY <1>2, SystemInvariant, PTL

\* And the triage that a termination rests on is still in the endpoint's own
\* ledger, with the process among its observations.
THEOREM TerminationsWereObserved == SystemSpec => [](LedgersHold => TerminatedWasObserved)
<1>1. ASSUME SInv, LedgersHold, NEW g \in Agent, NEW h \in gone[g]
      PROVE  \E b \in Ids : /\ actions[b].agent = g
                            /\ actions[b].type = Triage
                            /\ Finished(disk[g], b)
                            /\ h \in disk[g][b].result
  <2>1. PICK b \in Ids : /\ actions[b].agent = g
                         /\ actions[b].type = Triage
                         /\ actions[b].status = "succeeded"
                         /\ h \in actions[b].result
    BY <1>1 DEF SInv, Effects, GoneSound, Listed
  <2>2. AgentInv(g) /\ b \in Own(g) /\ HasBegun(b)
    BY <1>1, <2>1 DEF SInv, Own, HasBegun, Began, Terminal
  <2>3. Holds(disk[g], b)
    BY <1>1, <2>2 DEF AgentInv, Retained, Remembers, LedgersHold
  <2>4. Matches(disk[g][b], actions[b])
    BY <2>2, <2>3 DEF AgentInv, LedgerSound, EntriesSound, EntrySound, Holds
  <2>5. QED
    BY <2>1, <2>3, <2>4 DEF Matches, Finished, Terminal
<1>2. SInv => (LedgersHold => TerminatedWasObserved)
  BY <1>1 DEF TerminatedWasObserved
<1>3. QED
  BY <1>2, SystemInvariant, PTL

\* Whatever the ledgers keep, a process is only terminated when a triage of its
\* own endpoint has listed it, by one action, once.
THEOREM TerminationsAreSingle == SystemSpec => [](GoneSound /\ KillsSound)
<1>1. SInv => GoneSound /\ KillsSound
  BY DEF SInv, Effects
<1>2. QED
  BY <1>1, SystemInvariant, PTL

-----------------------------------------------------------------------------
(* Applied at most once.  The demo fixture only remembers the last action that
   restarted it, so two executing restarts of one endpoint can alternate (run
   SysTwoIncidents); one at a time cannot. *)

IsDemo(a) == a \in Ids /\ actions[a].type = Demo

\* No endpoint executes two restarts of its demo service at a time.
DemosAlone ==
    \A a, b \in ActionId :
        /\ IsDemo(a) /\ actions[a].status = "executing"
        /\ IsDemo(b) /\ actions[b].status = "executing"
        /\ actions[a].agent = actions[b].agent
        => a = b

\* A restart is counted once, and the fixture remembers it until it is reported.
DemoSound ==
    \A a \in ActionId : applied[a] > 0 =>
        /\ IsDemo(a) \/ Kills(a)
        /\ IsDemo(a) =>
              /\ applied[a] = 1
              /\ actions[a].status = "executing" => fixture[actions[a].agent] = a

LEMMA DemoStep ==
    ASSUME SInv, SystemAssumption, ConstantsAssumption, [SystemNext]_systemVars,
           DemosAlone, DemoSound
    PROVE  DemoSound'
<1> SUFFICES ASSUME NEW a \in ActionId, applied'[a] > 0
             PROVE  /\ IsDemo(a)' \/ Kills(a)'
                    /\ IsDemo(a)' =>
                          /\ applied'[a] = 1
                          /\ actions'[a].status = "executing" => fixture'[actions'[a].agent] = a
  BY DEF DemoSound
<1>1. RowsGrow /\ EffectIsAuthorised /\ applied \in [ActionId -> Nat]
  BY StepRefines, RowsStep DEF SInv, Effects, SystemTypeOK
<1>2. CASE applied' = applied /\ fixture' = fixture
  <2>1. /\ a \in Ids /\ a \in Ids' /\ KeepsIdentity(a)
        /\ actions'[a].status = "executing" => actions[a].status = "executing"
    BY <1>1, <1>2 DEF EffectIsAuthorised, RowsGrow, Terminal
  <2>2. QED
    BY <1>2, <2>1 DEF DemoSound, IsDemo, Kills, KeepsIdentity
<1>3. ASSUME NEW g \in Agent, NEW x \in batch[g], Runs(g, x)
      PROVE  /\ IsDemo(a)' \/ Kills(a)'
             /\ IsDemo(a)' =>
                   /\ applied'[a] = 1
                   /\ actions'[a].status = "executing" => fixture'[actions'[a].agent] = a
  <2>1. /\ actions' = actions /\ Ids' = Ids
        /\ x.id \in Ids /\ actions[x.id].agent = g /\ actions[x.id].status = "executing"
        /\ a # x.id => applied'[a] = applied[a]
    BY <1>3, RunsOne DEF vars, Own, Ids
  <2>2. x.id \in ActionId /\ fixture \in [Agent -> ActionId \cup {NoAction}]
    BY <2>1 DEF SInv, IInv, TypeOK, SystemTypeOK
  <2>3. CASE a = x.id
    <3>1. CASE RunDemo(g, x)
      <4>1. IsDemo(a) /\ fixture'[g] = a
        BY <2>1, <2>2, <2>3, <3>1 DEF RunDemo, IsDemo
      <4>2. applied[a] > 0 => applied[a] = 1 /\ fixture[g] = a
        BY <2>1, <2>3, <4>1 DEF DemoSound
      <4>3. applied'[a] = IF fixture[g] = a THEN applied[a] ELSE applied[a] + 1
        BY <1>1, <2>3, <3>1 DEF RunDemo, Apply
      <4>4. applied[a] \in Nat
        BY <1>1
      <4>5. applied'[a] = 1
        BY <4>2, <4>3, <4>4
      <4>6. QED
        BY <2>1, <2>3, <4>1, <4>5 DEF IsDemo
    <3>2. CASE RunTerminate(g, x)
      BY <2>1, <2>3, <3>2 DEF RunTerminate, Kills, IsDemo, SystemAssumption
    <3>3. CASE RunCollect(g, x) \/ RunFails(g, x)
      <4>1. applied' = applied /\ fixture' = fixture
        BY <3>3 DEF RunCollect, RunFails
      <4>2. QED
        BY <1>2, <4>1
    <3>4. QED
      BY <1>3, <3>1, <3>2, <3>3 DEF Runs, Execute
  <2>4. CASE a # x.id
    <3>1. applied[a] > 0
      BY <2>1, <2>4
    <3>2. IsDemo(a) /\ actions[a].status = "executing" =>
              fixture[actions[a].agent] = a /\ actions[a].agent \in Agent
      BY <3>1, RowFacts DEF DemoSound, IsDemo, SInv, IInv, ActionRow
    <3>3. CASE RunDemo(g, x)
      <4>1. IsDemo(a) /\ actions[a].status = "executing" => actions[a].agent # g
        BY <2>1, <2>2, <2>4, <3>3 DEF RunDemo, DemosAlone, IsDemo
      <4>2. \A k \in Agent : k # g => fixture'[k] = fixture[k]
        BY <2>2, <3>3 DEF RunDemo
      <4>3. QED
        BY <2>1, <2>4, <3>1, <3>2, <4>1, <4>2 DEF DemoSound, IsDemo, Kills
    <3>4. CASE ~RunDemo(g, x)
      <4>1. fixture' = fixture
        BY <1>3, <3>4 DEF Runs, Execute, RunTerminate, RunCollect, RunFails
      <4>2. QED
        BY <2>1, <2>4, <3>1, <4>1 DEF DemoSound, IsDemo, Kills
    <3>5. QED
      BY <3>3, <3>4
  <2>5. QED
    BY <2>3, <2>4
<1>4. QED
  BY <1>2, <1>3, NothingElseApplies

LEMMA DemoOnce == SInv /\ DemoSound => AppliedAtMostOnce
<1> SUFFICES ASSUME SInv, DemoSound, NEW a \in ActionId, ~(applied[a] <= 1)
             PROVE  FALSE
  BY DEF AppliedAtMostOnce
<1>1. applied[a] \in Nat
  BY DEF SInv, SystemTypeOK
<1>2. applied[a] > 0 /\ applied[a] # 1
  BY <1>1
<1>3. Kills(a)
  BY <1>2 DEF DemoSound
<1>4. QED
  BY <1>2, <1>3 DEF SInv, Effects, KillsSound

\* As long as an endpoint executes one restart at a time, no crash, lost reply
\* or repeated delivery applies an action twice.
THEOREM AppliedOnce == SystemSpec /\ []DemosAlone => []AppliedAtMostOnce
<1>1. SystemInit => DemoSound
  BY DEF SystemInit, DemoSound
<1>2. SInv /\ DemosAlone /\ DemoSound /\ [SystemNext]_systemVars => DemoSound'
  BY SystemAssumption, ConstantsAssumption, DemoStep
<1>3. QED
  BY <1>1, <1>2, DemoOnce, SystemInvariant, PTL DEF SystemSpec

\* An action's agent is on the host of its incident.
AtHome == \A a \in Ids : HostOf[actions[a].agent] = IncidentHost[actions[a].incident]

LEMMA AtHomeAlways == SystemSpec => []AtHome
<1>1. SystemInit => AtHome
  BY DEF SystemInit, Init, AtHome, Ids
<1>2. ASSUME SInv, AtHome, [SystemNext]_systemVars
      PROVE  AtHome'
  <2>1. [Next]_vars /\ IInv
    BY <1>2, ConstantsAssumption, StepRefines DEF SInv
  <2>2. \A a \in Ids : HostOf[actions'[a].agent] = IncidentHost[actions'[a].incident]
    BY <1>2, <2>1, ConstantsAssumption, RowsStep DEF RowsGrow, KeepsIdentity, AtHome
  <2>3. \A a \in Ids' \ Ids : HostOf[actions'[a].agent] = IncidentHost[actions'[a].incident]
    BY <2>1, ConstantsAssumption, StepMoves DEF Adds, IsNew
  <2>4. QED
    BY <2>2, <2>3 DEF AtHome
<1>3. QED
  BY <1>1, <1>2, SystemInvariant, PTL DEF SystemSpec

\* No two incidents are about one host: correlate_event opens a second one for
\* an event that it cannot relate to those of the first.
IncidentsApart ==
    \A i, j \in Incident : IncidentHost[i] = IncidentHost[j] => i = j

\* Where each host has one incident, create_action itself keeps restarts alone,
\* and nothing is applied twice.
THEOREM AppliedOnceApart ==
    ASSUME IncidentsApart
    PROVE  SystemSpec => []AppliedAtMostOnce
<1>1. SInv /\ AtHome => DemosAlone
  <2> SUFFICES ASSUME SInv, AtHome, NEW a \in Ids, NEW b \in Ids,
                      actions[a].type = Demo, actions[a].status = "executing",
                      actions[b].type = Demo, actions[b].status = "executing",
                      actions[a].agent = actions[b].agent
               PROVE  a = b
    BY DEF DemosAlone, IsDemo
  <2>1. actions[a].incident \in Incident /\ actions[b].incident \in Incident
    BY RowFacts DEF SInv, IInv, ActionRow
  <2>2. actions[a].incident = actions[b].incident
    BY <2>1 DEF AtHome, IncidentsApart
  <2>3. QED
    BY <2>2 DEF SInv, IInv, OneActivePerTarget, Active
<1>2. SystemSpec => []DemosAlone
  BY <1>1, AtHomeAlways, SystemInvariant, PTL
<1>3. QED
  BY <1>2, AppliedOnce, PTL
=============================================================================
