------------------------- MODULE EvidenceStoreProofs -------------------------
(***************************************************************************)
(* Proofs about EvidenceStore: only what was evidenced is terminated, what *)
(* is reported as terminated has exited, and how handles leave the store.  *)
(*                                                                         *)
(* The argument follows one handle.  Its entry points back to a process    *)
(* recorded under it (Backed); when a descriptor is opened, a process      *)
(* recorded under the handle is either the one the descriptor holds or     *)
(* gone for good (Held); and since two processes of one number differ in   *)
(* their start times (Apart), the identity read afterwards, by whichever   *)
(* way, can only be that of the process the descriptor holds.              *)
(***************************************************************************)
EXTENDS EvidenceStore, FiniteSetTheorems, TLAPS

Born(p) == proc[p].life # "unborn"

\* One number has one process at a time, and all present are of this boot.
Alone ==
    /\ \A p, q \in Process : Present(p) /\ Present(q) /\ proc[p].pid = proc[q].pid => p = q
    /\ \A p \in Process : Present(p) => proc[p].boot = boot

Apart ==
    \A p, q \in Process : Born(p) /\ Born(q) /\ Told(proc[p], proc[q]) => p = q

Witnessed ==
    \A b \in recorded :
        /\ Born(b.process)
        /\ proc[b.process].pid = b.handle.pid
        /\ proc[b.process].start = b.handle.start

OfBoot(b, n) == platform = "linux" => proc[b.process].boot = n
Backs(h, n) == \E b \in recorded : b.handle = h /\ OfBoot(b, n)
Backed == \A e \in store : Backs(e.handle, e.boot)

Resolved == stage \in {"resolved", "opened", "identified", "active", "signalled"}
Pinned == stage \in {"identified", "active", "signalled"}

GoalStands ==
    Resolved => goal \in Handle /\ Unprotected(goal) /\ Backs(goal, boot)

Held ==
    stage = "opened" =>
        /\ target \in Process
        /\ Born(target)
        /\ proc[target].pid = goal.pid
        /\ \A b \in recorded :
              b.handle = goal => b.process = target \/ proc[b.process].life = "gone"

TargetStands ==
    /\ Pinned => target \in Process /\ Bound(goal, target) \in recorded
    /\ stage = "signalled" => Bound(goal, target) \in signalled

Started == \A p \in Process : Born(p) => proc[p].start \in Marker

HostInv == Alone /\ Apart /\ Started
LinkInv == Witnessed /\ Backed /\ GoalStands /\ Held /\ TargetStands
ResultInv == OnlyEvidencedIsTerminated /\ SuccessIsExit
StoreInv == IsFiniteSet(store) /\ StoreIsEarned
IInv == TypeOK /\ HostInv /\ LinkInv /\ ResultInv /\ StoreInv

\* What every step leaves true of a process: its number, start and boot stay, and
\* it does not come back.
Onward ==
    \A p \in Process :
        /\ Born(p) => /\ Born(p)'
                      /\ proc'[p].pid = proc[p].pid
                      /\ proc'[p].start = proc[p].start
                      /\ proc'[p].boot = proc[p].boot
        /\ Exited(p) => Exited(p)'
        /\ proc[p].life = "gone" => proc'[p].life = "gone"

-----------------------------------------------------------------------------
(* The host. *)

\* A process starts under a number nobody holds, with a start time that was not
\* this number's before.
LEMMA BeginKeeps ==
    ASSUME TypeOK, HostInv, NEW p \in Process, NEW i \in Instance, i.start \in Marker,
           Begin(p, i)
    PROVE  proc' \in [Process -> Instance] /\ HostInv' /\ Onward
<1> USE DEF TypeOK, Begin
<1>1. proc' \in [Process -> Instance]
  OBVIOUS
<1>2. Onward
  BY DEF Onward, Born, Exited, Instance
<1>3. \A q \in Process : q # p => proc'[q] = proc[q]
  OBVIOUS
<1>4. proc'[p] = i /\ i.life = "running" /\ i.boot = boot
  OBVIOUS
<1>5. \A q \in Process : Present(q) => proc[q].pid # i.pid
  BY DEF OccupantOf
<1>6. ~Present(p) /\ ~Born(p)
  BY DEF Present, Born
<1>7. Alone'
  <2>1. ASSUME NEW q \in Process, NEW r \in Process, Present(q)', Present(r)',
               proc'[q].pid = proc'[r].pid
        PROVE  q = r
    BY <2>1, <1>3, <1>4, <1>5 DEF HostInv, Alone, Present
  <2>2. ASSUME NEW q \in Process, Present(q)'
        PROVE  proc'[q].boot = boot'
    BY <2>2, <1>3, <1>4 DEF HostInv, Alone, Present
  <2> QED BY <2>1, <2>2 DEF Alone
<1>8. Apart'
  <2> SUFFICES ASSUME NEW q \in Process, NEW r \in Process,
                      Born(q)', Born(r)', Told(proc[q], proc[r])'
               PROVE  q = r
    BY DEF Apart
  <2>1. CASE q # p /\ r # p
    BY <2>1, <1>3 DEF HostInv, Apart, Born, Told
  <2>2. CASE q = p /\ r # p
    BY <2>2, <1>3, <1>4 DEF Born, Told
  <2>3. CASE q # p /\ r = p
    BY <2>3, <1>3, <1>4 DEF Born, Told
  <2> QED BY <2>1, <2>2, <2>3
<1>9. Started'
  BY <1>3, <1>4 DEF HostInv, Started, Born
<1> QED BY <1>1, <1>2, <1>7, <1>8, <1>9 DEF HostInv

\* A process that goes on under the same number, start and boot, and does not come
\* back, leaves the processes apart.
LEMMA ChangeKeeps ==
    ASSUME TypeOK, HostInv, proc' \in [Process -> Instance],
           UNCHANGED <<platform, boot>>, Onward,
           \A p \in Process : Born(p)' => Born(p),
           \A p \in Process : Present(p)' => Present(p)
    PROVE  HostInv'
<1>1. Alone'
  <2>1. \A p \in Process : Present(p) => Born(p)
    BY DEF Present, Born
  <2>2. ASSUME NEW q \in Process, NEW r \in Process, Present(q)', Present(r)',
               proc'[q].pid = proc'[r].pid
        PROVE  q = r
    <3>1. Present(q) /\ Present(r) /\ Born(q) /\ Born(r)
      BY <2>1, <2>2
    <3>2. proc[q].pid = proc[r].pid
      BY <3>1, <2>2 DEF Onward
    <3> QED BY <3>1, <3>2 DEF HostInv, Alone
  <2>3. ASSUME NEW q \in Process, Present(q)'
        PROVE  proc'[q].boot = boot'
    BY <2>1, <2>3 DEF HostInv, Alone, Onward
  <2> QED BY <2>2, <2>3 DEF Alone
<1>2. Apart'
  <2> SUFFICES ASSUME NEW q \in Process, NEW r \in Process,
                      Born(q)', Born(r)', Told(proc[q], proc[r])'
               PROVE  q = r
    BY DEF Apart
  <2>1. Born(q) /\ Born(r)
    OBVIOUS
  <2>2. Told(proc[q], proc[r])
    BY <2>1 DEF Told, Onward
  <2> QED BY <2>1, <2>2 DEF HostInv, Apart
<1>3. Started'
  BY DEF HostInv, Started, Onward
<1> QED BY <1>1, <1>2, <1>3 DEF HostInv

\* Ends, collections and changes of name touch no number, start or boot.
LEMMA LifeKeeps ==
    ASSUME TypeOK, HostInv, NEW p \in Process, NEW look \in Look,
           Exit(p) \/ Reap(p) \/ ChangeLook(p, look)
    PROVE  proc' \in [Process -> Instance] /\ HostInv' /\ Onward
<1>1. proc' \in [Process -> Instance]
  BY DEF TypeOK, Exit, Reap, ChangeLook, Instance, Life
<1>2. \A q \in Process : q # p => proc'[q] = proc[q]
  BY DEF TypeOK, Exit, Reap, ChangeLook
<1>3. /\ proc'[p].pid = proc[p].pid /\ proc'[p].start = proc[p].start
      /\ proc'[p].boot = proc[p].boot
  BY DEF TypeOK, Exit, Reap, ChangeLook, Instance
<1>4. /\ Born(p) /\ Born(p)' /\ Present(p)
      /\ Exited(p) => Exited(p)'
  BY DEF TypeOK, Exit, Reap, ChangeLook, Instance, Present, Born, Exited
<1>5. proc[p].life # "gone"
  BY <1>4 DEF Present
<1>6. Onward
  BY <1>2, <1>3, <1>4, <1>5 DEF Onward, Born, Exited
<1>7. \A q \in Process : (Born(q)' => Born(q)) /\ (Present(q)' => Present(q))
  BY <1>2, <1>4 DEF Born, Present
<1>8. UNCHANGED <<platform, boot>>
  BY DEF Exit, Reap, ChangeLook
<1> QED BY <1>1, <1>6, <1>7, <1>8, ChangeKeeps

LEMMA HostStepKeeps ==
    ASSUME TypeOK, HostInv, HostStep
    PROVE  /\ TypeOK' /\ HostInv' /\ Onward
           /\ UNCHANGED <<platform, boot, store, agent, history>>
<1>1. UNCHANGED <<platform, boot, store, agent, history>>
  BY DEF HostStep, Begin, Exit, Reap, ChangeLook, SetClock
<1>2. proc' \in [Process -> Instance] /\ HostInv' /\ Onward
  <2>1. ASSUME NEW p \in Process, NEW h \in Handle,
               Begin(p, [pid |-> h.pid, look |-> h.look, start |-> h.start,
                         boot |-> boot, life |-> "running"])
        PROVE  proc' \in [Process -> Instance] /\ HostInv' /\ Onward
    <3>1. [pid |-> h.pid, look |-> h.look, start |-> h.start,
           boot |-> boot, life |-> "running"] \in Instance
      BY DEF Handle, Instance, Life, TypeOK
    <3>2. h.start \in Marker
      BY DEF Handle
    <3> QED BY <2>1, <3>1, <3>2, BeginKeeps
  <2>2. ASSUME NEW p \in Process, Exit(p) \/ Reap(p)
        PROVE  proc' \in [Process -> Instance] /\ HostInv' /\ Onward
    <3>1. PICK look \in Look : TRUE
      BY StoreAssumption
    <3> QED BY <2>2, <3>1, LifeKeeps
  <2>3. ASSUME NEW p \in Process, NEW look \in Look, ChangeLook(p, look)
        PROVE  proc' \in [Process -> Instance] /\ HostInv' /\ Onward
    BY <2>3, LifeKeeps
  <2>4. ASSUME NEW t \in 0 .. MaxTime, SetClock(t)
        PROVE  proc' \in [Process -> Instance] /\ HostInv' /\ Onward
    BY <2>4 DEF SetClock, TypeOK, HostInv, Alone, Apart, Onward, Born, Exited,
                Present, Told, Started
  <2> QED BY <2>1, <2>2, <2>3, <2>4 DEF HostStep
<1>3. now' \in Nat
  <2>1. now' = now \/ \E t \in 0 .. MaxTime : now' = t
    BY DEF HostStep, Begin, Exit, Reap, ChangeLook, SetClock
  <2> QED BY <2>1, StoreAssumption DEF TypeOK
<1> QED BY <1>1, <1>2, <1>3 DEF TypeOK, agent, history

\* A restart ends every process and begins a boot of its own.
LEMMA RebootKeeps ==
    ASSUME TypeOK, HostInv, Reboot
    PROVE  TypeOK' /\ HostInv' /\ Onward
<1>1. proc' \in [Process -> Instance]
  BY DEF TypeOK, Reboot, Instance, Life
<1>2. \A p \in Process : /\ proc'[p].pid = proc[p].pid
                         /\ proc'[p].start = proc[p].start
                         /\ proc'[p].boot = proc[p].boot
  BY DEF TypeOK, Reboot, Instance
<1>3. \A p \in Process : proc'[p].life = IF Present(p) THEN "gone" ELSE proc[p].life
  BY DEF TypeOK, Reboot, Instance
<1>4. \A p \in Process : ~Present(p)' /\ (Born(p)' <=> Born(p))
  BY <1>3 DEF Present, Born
<1>5. Onward
  BY <1>2, <1>3, <1>4 DEF Onward, Exited
<1>6. platform' = platform
  BY DEF Reboot
<1>7. HostInv'
  <2>1. Alone'
    BY <1>4 DEF Alone
  <2>2. Apart'
    <3> SUFFICES ASSUME NEW q \in Process, NEW r \in Process,
                        Born(q)', Born(r)', Told(proc[q], proc[r])'
                 PROVE  q = r
      BY DEF Apart
    <3>1. Told(proc[q], proc[r])
      BY <1>2, <1>6 DEF Told
    <3> QED BY <1>4, <3>1 DEF HostInv, Apart
  <2>3. Started'
    BY <1>2, <1>4 DEF HostInv, Started
  <2> QED BY <2>1, <2>2, <2>3 DEF HostInv
<1>8. TypeOK'
  BY <1>1 DEF TypeOK, Reboot, Idle, Stage, history
<1> QED BY <1>5, <1>7, <1>8

-----------------------------------------------------------------------------
(* What the history says of processes survives whatever the host does. *)

\* No change of the processes alone disturbs what is tied to them.
LEMMA OnwardKeeps ==
    ASSUME TypeOK, IInv, Onward, UNCHANGED <<platform, boot, store, agent, history>>
    PROVE  LinkInv' /\ ResultInv' /\ StoreInv'
<1> USE DEF agent, history
<1>1. \A b \in recorded : b.process \in Process
  BY DEF TypeOK, Evidence
<1>2. Witnessed'
  BY <1>1 DEF IInv, LinkInv, Witnessed, Onward
<1>3. \A b \in recorded : \A n : OfBoot(b, n) => OfBoot(b, n)'
  BY <1>1 DEF IInv, LinkInv, Witnessed, Onward, OfBoot
<1>4. ASSUME NEW h, NEW n, Backs(h, n)
      PROVE  Backs(h, n)'
  <2>1. PICK b \in recorded : b.handle = h /\ OfBoot(b, n)
    BY <1>4 DEF Backs
  <2>2. OfBoot(b, n)' /\ b \in recorded'
    BY <1>3, <2>1
  <2> QED BY <2>1, <2>2 DEF Backs
<1>5. Backed'
  BY <1>4 DEF IInv, LinkInv, Backed
<1>6. GoalStands'
  <2>1. Backs(goal, boot) => Backs(goal, boot)'
    <3>1. Backs(goal, boot) => \E b \in recorded' : b.handle = goal' /\ OfBoot(b, boot)'
      BY <1>3 DEF Backs
    <3> QED BY <3>1 DEF Backs
  <2>2. goal' = goal /\ stage' = stage /\ (Unprotected(goal)' <=> Unprotected(goal))
    BY DEF Unprotected
  <2> QED BY <2>1, <2>2 DEF IInv, LinkInv, GoalStands, Resolved
<1>7. Held'
  BY <1>1 DEF IInv, LinkInv, Held, Onward
<1>8. TargetStands'
  BY DEF IInv, LinkInv, TargetStands, Pinned
<1>9. ResultInv'
  <2>1. \A c \in confirmed : c.process \in Process
    BY DEF TypeOK, Evidence
  <2>2. SuccessIsExit'
    BY <2>1 DEF IInv, ResultInv, SuccessIsExit, Onward
  <2>3. OnlyEvidencedIsTerminated'
    BY DEF IInv, ResultInv, OnlyEvidencedIsTerminated, Unprotected
  <2> QED BY <2>2, <2>3 DEF ResultInv
<1>10. StoreInv'
  BY DEF IInv, StoreInv, StoreIsEarned
<1> QED BY <1>2, <1>5, <1>6, <1>7, <1>8, <1>9, <1>10 DEF LinkInv

\* A restart leaves the agent with nothing in hand.
LEMMA RebootLinks ==
    ASSUME IInv, Onward, Reboot
    PROVE  LinkInv' /\ ResultInv' /\ StoreInv'
<1> USE DEF history
<1>1. \A b \in recorded \cup confirmed : b.process \in Process
  BY DEF IInv, TypeOK, Evidence
<1>2. stage' = "idle" /\ UNCHANGED <<platform, store, recorded, signalled, confirmed>>
  BY DEF Reboot, Idle
<1>3. Witnessed'
  BY <1>1, <1>2 DEF IInv, LinkInv, Witnessed, Onward
<1>4. \A b \in recorded : \A n : OfBoot(b, n) => OfBoot(b, n)'
  BY <1>1, <1>2 DEF IInv, LinkInv, Witnessed, Onward, OfBoot
<1>5. Backed'
  <2> SUFFICES ASSUME NEW e \in store
               PROVE  Backs(e.handle, e.boot)'
    BY <1>2 DEF Backed
  <2>1. PICK b \in recorded : b.handle = e.handle /\ OfBoot(b, e.boot)
    BY DEF IInv, LinkInv, Backed, Backs
  <2>2. OfBoot(b, e.boot)' /\ b \in recorded'
    BY <1>2, <1>4, <2>1
  <2> QED BY <2>1, <2>2 DEF Backs
<1>6. GoalStands' /\ Held' /\ TargetStands'
  BY <1>2 DEF GoalStands, Held, TargetStands, Resolved, Pinned
<1>7. ResultInv'
  BY <1>1, <1>2 DEF IInv, ResultInv, SuccessIsExit, OnlyEvidencedIsTerminated,
                    Unprotected, Onward
<1>8. StoreInv'
  BY <1>2 DEF IInv, StoreInv, StoreIsEarned
<1> QED BY <1>3, <1>5, <1>6, <1>7, <1>8 DEF LinkInv

-----------------------------------------------------------------------------
(* The agent. *)

LEMMA HostStays ==
    ASSUME IInv, UNCHANGED host
    PROVE  HostInv'
BY DEF IInv, HostInv, Alone, Apart, Started, Present, Born, Told, host

\* While nothing is recorded, signalled or confirmed and no termination is past its
\* checks, there is only the goal to account for.
LEMMA QuietKeeps ==
    ASSUME IInv, UNCHANGED <<host, store, history>>, ~Resolved'
    PROVE  LinkInv' /\ ResultInv' /\ StoreInv'
<1> USE DEF host, history
<1>1. Witnessed' /\ Backed'
  BY DEF IInv, LinkInv, Witnessed, Backed, Backs, OfBoot, Born
<1>2. GoalStands' /\ Held' /\ TargetStands'
  BY DEF GoalStands, Held, TargetStands, Resolved, Pinned
<1>3. ResultInv' /\ StoreInv'
  BY DEF IInv, ResultInv, SuccessIsExit, OnlyEvidencedIsTerminated, Unprotected,
         Exited, StoreInv, StoreIsEarned
<1> QED BY <1>1, <1>2, <1>3 DEF LinkInv

LEMMA QuietSteps ==
    ASSUME IInv,
           \/ BeginListing \/ BeginTriage \/ Stop
           \/ \E p \in Process : ReadRow(p)
           \/ \E r \in rows : SkipProcess(r)
    PROVE  IInv'
<1>1. UNCHANGED <<host, store, history>> /\ ~Resolved'
  BY DEF BeginListing, BeginTriage, Stop, ReadRow, SkipProcess, Idle, Resolved, history
<1>2. TypeOK'
  <2>1. rows' \subseteq Row
    <3>1. \A p \in Process : [pid |-> proc[p].pid, look |-> proc[p].look] \in Row
      BY DEF IInv, TypeOK, Instance, Row
    <3>2. ASSUME NEW p \in Process, ReadRow(p)
          PROVE  rows' \subseteq Row
      BY <3>1, <3>2 DEF IInv, TypeOK, ReadRow
    <3> QED BY <3>2 DEF IInv, TypeOK, BeginListing, BeginTriage, Stop, SkipProcess, Idle
  <2>2. stage' \in Stage
    BY DEF IInv, TypeOK, BeginListing, BeginTriage, Stop, ReadRow, SkipProcess, Idle, Stage
  <2>3. goal' \in Handle \cup {NoHandle} /\ target' \in Process \cup {NoProcess}
    BY DEF IInv, TypeOK, BeginListing, BeginTriage, Stop, ReadRow, SkipProcess, Idle
  <2> QED BY <1>1, <2>1, <2>2, <2>3 DEF IInv, TypeOK, host, history
<1>3. LinkInv' /\ ResultInv' /\ StoreInv'
  BY <1>1, QuietKeeps
<1>4. HostInv'
  BY <1>1, HostStays
<1> QED BY <1>2, <1>3, <1>4 DEF IInv

\* What stays of the store leaves room for one more, under another handle.
LEMMA RoomForOne ==
    ASSUME StoreInv, NEW h, NEW old \in Retained(h, now)
    PROVE  /\ old \subseteq store
           /\ \A e \in old : e.handle # h
           /\ IsFiniteSet(old)
           /\ Cardinality(old) \in Nat /\ Cardinality(old) < MaxEntries
<1> DEFINE others == Others(h, now)
<1>1. PICK gone \in Evicted(others) : old = others \ gone
  BY DEF Retained
<1>2. others \subseteq store /\ IsFiniteSet(others) /\ Cardinality(others) <= MaxEntries
  <2>1. others \subseteq store
    BY DEF Others
  <2>2. IsFiniteSet(others) /\ Cardinality(others) <= Cardinality(store)
    BY <2>1, FS_Subset DEF StoreInv
  <2>3. Cardinality(others) \in Nat /\ Cardinality(store) \in Nat
    BY <2>2, FS_CardinalityType DEF StoreInv
  <2> QED BY <2>1, <2>2, <2>3, StoreAssumption DEF StoreInv, StoreIsEarned
<1>3. old \subseteq others /\ IsFiniteSet(old) /\ Cardinality(old) \in Nat
      /\ Cardinality(others) \in Nat
  BY <1>1, <1>2, FS_Subset, FS_CardinalityType
<1>4. Cardinality(old) < MaxEntries
  <2>1. CASE Cardinality(others) < MaxEntries
    <3>1. Cardinality(old) <= Cardinality(others)
      BY <1>2, <1>3, FS_Subset
    <3> QED BY <1>3, <2>1, <3>1, StoreAssumption
  <2>2. CASE ~(Cardinality(others) < MaxEntries)
    <3>1. PICK e \in others : gone = {e}
      BY <1>1, <2>2 DEF Evicted
    <3>2. Cardinality(others \ {e}) = Cardinality(others) - 1
      BY <1>2, <3>1, FS_RemoveElement
    <3> HIDE DEF others
    <3> QED BY <1>1, <1>2, <1>3, <3>1, <3>2, StoreAssumption
  <2> QED BY <2>1, <2>2
<1>5. \A e \in others : e.handle # h
  BY DEF Others
<1> QED BY <1>2, <1>3, <1>4, <1>5

\* A record made by RecordProcess is backed by the process whose start time it holds.
LEMMA RecordKeeps ==
    ASSUME IInv, NEW r \in rows, NEW p \in Process, RecordProcess(r, p)
    PROVE  IInv'
<1> USE DEF host, history
<1>1. PICK h : /\ h = [pid |-> r.pid, look |-> r.look, start |-> proc[p].start]
               /\ \E old \in Retained(h, now) : store' = old \cup {NewEntry(h)}
               /\ recorded' = recorded \cup {Bound(h, p)}
  BY DEF RecordProcess
<1>2. PICK old \in Retained(h, now) : store' = old \cup {NewEntry(h)}
  BY <1>1
<1>3. /\ UNCHANGED <<platform, boot, now, proc, stage, goal, target, signalled, confirmed>>
      /\ stage = "record" /\ rows' = rows \ {r}
  BY DEF RecordProcess
<1>4. Present(p) /\ proc[p].pid = r.pid
  BY DEF RecordProcess, OccupantOf
<1>5. h \in Handle
  <2>1. proc[p] \in Instance /\ r \in Row
    BY DEF IInv, TypeOK
  <2>2. proc[p].start \in Marker
    BY <1>4 DEF IInv, HostInv, Started, Born, Present
  <2> QED BY <1>1, <2>1, <2>2 DEF Row, Handle
<1>6. NewEntry(h) \in Entry
  BY <1>5, StoreAssumption DEF IInv, TypeOK, NewEntry, BootIdentity, Entry
<1>7. Bound(h, p) \in Evidence
  BY <1>5 DEF Bound, Evidence
<1>8. /\ old \subseteq store
      /\ \A e \in old : e.handle # h
      /\ IsFiniteSet(old)
      /\ Cardinality(old) \in Nat /\ Cardinality(old) < MaxEntries
  BY RoomForOne, <1>2 DEF IInv
<1>9. TypeOK'
  BY <1>1, <1>2, <1>3, <1>6, <1>7, <1>8 DEF IInv, TypeOK
<1>10. HostInv'
  BY <1>3, HostStays
<1>11. Witnessed'
  <2>1. Born(p) /\ proc[p].pid = h.pid /\ proc[p].start = h.start
    BY <1>1, <1>4 DEF Born, Present
  <2>2. \A b \in recorded' : b \in recorded \/ (b.handle = h /\ b.process = p)
    BY <1>1 DEF Bound
  <2> QED BY <1>3, <2>1, <2>2 DEF IInv, LinkInv, Witnessed, Born
<1>12. Backed'
  <2>1. Bound(h, p) \in recorded' /\ Bound(h, p).handle = h /\ Bound(h, p).process = p
    BY <1>1 DEF Bound
  <2>2. proc[p].boot = boot
    BY <1>4 DEF IInv, HostInv, Alone
  <2>3. PICK new : new = NewEntry(h)
    OBVIOUS
  <2>4. new.handle = h /\ (platform = "linux" => new.boot = boot)
    BY <2>3 DEF NewEntry, BootIdentity
  <2>5. PICK bound : bound = Bound(h, p)
    OBVIOUS
  <2>6. OfBoot(bound, new.boot)' /\ bound \in recorded' /\ bound.handle = new.handle
    BY <1>3, <2>1, <2>2, <2>4, <2>5 DEF OfBoot
  <2>7. Backs(new.handle, new.boot)'
    BY <2>6 DEF Backs
  <2>8. ASSUME NEW e \in old
        PROVE  Backs(e.handle, e.boot)'
    <3>1. PICK b \in recorded : b.handle = e.handle /\ OfBoot(b, e.boot)
      BY <1>8 DEF IInv, LinkInv, Backed, Backs
    <3>2. b \in recorded' /\ OfBoot(b, e.boot)'
      BY <1>1, <1>3, <3>1 DEF OfBoot
    <3> QED BY <3>1, <3>2 DEF Backs
  <2>9. \A e \in store' : e \in old \/ e = new
    BY <1>2, <2>3
  <2> QED BY <2>7, <2>8, <2>9 DEF Backed
<1>13. GoalStands' /\ Held' /\ TargetStands'
  <2>1. stage' = "record"
    BY <1>3
  <2> QED BY <2>1 DEF GoalStands, Held, TargetStands, Resolved, Pinned
<1>14. ResultInv'
  BY <1>1, <1>3 DEF IInv, ResultInv, SuccessIsExit, OnlyEvidencedIsTerminated,
                    Unprotected, Exited
<1>15. StoreInv'
  <2>1. NewEntry(h) \notin old /\ NewEntry(h).handle = h
    BY <1>8 DEF NewEntry
  <2>2. IsFiniteSet(store') /\ Cardinality(store') = Cardinality(old) + 1
    BY <1>2, <1>8, <2>1, FS_AddElement
  <2>3. Cardinality(store') <= MaxEntries
    BY <1>8, <2>2, StoreAssumption
  <2>4. \A e, f \in store' : e.handle = f.handle => e = f
    BY <1>2, <1>8, <2>1 DEF IInv, StoreInv, StoreIsEarned
  <2>5. \A e \in store' : \E b \in recorded' : b.handle = e.handle
    <3>1. Bound(h, p) \in recorded' /\ Bound(h, p).handle = h
      BY <1>1 DEF Bound
    <3>2. \A e \in old : \E b \in recorded' : b.handle = e.handle
      BY <1>1, <1>8 DEF IInv, StoreInv, StoreIsEarned
    <3> QED BY <1>2, <2>1, <3>1, <3>2
  <2> QED BY <2>2, <2>3, <2>4, <2>5 DEF StoreInv, StoreIsEarned
<1> QED BY <1>9, <1>10, <1>11, <1>12, <1>13, <1>14, <1>15 DEF IInv, LinkInv

\* Past its checks, a termination stands on what was recorded in this boot.
LEMMA ResolveKeeps ==
    ASSUME IInv, NEW h \in Handle, Resolve(h)
    PROVE  IInv'
<1> USE DEF host, history
<1>1. /\ UNCHANGED <<platform, boot, now, proc, store, target, recorded, signalled, confirmed>>
      /\ stage' = "resolved" /\ goal' = h /\ rows' = {} /\ Unprotected(h)
  BY DEF Resolve
<1>2. TypeOK'
  BY <1>1 DEF IInv, TypeOK, Stage
<1>3. Backs(h, boot)
  <2>1. PICK e \in store : e.handle = h /\ Stands(e)
    BY DEF Resolve
  <2>2. PICK b \in recorded : b.handle = h /\ OfBoot(b, e.boot)
    BY <2>1 DEF IInv, LinkInv, Backed, Backs
  <2>3. platform = "linux" => e.boot = boot
    BY <2>1 DEF Stands, BootIdentity
  <2> QED BY <2>2, <2>3 DEF Backs, OfBoot
<1>4. GoalStands'
  <2>1. \E b \in recorded' : b.handle = goal' /\ OfBoot(b, boot)'
    BY <1>1, <1>3 DEF Backs, OfBoot
  <2>2. Backs(goal, boot)'
    BY <2>1 DEF Backs
  <2>3. Unprotected(goal)'
    BY <1>1 DEF Unprotected
  <2> QED BY <1>1, <2>2, <2>3 DEF GoalStands
<1>5. Witnessed' /\ Backed'
  BY <1>1 DEF IInv, LinkInv, Witnessed, Backed, Backs, OfBoot, Born
<1>6. Held' /\ TargetStands'
  BY <1>1 DEF Held, TargetStands, Pinned
<1>7. ResultInv' /\ StoreInv'
  BY <1>1 DEF IInv, ResultInv, SuccessIsExit, OnlyEvidencedIsTerminated, Unprotected,
              Exited, StoreInv, StoreIsEarned
<1>8. HostInv'
  BY <1>1, HostStays
<1> QED BY <1>2, <1>4, <1>5, <1>6, <1>7, <1>8 DEF IInv, LinkInv

\* The steps of a termination past its checks change neither the store nor what is
\* recorded.
LEMMA GoingOnKeeps ==
    ASSUME IInv, UNCHANGED <<host, store, recorded, goal>>, Resolved
    PROVE  Witnessed' /\ Backed' /\ GoalStands' /\ StoreInv' /\ HostInv'
<1> USE DEF host
<1>1. Witnessed' /\ Backed'
  BY DEF IInv, LinkInv, Witnessed, Backed, Backs, OfBoot, Born
<1>2. GoalStands'
  BY DEF IInv, LinkInv, GoalStands, Backs, OfBoot, Unprotected
<1>3. StoreInv'
  BY DEF IInv, StoreInv, StoreIsEarned
<1> QED BY <1>1, <1>2, <1>3, HostStays

\* Whoever has the number when the descriptor is opened keeps every other process
\* recorded under it from being there.
LEMMA OpenKeeps ==
    ASSUME IInv, NEW p \in Process, Open(p)
    PROVE  IInv'
<1> USE DEF host, history
<1>1. /\ UNCHANGED <<platform, boot, now, proc, store, goal, rows, recorded, signalled, confirmed>>
      /\ stage = "resolved" /\ stage' = "opened" /\ target' = p
      /\ Present(p) /\ proc[p].pid = goal.pid
  BY DEF Open, OccupantOf
<1>2. TypeOK'
  BY <1>1 DEF IInv, TypeOK, Stage
<1>3. Held'
  <2>1. ASSUME NEW b \in recorded, b.handle = goal
        PROVE  b.process = p \/ proc[b.process].life = "gone"
    <3>1. b.process \in Process /\ Born(b.process) /\ proc[b.process].pid = goal.pid
      BY <2>1 DEF IInv, TypeOK, Evidence, LinkInv, Witnessed
    <3>2. proc[b.process].life \in Life
      BY <3>1 DEF IInv, TypeOK, Instance
    <3>3. Present(b.process) => b.process = p
      BY <1>1, <3>1 DEF IInv, HostInv, Alone
    <3> QED BY <3>1, <3>2, <3>3 DEF Present, Born, Life
  <2> QED BY <1>1, <2>1 DEF Held, Born, Present
<1>4. TargetStands'
  BY <1>1 DEF TargetStands, Pinned
<1>5. ResultInv'
  BY <1>1 DEF IInv, ResultInv, SuccessIsExit, OnlyEvidencedIsTerminated, Unprotected, Exited
<1> QED BY <1>1, <1>2, <1>3, <1>4, <1>5, GoingOnKeeps DEF IInv, LinkInv, Resolved

\* The identity read after the descriptor was opened is the descriptor's own.
LEMMA IdentifiedIsRecorded ==
    ASSUME IInv, stage = "opened", Identified(target)
    PROVE  target \in Process /\ Bound(goal, target) \in recorded
<1>1. /\ target \in Process /\ Born(target) /\ proc[target].pid = goal.pid
  BY DEF IInv, LinkInv, Held
<1>2. PICK b \in recorded : b.handle = goal /\ OfBoot(b, boot)
  BY DEF IInv, LinkInv, GoalStands, Resolved, Backs
<1>3. /\ b.process \in Process /\ Born(b.process)
      /\ proc[b.process].pid = goal.pid /\ proc[b.process].start = goal.start
  BY <1>2 DEF IInv, TypeOK, Evidence, LinkInv, Witnessed
<1>4. b.process = target
  <2>1. CASE platform = "linux"
    <3>1. PICK q \in Process : /\ Present(q) /\ proc[q].pid = goal.pid
                              /\ proc[q].life = "running" /\ proc[q].start = goal.start
      BY <2>1 DEF Identified, OccupantOf
    <3>2. proc[q].boot = boot /\ proc[b.process].boot = boot
      BY <1>2, <2>1, <3>1 DEF IInv, HostInv, Alone, OfBoot
    <3>3. q = b.process
      BY <1>3, <3>1, <3>2 DEF IInv, HostInv, Apart, Told, Born
    <3>4. b.process = target \/ proc[b.process].life = "gone"
      BY <1>2 DEF IInv, LinkInv, Held
    <3> QED BY <3>1, <3>3, <3>4
  <2>2. CASE platform # "linux"
    <3>1. proc[target].start = goal.start
      BY <2>2 DEF Identified
    <3> QED BY <1>1, <1>3, <2>2, <3>1 DEF IInv, HostInv, Apart, Told
  <2> QED BY <2>1, <2>2
<1>5. b = Bound(goal, target)
  BY <1>2, <1>4 DEF IInv, TypeOK, Evidence, Bound
<1> QED BY <1>1, <1>2, <1>5

LEMMA ChecksKeep ==
    ASSUME IInv, Identify \/ CheckActive
    PROVE  IInv'
<1> USE DEF host, history
<1>1. /\ UNCHANGED <<platform, boot, now, proc, store, goal, rows, target, recorded, signalled, confirmed>>
      /\ stage' \in {"identified", "active"} /\ Resolved
  BY DEF Identify, CheckActive, Resolved
<1>2. TypeOK'
  BY <1>1 DEF IInv, TypeOK, Stage
<1>3. target \in Process /\ Bound(goal, target) \in recorded
  BY IdentifiedIsRecorded DEF Identify, CheckActive, IInv, LinkInv, TargetStands, Pinned
<1>4. Held' /\ TargetStands'
  BY <1>1, <1>3 DEF Held, TargetStands, Pinned, Bound
<1>5. ResultInv'
  BY <1>1 DEF IInv, ResultInv, SuccessIsExit, OnlyEvidencedIsTerminated, Unprotected, Exited
<1> QED BY <1>1, <1>2, <1>4, <1>5, GoingOnKeeps DEF IInv, LinkInv

LEMMA SignalKeeps ==
    ASSUME IInv, Signal
    PROVE  IInv'
<1> USE DEF host, history
<1>1. /\ UNCHANGED <<platform, boot, now, proc, store, goal, rows, target, recorded, confirmed>>
      /\ stage = "active" /\ stage' = "signalled"
      /\ signalled' = signalled \cup {Bound(goal, target)}
  BY DEF Signal
<1>2. /\ goal \in Handle /\ Unprotected(goal)
      /\ target \in Process /\ Bound(goal, target) \in recorded
  BY <1>1 DEF IInv, LinkInv, GoalStands, Resolved, TargetStands, Pinned
<1>3. TypeOK'
  BY <1>1, <1>2 DEF IInv, TypeOK, Stage
<1>4. Held' /\ TargetStands'
  BY <1>1, <1>2 DEF Held, TargetStands, Pinned, Bound
<1>5. OnlyEvidencedIsTerminated'
  BY <1>1, <1>2 DEF IInv, ResultInv, OnlyEvidencedIsTerminated, Unprotected, Bound
<1>6. SuccessIsExit'
  BY <1>1 DEF IInv, ResultInv, SuccessIsExit, Exited
<1> QED BY <1>1, <1>3, <1>4, <1>5, <1>6, GoingOnKeeps DEF IInv, LinkInv, ResultInv, Resolved

LEMMA ConfirmKeeps ==
    ASSUME IInv, Confirm
    PROVE  IInv'
<1> USE DEF host, history
<1>1. /\ UNCHANGED <<platform, boot, now, proc, store, recorded, signalled>>
      /\ stage = "signalled" /\ Exited(target)
      /\ confirmed' = confirmed \cup {Bound(goal, target)}
      /\ stage' = "idle" /\ rows' = {} /\ goal' = NoHandle /\ target' = NoProcess
  BY DEF Confirm, Idle
<1>2. Bound(goal, target) \in signalled
  BY <1>1 DEF IInv, LinkInv, TargetStands
<1>3. TypeOK'
  BY <1>1, <1>2 DEF IInv, TypeOK, Stage
<1>4. Witnessed' /\ Backed'
  BY <1>1 DEF IInv, LinkInv, Witnessed, Backed, Backs, OfBoot, Born
<1>5. GoalStands' /\ Held' /\ TargetStands'
  BY <1>1 DEF GoalStands, Held, TargetStands, Resolved, Pinned
<1>6. ResultInv'
  BY <1>1, <1>2 DEF IInv, ResultInv, SuccessIsExit, OnlyEvidencedIsTerminated,
                    Unprotected, Exited, Bound
<1>7. StoreInv'
  BY <1>1 DEF IInv, StoreInv, StoreIsEarned
<1>8. HostInv'
  BY <1>1, HostStays
<1> QED BY <1>3, <1>4, <1>5, <1>6, <1>7, <1>8 DEF IInv, LinkInv

-----------------------------------------------------------------------------
(* Theorems. *)

LEMMA Initially == Init => IInv
<1> SUFFICES ASSUME Init PROVE IInv
  OBVIOUS
<1>1. AnyPid \in Pid /\ AnyLook \in Look
  BY StoreAssumption DEF AnyPid, AnyLook
<1>2. Blank \in Instance /\ Blank.life = "unborn"
  BY <1>1 DEF Blank, Instance, Life
<1>3. TypeOK
  BY <1>2 DEF Init, TypeOK, Stage
<1>4. HostInv
  BY <1>2 DEF Init, HostInv, Alone, Apart, Started, Present, Born
<1>5. LinkInv
  BY DEF Init, LinkInv, Witnessed, Backed, GoalStands, Held, TargetStands, Resolved, Pinned
<1>6. ResultInv
  BY DEF Init, ResultInv, OnlyEvidencedIsTerminated, SuccessIsExit
<1>7. StoreInv
  BY FS_EmptySet, StoreAssumption DEF Init, StoreInv, StoreIsEarned
<1> QED BY <1>3, <1>4, <1>5, <1>6, <1>7 DEF IInv

LEMMA AgentKeeps ==
    ASSUME IInv, AgentStep
    PROVE  IInv'
<1>1. ASSUME NEW b \in recorded, Resolve(b.handle)
      PROVE  IInv'
  <2>1. b.handle \in Handle
    BY DEF IInv, TypeOK, Evidence
  <2> QED BY <1>1, <2>1, ResolveKeeps
<1> QED BY <1>1, QuietSteps, RecordKeeps, OpenKeeps, ChecksKeep, SignalKeeps, ConfirmKeeps
        DEF AgentStep, Triage, Terminate

LEMMA Inductive == IInv /\ [Next]_vars => IInv'
<1> SUFFICES ASSUME IInv, [Next]_vars PROVE IInv'
  OBVIOUS
<1>1. CASE HostStep
  BY <1>1, HostStepKeeps, OnwardKeeps DEF IInv
<1>2. CASE Reboot
  BY <1>2, RebootKeeps, RebootLinks DEF IInv
<1>3. CASE AgentStep
  BY <1>3, AgentKeeps
<1>4. CASE UNCHANGED vars
  <2>1. UNCHANGED <<platform, boot, now, proc, store, stage, goal, rows, target,
                    recorded, signalled, confirmed>>
    BY <1>4 DEF vars, host, agent, history
  <2>2. Onward
    BY <2>1 DEF Onward, Born, Exited
  <2>3. TypeOK' /\ HostInv'
    BY <2>1, HostStays DEF IInv, TypeOK, host
  <2>4. LinkInv' /\ ResultInv' /\ StoreInv'
    BY <2>1, <2>2, OnwardKeeps DEF IInv, agent, history
  <2> QED BY <2>3, <2>4 DEF IInv
<1> QED BY <1>1, <1>2, <1>3, <1>4 DEF Next

LEMMA Invariant == Spec => []IInv
BY Initially, Inductive, PTL DEF Spec

\* Every variable keeps its type.
THEOREM TypeCorrect == Spec => []TypeOK
<1>1. IInv => TypeOK
  BY DEF IInv
<1> QED BY <1>1, Invariant, PTL

\* terminate_evidence_process signals only an instance that a triage on this endpoint
\* returned the handle for, and none that is protected, for any number of processes
\* and restarts and any reuse of numbers.
THEOREM TerminationIsEvidenced == Spec => []OnlyEvidencedIsTerminated
<1>1. IInv => OnlyEvidencedIsTerminated
  BY DEF IInv, ResultInv
<1> QED BY <1>1, Invariant, PTL

\* A termination that the agent reports as confirmed was requested of a process that
\* has exited.
THEOREM ConfirmationIsExit == Spec => []SuccessIsExit
<1>1. IInv => SuccessIsExit
  BY DEF IInv, ResultInv
<1> QED BY <1>1, Invariant, PTL

\* The store stays within its limit, with one entry of a handle, each returned to a
\* triage.
THEOREM StoreStaysEarned == Spec => []StoreIsEarned
<1>1. IInv => StoreIsEarned
  BY DEF IInv, StoreInv
<1> QED BY <1>1, Invariant, PTL

\* What RecordProcess drops before it expires, it drops for a new handle in a full
\* store.
LEMMA DropsAreForced ==
    ASSUME IInv, [Next]_vars, NEW e \in store, e.expires > now,
           \A f \in store' : f.handle # e.handle
    PROVE  /\ Cardinality(store) = MaxEntries
           /\ \E f \in store' : \A g \in store : g.handle # f.handle
<1>1. store' # store
  OBVIOUS
<1>2. PICK r \in rows, p \in Process : RecordProcess(r, p)
  BY <1>1 DEF Next, HostStep, Reboot, AgentStep, Triage, Terminate, BeginListing, ReadRow,
     BeginTriage, SkipProcess, Resolve, Open, Identify, CheckActive, Signal, Confirm, Stop,
     vars
<1>3. PICK h : \E old \in Retained(h, now) : store' = old \cup {NewEntry(h)}
  BY <1>2 DEF RecordProcess
<1>4. PICK gone \in Evicted(Others(h, now)) :
          store' = (Others(h, now) \ gone) \cup {NewEntry(h)}
  BY <1>3 DEF Retained
<1>5. NewEntry(h).handle = h /\ NewEntry(h) \in store'
  BY <1>4 DEF NewEntry
<1>6. e \in Others(h, now)
  BY <1>5 DEF Others
<1>7. e \notin store'
  OBVIOUS
<1>8. gone # {} /\ ~(Cardinality(Others(h, now)) < MaxEntries)
  BY <1>4, <1>6, <1>7 DEF Evicted
<1>9. /\ IsFiniteSet(store) /\ Cardinality(store) \in Nat /\ Cardinality(store) <= MaxEntries
      /\ Others(h, now) \subseteq store
  BY FS_CardinalityType DEF IInv, StoreInv, StoreIsEarned, Others
<1>10. /\ Cardinality(Others(h, now)) <= Cardinality(store)
       /\ Cardinality(Others(h, now)) \in Nat
       /\ Cardinality(Others(h, now)) = Cardinality(store) => Others(h, now) = store
  BY <1>9, FS_Subset, FS_CardinalityType
<1>11. Cardinality(store) = MaxEntries /\ Others(h, now) = store
  BY <1>8, <1>9, <1>10, StoreAssumption
<1>12. \A g \in store : g.handle # h
  BY <1>11 DEF Others
<1> QED BY <1>5, <1>11, <1>12

\* Handles outlive every step but the one that needs their place.
THEOREM HandlesStay == Spec => HandlesLast
<1>1. IInv /\ [Next]_vars =>
        [\A e \in store :
           (e.expires > now /\ \A f \in store' : f.handle # e.handle)
             => /\ Cardinality(store) = MaxEntries
                /\ \E f \in store' : \A g \in store : g.handle # f.handle]_vars
  BY DropsAreForced
<1> QED BY <1>1, Invariant, PTL DEF Spec, HandlesLast

=============================================================================
