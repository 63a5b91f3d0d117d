---------------------------- MODULE EvidenceStore ----------------------------
(***************************************************************************)
(* The endpoint's evidence store (src/scripts/evidence_store.py) and the   *)
(* termination that relies on it (src/scripts/process_containment.py),     *)
(* among processes that come and go while the agent works.  A triage       *)
(* bundle lists the processes and records a handle for each; later, an     *)
(* approved action gives a handle back and the process behind it is        *)
(* terminated.  Process numbers are used again, names and parents change,  *)
(* the host restarts, and every read of the agent is a step of its own.    *)
(*                                                                         *)
(* A handle stands for the keyed hash of what it is computed from.  A Look *)
(* is what a row shows of a process besides its number: the number of its  *)
(* parent and its name, whose case is nowhere regarded.                    *)
(***************************************************************************)
EXTENDS Naturals, FiniteSets

CONSTANTS Process,        \* process instances, over all boots
          Pid,            \* the numbers the system gives them
          Look,           \* what their rows show
          Marker,         \* start times
          NoMarker,       \* there is no process yet
          NoProcess,      \* the agent holds no descriptor
          ProtectedPid,   \* pid <= 2, the agent's own and its parent's
          ProtectedLook,  \* those with a name of _PROTECTED_IMAGES
          Ttl,            \* EVIDENCE_TTL_MINUTES
          MaxEntries,     \* MAX_EVIDENCE_ENTRIES
          MaxTime,        \* bound of the clock, for model checking only
          MaxBoot         \* bound of the restarts, for model checking only

ASSUME StoreAssumption ==
    /\ Pid # {} /\ Look # {}
    /\ NoMarker \notin Marker /\ NoProcess \notin Process
    /\ Ttl \in Nat \ {0} /\ MaxEntries \in Nat \ {0}
    /\ MaxTime \in Nat /\ MaxBoot \in Nat

VARIABLES platform,   \* "linux" or "windows", for good
          boot,       \* which boot of the host this is
          now,        \* the host's clock
          proc,       \* the processes
          store,      \* response-agent-evidence.json
          stage,      \* how far the agent is
          goal,       \* the handle it was asked to terminate
          rows,       \* the rows of the process diagnostic in hand
          target,     \* the process its descriptor holds
          recorded,   \* history: which handle was returned for which process
          signalled,  \* history: which process was signalled for which handle
          confirmed   \* history: whose exit was reported for which handle

host == <<platform, boot, now, proc>>
agent == <<stage, goal, rows, target>>
history == <<recorded, signalled, confirmed>>
vars == <<host, store, agent, history>>

Life == {"unborn", "running", "zombie", "gone"}
Handle == [pid : Pid, look : Look, start : Marker]
Row == [pid : Pid, look : Look]
Instance == [pid : Pid, look : Look, start : Marker \cup {NoMarker}, boot : Nat, life : Life]
Entry == [handle : Handle, boot : Nat, created : Nat, expires : Nat]
Evidence == [handle : Handle, process : Process]
Stage == {"idle", "listing", "record", "resolved", "opened", "identified",
          "active", "signalled"}

Bound(h, p) == [handle |-> h, process |-> p]
AnyPid == CHOOSE n \in Pid : TRUE
AnyLook == CHOOSE look \in Look : TRUE
NoHandle == [pid |-> AnyPid, look |-> AnyLook, start |-> NoMarker]
Blank == [pid |-> AnyPid, look |-> AnyLook, start |-> NoMarker, boot |-> 0,
          life |-> "unborn"]

Init ==
    /\ platform \in {"linux", "windows"}
    /\ boot = 1
    /\ now = 0
    /\ proc = [p \in Process |-> Blank]
    /\ store = {}
    /\ stage = "idle"
    /\ goal = NoHandle
    /\ rows = {}
    /\ target = NoProcess
    /\ recorded = {}
    /\ signalled = {}
    /\ confirmed = {}

-----------------------------------------------------------------------------
(* The host. *)

Present(p) == proc[p].life \in {"running", "zombie"}
Exited(p) == proc[p].life \in {"zombie", "gone"}
OccupantOf(n) == {p \in Process : Present(p) /\ proc[p].pid = n}

\* A start time tells the processes of one number apart: Linux counts it from
\* the boot, Windows gives the absolute time.
Told(i, j) == i.pid = j.pid /\ i.start = j.start
                /\ (platform = "linux" => i.boot = j.boot)

Begin(p, i) ==
    /\ proc[p].life = "unborn"
    /\ i.life = "running" /\ i.boot = boot
    /\ OccupantOf(i.pid) = {}
    /\ \A q \in Process : proc[q].life # "unborn" => ~Told(proc[q], i)
    /\ proc' = [proc EXCEPT ![p] = i]
    /\ UNCHANGED <<platform, boot, now>>

\* It exits and is a zombie until its parent collects it; on Windows, until the
\* last handle is closed.
Exit(p) ==
    /\ proc[p].life = "running"
    /\ proc' = [proc EXCEPT ![p].life = "zombie"]
    /\ UNCHANGED <<platform, boot, now>>

Reap(p) ==
    /\ proc[p].life = "zombie"
    /\ proc' = [proc EXCEPT ![p].life = "gone"]
    /\ UNCHANGED <<platform, boot, now>>

\* On Linux a process may take another name, and gets another parent when its own
\* ends.
ChangeLook(p, look) ==
    /\ platform = "linux"
    /\ Present(p)
    /\ proc' = [proc EXCEPT ![p].look = look]
    /\ UNCHANGED <<platform, boot, now>>

\* The clock of the host may be set, back as well as forth.
SetClock(t) ==
    /\ now' = t
    /\ UNCHANGED <<platform, boot, proc>>

HostStep ==
    /\ \/ \E p \in Process, h \in Handle :
            Begin(p, [pid |-> h.pid, look |-> h.look, start |-> h.start,
                      boot |-> boot, life |-> "running"])
       \/ \E p \in Process : Exit(p) \/ Reap(p)
       \/ \E p \in Process, look \in Look : ChangeLook(p, look)
       \/ \E t \in 0 .. MaxTime : SetClock(t)
    /\ UNCHANGED <<store, agent, history>>

Idle ==
    /\ stage' = "idle" /\ rows' = {}
    /\ goal' = NoHandle /\ target' = NoProcess

\* The agent goes with everything else; its store stays on the disk.
Reboot ==
    /\ boot < MaxBoot
    /\ boot' = boot + 1
    /\ proc' = [p \in Process |->
                  IF Present(p) THEN [proc[p] EXCEPT !.life = "gone"] ELSE proc[p]]
    /\ Idle
    /\ UNCHANGED <<platform, now, store, history>>

-----------------------------------------------------------------------------
(* The agent. *)

\* Nothing distinguishes two boots in a record made on Windows.
BootIdentity == IF platform = "linux" THEN boot ELSE 0

\* A triage and a termination both start from the process diagnostic.
BeginListing ==
    /\ stage = "idle"
    /\ stage' = "listing"
    /\ UNCHANGED <<host, store, goal, rows, target, history>>

\* One number after the other, in any order; a zombie has a row as well.
ReadRow(p) ==
    /\ stage = "listing"
    /\ Present(p)
    /\ \A r \in rows : r.pid # proc[p].pid
    /\ rows' = rows \cup {[pid |-> proc[p].pid, look |-> proc[p].look]}
    /\ UNCHANGED <<host, store, stage, goal, target, history>>

\* Any rows may be missing: processes that came late, or past the limit of rows.
BeginTriage ==
    /\ stage = "listing"
    /\ stage' = "record"
    /\ UNCHANGED <<host, store, goal, rows, target, history>>

\* Fault: an entry goes although there is room for one more.
EvictedEarly(old) ==
    IF Cardinality(old) + 1 < MaxEntries THEN {{}} ELSE {{e} : e \in old}

\* What is left of the store when an entry for the handle is written at time t:
\* what has expired is dropped, and over the limit one of the others goes,
\* whichever handle sorts first.
Others(h, t) == {e \in store : e.handle # h /\ e.expires > t}
Evicted(old) ==
    IF Cardinality(old) < MaxEntries THEN {{}} ELSE {{e} : e \in old}
Retained(h, t) ==
    {Others(h, t) \ gone : gone \in Evicted(Others(h, t))}

NewEntry(h) ==
    [handle |-> h, boot |-> BootIdentity, created |-> now, expires |-> now + Ttl]

\* The start time is read now, by number, and may be that of another process
\* than the row is about.
RecordProcess(r, p) ==
    /\ stage = "record"
    /\ p \in OccupantOf(r.pid)
    /\ LET h == [pid |-> r.pid, look |-> r.look, start |-> proc[p].start]
       IN /\ \E old \in Retained(h, now) : store' = old \cup {NewEntry(h)}
          /\ recorded' = recorded \cup {Bound(h, p)}
    /\ rows' = rows \ {r}
    /\ UNCHANGED <<host, stage, goal, target, signalled, confirmed>>

SkipProcess(r) ==
    /\ stage = "record"
    /\ OccupantOf(r.pid) = {}
    /\ rows' = rows \ {r}
    /\ UNCHANGED <<host, store, stage, goal, target, history>>

\* The last row is done, or the bundle ends early on an error or a crash; any
\* refusal of a termination ends it as well.
Stop ==
    /\ stage # "idle"
    /\ Idle
    /\ UNCHANGED <<host, store, history>>

Unprotected(h) == h.pid \notin ProtectedPid /\ h.look \notin ProtectedLook

RowAgrees(h) == [pid |-> h.pid, look |-> h.look] \in rows

\* Fault: the boot of the record is not compared.
StandsOverBoots(e) == e.created <= now /\ now < e.expires

Stands(e) ==
    /\ e.created <= now /\ now < e.expires
    /\ e.boot = BootIdentity

MarkerAgrees(h) == \E p \in OccupantOf(h.pid) : proc[p].start = h.start

Resolve(h) ==
    /\ stage = "listing"
    /\ \E e \in store : e.handle = h /\ Stands(e)
    /\ RowAgrees(h)
    /\ MarkerAgrees(h)
    /\ Unprotected(h)
    /\ stage' = "resolved"
    /\ goal' = h
    /\ rows' = {}
    /\ UNCHANGED <<host, store, target, history>>

\* pidfd_open and OpenProcess take a number once more; what they return stays
\* with the process.
Open(p) ==
    /\ stage = "resolved"
    /\ p \in OccupantOf(goal.pid)
    /\ target' = p
    /\ stage' = "opened"
    /\ UNCHANGED <<host, store, goal, rows, history>>

\* Linux reads the identity by number again.  Windows asks the handle; that it
\* compares the name too, without the parent, refuses more and is left out.
Identified(p) ==
    IF platform = "linux"
    THEN \E q \in OccupantOf(goal.pid) :
            /\ proc[q].life = "running"
            /\ proc[q].look = goal.look
            /\ proc[q].start = goal.start
    ELSE proc[p].start = goal.start

Identify ==
    /\ stage = "opened"
    /\ Identified(target)
    /\ stage' = "identified"
    /\ UNCHANGED <<host, store, goal, rows, target, history>>

CheckActive ==
    /\ stage = "identified"
    /\ ~Exited(target)
    /\ stage' = "active"
    /\ UNCHANGED <<host, store, goal, rows, target, history>>

\* Fault: kill(pid) instead of the descriptor.
SignalNumber ==
    /\ stage = "active"
    /\ \E p \in OccupantOf(goal.pid) :
          signalled' = signalled \cup {Bound(goal, p)}
    /\ stage' = "signalled"
    /\ UNCHANGED <<host, store, goal, rows, target, recorded, confirmed>>

\* A signal reaches a zombie too; Windows refuses to terminate what has exited.
Signal ==
    /\ stage = "active"
    /\ IF platform = "linux" THEN Present(target) ELSE ~Exited(target)
    /\ signalled' = signalled \cup {Bound(goal, target)}
    /\ stage' = "signalled"
    /\ UNCHANGED <<host, store, goal, rows, target, recorded, confirmed>>

\* Fault: the time allowed for the exit runs out and counts as an exit.
ConfirmAfterTimeout ==
    /\ stage = "signalled"
    /\ confirmed' = confirmed \cup {Bound(goal, target)}
    /\ Idle
    /\ UNCHANGED <<host, store, recorded, signalled>>

\* The process exits of the signal or does not; only the descriptor tells.
Confirm ==
    /\ stage = "signalled"
    /\ Exited(target)
    /\ confirmed' = confirmed \cup {Bound(goal, target)}
    /\ Idle
    /\ UNCHANGED <<host, store, recorded, signalled>>

Triage ==
    \/ BeginTriage
    \/ \E r \in rows, p \in Process : RecordProcess(r, p)
    \/ \E r \in rows : SkipProcess(r)

Terminate ==
    \/ \E b \in recorded : Resolve(b.handle)
    \/ \E p \in Process : Open(p)
    \/ Identify
    \/ CheckActive
    \/ Signal
    \/ Confirm

AgentStep ==
    \/ BeginListing
    \/ \E p \in Process : ReadRow(p)
    \/ Triage
    \/ Terminate
    \/ Stop

Next == HostStep \/ Reboot \/ AgentStep

Spec == Init /\ [][Next]_vars

-----------------------------------------------------------------------------

TypeOK ==
    /\ platform \in {"linux", "windows"}
    /\ boot \in Nat \ {0}
    /\ now \in Nat
    /\ proc \in [Process -> Instance]
    /\ store \subseteq Entry
    /\ stage \in Stage
    /\ goal \in Handle \cup {NoHandle}
    /\ rows \subseteq Row
    /\ target \in Process \cup {NoProcess}
    /\ recorded \subseteq Evidence
    /\ signalled \subseteq Evidence
    /\ confirmed \subseteq Evidence

\* A process is only ever signalled for a handle that was returned when this very
\* instance held the number, and never a protected one: whatever happened to the
\* number, the name and the host between the triage and the termination
\* (terminate_evidence_process: "only the signed, revalidated process instance
\* behind a local handle").
OnlyEvidencedIsTerminated ==
    \A s \in signalled : s \in recorded /\ Unprotected(s.handle)

\* A termination is reported as confirmed only of a process that was signalled and
\* has exited: neither a signal sent nor a number that is free again is enough.
SuccessIsExit ==
    \A c \in confirmed : c \in signalled /\ Exited(c.process)

\* The store holds one entry of a handle and no more than its limit, and every
\* entry was returned to a triage as the handle of a process.
StoreIsEarned ==
    /\ \A e, f \in store : e.handle = f.handle => e = f
    /\ Cardinality(store) <= MaxEntries
    /\ \A e \in store : \E b \in recorded : b.handle = e.handle

\* A handle that has not expired leaves the store only for another that is new
\* while the store is full; recording a known handle again displaces none.
HandlesLast ==
    [][\A e \in store :
         (e.expires > now /\ \A f \in store' : f.handle # e.handle)
           => /\ Cardinality(store) = MaxEntries
              /\ \E f \in store' : \A g \in store : g.handle # f.handle]_vars

=============================================================================
