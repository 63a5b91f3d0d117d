---------------------------- MODULE ResponseSystem ----------------------------
(***************************************************************************)
(* The server of ActionLifecycle composed with the endpoint agents         *)
(* (scripts/response_agent.py) that poll it.                               *)
(*                                                                         *)
(* An endpoint keeps two files, its ledger and the demo fixture, each      *)
(* replaced atomically.  Everything else dies with its process, and every  *)
(* error ends the process: a refused or lost request, a lost reply, a      *)
(* delivered action it will not take, a crash.  The service manager starts *)
(* it again, and it polls.                                                 *)
(***************************************************************************)
EXTENDS ActionLifecycle

CONSTANTS
    Demo,           \* restart_quietward_demo_service, the fixture action
    LedgerLimit,    \* 4096 in the code
    MaxFailures     \* bound of the crashes and lost messages of a behaviour

ASSUME SystemAssumption ==
    /\ ActionId \subseteq Nat \ {0}   \* text in the code; only the order matters
    /\ Demo \notin {Triage, Terminate}
    /\ LedgerLimit \in Nat \ {0}
    /\ MaxFailures \in Nat

VARIABLES
    disk,       \* the ledger file of each agent
    memory,     \* the ledger as this pass has read and changed it
    fresh,      \* the entries of memory that this pass has added
    batch,      \* the delivered actions this pass has still to process
    step,       \* what the pass does next with the first of them
    fixture,    \* last_action_id in each demo fixture, 0 if none
    gone,       \* the processes that were terminated, by handle
    applied,    \* history: how often each action has changed its endpoint
    failures    \* crashes and lost messages so far

volatile == <<memory, fresh, batch, step>>
durable == <<disk, fixture, gone, applied>>
endpointVars == <<volatile, durable, failures>>
systemVars == <<vars, endpointVars>>

NoAction == 0
Step == {"idle", "begin", "ack", "execute", "save", "report"}
Entry == [status : {"executing"} \cup Terminal, startedAt : Nat, result : SUBSET Handle]
IsLedger(l) == DOMAIN l \subseteq ActionId /\ l \in [DOMAIN l -> Entry]
Item == [id : ActionId, status : {"dispatching", "executing"}]

EmptyLedger == [a \in {} |-> <<>>]

SystemTypeOK ==
    /\ TypeOK
    /\ DOMAIN disk = Agent /\ DOMAIN memory = Agent
    /\ \A g \in Agent : IsLedger(disk[g]) /\ IsLedger(memory[g])
    /\ fresh \in [Agent -> SUBSET ActionId]
    /\ batch \in [Agent -> SUBSET Item]
    /\ step \in [Agent -> Step]
    /\ fixture \in [Agent -> ActionId \cup {NoAction}]
    /\ gone \in [Agent -> SUBSET Handle]
    /\ applied \in [ActionId -> Nat]
    /\ failures \in Nat

SystemInit ==
    /\ Init
    /\ disk = [g \in Agent |-> EmptyLedger]
    /\ memory = [g \in Agent |-> EmptyLedger]
    /\ fresh = [g \in Agent |-> {}]
    /\ batch = [g \in Agent |-> {}]
    /\ step = [g \in Agent |-> "idle"]
    /\ fixture = [g \in Agent |-> NoAction]
    /\ gone = [g \in Agent |-> {}]
    /\ applied = [a \in ActionId |-> 0]
    /\ failures = 0

-----------------------------------------------------------------------------
(* The ledger *)

Holds(ledger, a) == a \in DOMAIN ledger
Finished(ledger, a) == Holds(ledger, a) /\ ledger[a].status \in Terminal

With(ledger, a, entry) ==
    [b \in DOMAIN ledger \cup {a} |-> IF b = a THEN entry ELSE ledger[b]]

\* The order of the dictionary in memory: what was read from the file, which
\* is written with sorted keys, then what this pass has added.
Before(g, a, b) ==
    IF a \in fresh'[g] THEN b \in fresh'[g] /\ actions[a].requested < actions[b].requested
    ELSE b \in fresh'[g] \/ a < b

\* Fault: the ledger file only holds outcomes.
SaveOutcomes(g) ==
    LET kept == {a \in DOMAIN memory'[g] : Finished(memory'[g], a)}
    IN  disk' = [disk EXCEPT ![g] = [a \in kept |-> memory'[g][a]]]

\* Saving keeps the last LedgerLimit entries of memory, in that order.
SaveLedger(g) ==
    LET kept == {a \in DOMAIN memory'[g] :
                    Cardinality({b \in DOMAIN memory'[g] : Before(g, a, b)}) < LedgerLimit}
    IN  disk' = [disk EXCEPT ![g] = [a \in kept |-> memory'[g][a]]]

-----------------------------------------------------------------------------
(* One polling pass *)

\* The first action of the batch: replies are ordered by requested_at.
IsFirst(g, x) ==
    x \in batch[g] /\ \A y \in batch[g] : actions[x.id].requested <= actions[y.id].requested

\* The process ends and its memory with it.
Exit(g) ==
    /\ memory' = [memory EXCEPT ![g] = EmptyLedger]
    /\ fresh' = [fresh EXCEPT ![g] = {}]
    /\ batch' = [batch EXCEPT ![g] = {}]
    /\ step' = [step EXCEPT ![g] = "idle"]

GoTo(g, s) == step' = [step EXCEPT ![g] = s]

Fail == failures < MaxFailures /\ failures' = failures + 1

\* A crash at any point of the pass, or a request that never reaches the server.
Crash(g) ==
    /\ step[g] # "idle"
    /\ Fail
    /\ Exit(g)
    /\ UNCHANGED <<vars, durable>>

Poll(g) ==
    /\ step[g] = "idle"
    /\ PollPending(g)
    /\ memory' = [memory EXCEPT ![g] = disk[g]]
    /\ fresh' = [fresh EXCEPT ![g] = {}]
    /\ batch' = [batch EXCEPT
          ![g] = {[id |-> a, status |-> actions'[a].status] : a \in Delivered(g)'}]
    /\ GoTo(g, IF batch'[g] = {} THEN "idle" ELSE "begin")
    /\ UNCHANGED <<durable, failures>>

\* The server handles the poll and the reply is lost.
PollUnanswered(g) ==
    /\ step[g] = "idle"
    /\ PollPending(g)
    /\ Fail
    /\ UNCHANGED <<volatile, durable>>

\* An action whose execution the server knows of and the ledger does not, or
\* one that ran out on the way, raises out of the pass.
Unacceptable(g, x) ==
    /\ ~Holds(memory[g], x.id)
    /\ x.status = "executing" \/ actions[x.id].expiresAt <= now

\* Fault: a redelivered action is run, whatever the ledger says.
BeginAgain(g, x) ==
    /\ step[g] = "begin"
    /\ IF Unacceptable(g, x)
       THEN Exit(g) /\ UNCHANGED disk
       ELSE IF ~Holds(memory[g], x.id)
       THEN /\ memory' = [memory EXCEPT ![g] = With(@, x.id,
                  [status |-> "executing", startedAt |-> now, result |-> {}])]
            /\ fresh' = [fresh EXCEPT ![g] = @ \cup {x.id}]
            /\ SaveLedger(g)
            /\ GoTo(g, "ack")
            /\ UNCHANGED batch
       ELSE /\ GoTo(g, IF x.status = "dispatching" THEN "ack" ELSE "execute")
            /\ UNCHANGED <<memory, fresh, batch, disk>>
    /\ UNCHANGED <<vars, fixture, gone, applied, failures>>

Begin(g, x) ==
    /\ step[g] = "begin"
    /\ IF Unacceptable(g, x)
       THEN Exit(g) /\ UNCHANGED disk
       ELSE IF ~Holds(memory[g], x.id)
       THEN \* the intent is durable before anything else happens
            /\ memory' = [memory EXCEPT ![g] = With(@, x.id,
                  [status |-> "executing", startedAt |-> now, result |-> {}])]
            /\ fresh' = [fresh EXCEPT ![g] = @ \cup {x.id}]
            /\ SaveLedger(g)
            /\ GoTo(g, "ack")
            /\ UNCHANGED batch
       ELSE /\ GoTo(g, IF x.status = "dispatching" THEN "ack"
                       ELSE IF Finished(memory[g], x.id) THEN "report" ELSE "execute")
            /\ UNCHANGED <<memory, fresh, batch, disk>>
    /\ UNCHANGED <<vars, fixture, gone, applied, failures>>

\* Fault: the answer to a report is not looked at.
PostBlindly(g, x, p, Continue) ==
    \/ ResultAccepted(g, x.id, p) /\ PostResult(g, x.id, p) /\ Continue /\ UNCHANGED failures
    \/ ResultAccepted(g, x.id, p) /\ PostResult(g, x.id, p) /\ Exit(g) /\ Fail
    \/ ~ResultAccepted(g, x.id, p) /\ UNCHANGED <<vars, failures>> /\ Continue

\* Post a result; a refusal and a lost reply end the process alike.
Post(g, x, p, Continue) ==
    \/ ResultAccepted(g, x.id, p) /\ PostResult(g, x.id, p) /\ Continue /\ UNCHANGED failures
    \/ ResultAccepted(g, x.id, p) /\ PostResult(g, x.id, p) /\ Exit(g) /\ Fail
    \/ ~ResultAccepted(g, x.id, p) /\ UNCHANGED <<vars, failures>> /\ Exit(g)

Acknowledge(g, x) ==
    LET p == [status |-> "executing", startedAt |-> memory[g][x.id].startedAt,
              completedAt |-> NoTime, result |-> {}]
        Continue == /\ GoTo(g, IF Finished(memory[g], x.id) THEN "report" ELSE "execute")
                    /\ UNCHANGED <<memory, fresh, batch>>
    IN  /\ step[g] = "ack"
        /\ Post(g, x, p, Continue)
        /\ UNCHANGED durable

\* Fault: the ledger has a third outcome.
OutcomeOrError(g, x, status, result) ==
    memory' = [memory EXCEPT ![g] = With(@, x.id,
        [status |-> IF status = "failed" THEN "error" ELSE status,
         startedAt |-> @[x.id].startedAt, result |-> result])]

\* Fault: the start is taken again when the action has run.
OutcomeRestamped(g, x, status, result) ==
    memory' = [memory EXCEPT ![g] = With(@, x.id,
        [status |-> status, startedAt |-> now, result |-> result])]

\* What running the action does to the endpoint, and the entry it leaves in
\* memory.  Any executor may raise before it has an effect, and a termination
\* also after it: the signal is sent and the exit comes too late to confirm.
Outcome(g, x, status, result) ==
    memory' = [memory EXCEPT ![g] = With(@, x.id,
        [status |-> status, startedAt |-> @[x.id].startedAt, result |-> result])]

Apply(a) == applied' = [applied EXCEPT ![a] = @ + 1]

\* Fault: a fixture that some action has restarted needs no restart.
RunDemoOnce(g, x) ==
    /\ actions[x.id].type = Demo
    /\ IF fixture[g] # NoAction THEN UNCHANGED applied ELSE Apply(x.id)
    /\ fixture' = [fixture EXCEPT ![g] = x.id]
    /\ Outcome(g, x, "succeeded", {})
    /\ UNCHANGED gone

\* Fault: the fixture does not remember who restarted it.
RunDemoAgain(g, x) ==
    /\ actions[x.id].type = Demo
    /\ Apply(x.id)
    /\ fixture' = [fixture EXCEPT ![g] = x.id]
    /\ Outcome(g, x, "succeeded", {})
    /\ UNCHANGED gone

RunDemo(g, x) ==
    /\ actions[x.id].type = Demo
    /\ IF fixture[g] = x.id THEN UNCHANGED applied ELSE Apply(x.id)
    /\ fixture' = [fixture EXCEPT ![g] = x.id]
    /\ Outcome(g, x, "succeeded", {})
    /\ UNCHANGED gone

RunTerminate(g, x) ==
    /\ actions[x.id].type = Terminate
    /\ actions[x.id].handle \notin gone[g]
    /\ gone' = [gone EXCEPT ![g] = @ \cup {actions[x.id].handle}]
    /\ Apply(x.id)
    /\ \E status \in Terminal : Outcome(g, x, status, {})
    /\ UNCHANGED fixture

RunCollect(g, x) ==
    /\ actions[x.id].type \notin {Demo, Terminate}
    /\ \E handles \in SUBSET Handle :
          /\ actions[x.id].type # Triage => handles = {}
          /\ Outcome(g, x, "succeeded", handles)
    /\ UNCHANGED <<fixture, gone, applied>>

RunFails(g, x) ==
    /\ Outcome(g, x, "failed", {})
    /\ UNCHANGED <<fixture, gone, applied>>

Execute(g, x) ==
    /\ step[g] = "execute"
    /\ RunDemo(g, x) \/ RunTerminate(g, x) \/ RunCollect(g, x) \/ RunFails(g, x)
    /\ GoTo(g, "save")
    /\ UNCHANGED <<vars, fresh, batch, disk, failures>>

Save(g) ==
    /\ step[g] = "save"
    /\ UNCHANGED <<memory, fresh, batch>>
    /\ SaveLedger(g)
    /\ GoTo(g, "report")
    /\ UNCHANGED <<vars, fixture, gone, applied, failures>>

Report(g, x) ==
    LET entry == memory[g][x.id]
        p == [status |-> entry.status, startedAt |-> entry.startedAt,
              completedAt |-> now, result |-> entry.result]
        Continue == /\ batch' = [batch EXCEPT ![g] = @ \ {x}]
                    /\ GoTo(g, IF batch'[g] = {} THEN "idle" ELSE "begin")
                    /\ UNCHANGED <<memory, fresh>>
    IN  /\ step[g] = "report"
        /\ Post(g, x, p, Continue)
        /\ UNCHANGED durable

-----------------------------------------------------------------------------

Process(g, x) ==
    /\ IsFirst(g, x)
    /\ Begin(g, x) \/ Acknowledge(g, x) \/ Execute(g, x) \/ Save(g) \/ Report(g, x)

Pass(g) == Poll(g) \/ \E x \in batch[g] : Process(g, x)

ServerNext == (AnalystNext \/ EnvironmentNext) /\ UNCHANGED endpointVars

SystemNext ==
    \/ ServerNext
    \/ \E g \in Agent : Pass(g) \/ PollUnanswered(g) \/ Crash(g)

SystemSpec == SystemInit /\ [][SystemNext]_systemVars

\* The agent loops for ever and is restarted when it ends.  Nothing else is
\* fair: analysts, events and the clock owe the system nothing.
FairSystemSpec == SystemSpec /\ \A g \in Agent : WF_systemVars(Pass(g))

-----------------------------------------------------------------------------
(* Properties *)

\* No endpoint changes anything on behalf of an action the server could still
\* cancel, expire or has already given up: the acknowledgement comes first.
EffectIsAuthorised ==
    \A a \in ActionId : applied[a] > 0 =>
        a \in Ids /\ actions[a].status \in {"executing"} \cup Terminal

\* A success the server shows has happened on the endpoint.
SuccessIsReal ==
    \A a \in Ids :
        actions[a].status = "succeeded" /\ actions[a].type \in {Demo, Terminate}
        => applied[a] > 0

\* A process that an endpoint terminated was listed by a triage of that same
\* endpoint, under another credential of the host neither more nor less.
TerminatedWasObserved ==
    \A g \in Agent : \A h \in gone[g] :
        \E b \in Ids : /\ actions[b].agent = g
                       /\ actions[b].type = Triage
                       /\ Finished(disk[g], b)
                       /\ h \in disk[g][b].result

\* Outcome and start that the server shows are those in the endpoint's ledger,
\* whichever report of whichever retry came through.
ReportIsRecorded ==
    \A g \in Agent : \A a \in DOMAIN disk[g] :
        /\ actions[a].status \in Terminal =>
               /\ disk[g][a].status = actions[a].status
               /\ disk[g][a].result = actions[a].result
        /\ actions[a].startedAt # NoTime => disk[g][a].startedAt = actions[a].startedAt

\* Before an endpoint changes, the intent to do so is on its disk.
IntentIsDurable ==
    \A a \in Ids : applied[a] > 0 => Holds(disk[actions[a].agent], a)

\* An outcome in the ledger is final: a repeated delivery replays it, and neither
\* runs the action again nor replaces what was recorded.
NotRerun(g, a) ==
    Finished(disk[g], a) => /\ applied'[a] = applied[a]
                            /\ Holds(disk'[g], a) => disk'[g][a] = disk[g][a]

RecordedIsNotRerun ==
    [][\A g \in Agent : \A a \in DOMAIN disk[g] : NotRerun(g, a)]_systemVars

\* Repeated delivery reconciles an action rather than applying it twice.
AppliedAtMostOnce == \A a \in ActionId : applied[a] <= 1

Has(a, statuses) == a \in Ids /\ actions[a].status \in statuses

\* An execution that began is eventually reconciled with the server, across
\* crashes, lost messages, revocation of the agent and closure of the incident.
ExecutionSettles ==
    \A a \in ActionId : Has(a, {"executing"}) ~> Has(a, Terminal)

\* An approved action is never left waiting: it is begun or given up.
ApprovalSettles ==
    \A a \in ActionId : Has(a, {"approved", "dispatching"})
                            ~> ~Has(a, {"approved", "dispatching"})
=============================================================================
