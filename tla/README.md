# QuietWard Response: verification project

TLA+ models of QuietWard Response (`src/backend`, `src/scripts`), the TLC
configurations that check them on small instances, and the TLAPS proofs of
their main theorems.  `PROJECT.json` maps every definition to the lines it was
translated from, and lists hazards, runs, mutants and theorems.

    tlc -workers 2 -config MCRotation.cfg MCActionLifecycle.tla
    tlapm ActionLifecycleProofs.tla

## 1. The system and its parts

QuietWard (external) observes a host and reports security events.  Response is a
FastAPI server on one SQL database that groups the events of a host into
incidents, recommends response actions, lets an analyst request and approve
them, hands them to an agent on the endpoint, records the outcome, and keeps a
recovery workflow and a hash-chained audit log.  Endpoint agents only poll; the
server never calls them.

| Part | State it keeps | Operations | Hard behaviour | What makes it correct |
|---|---|---|---|---|
| Response actions (`services/action_service.py`, `api/actions.py`, `services/policy_service.py`) | `actions`, `approvals` | request, approve, reject, list, poll, post result; void on expiry, closure and revocation | eight writers of two tables; expiry is lazy; revocation races delivery; reports are late or repeated | one live action per target; execution only from an approval that stands; dead actions stay dead |
| Incidents (`incident_service.py`) | status, severity, owner | PATCH | closing races everything in flight | closing leaves nothing that could begin |
| Agents (`api/agents.py`, `agent_auth.py`, `api/capabilities.py`) | credentials, nonces, capabilities | enrol, enable, disable, report, authenticate | replay across the nonce lifetime; revocation | a disabled agent only reconciles; a request is accepted once, unless stamped a whole window ahead |
| Ingestion and correlation (`ingestion.py`, `correlation.py`) | events, hosts, incident events | ingest | duplicate and conflicting deliveries, closed incidents | one incident per accepted event; a repeat changes nothing |
| Recovery workflows (`resolution_service.py`, `api/resolutions.py`) | one case per scope with revision and evidence digests | start, approve, checkpoint, verify, escalate, acknowledge, rebaseline, close | several analysts on stale screens, evidence that arrives under a running workflow | closed means verified by somebody else, on the evidence at hand |
| Audit chain (`audit_service.py`, `main.py`) | rows linked by hashes | append, backfill, verify | equal or backward clocks, restart | the chain verifies; rows are in order |
| Endpoint agent (`scripts/response_agent.py`, `process_containment.py`, `incident_triage_bundle.py`) | ledger file, demo fixture, the host's processes | poll, begin, acknowledge, execute, save, report | crashes and lost messages between any two steps; a full ledger | no effect without authority, no success without effect, no effect twice, everything settles |
| Handoff watcher (`watch_quietward_handoffs.py`, `ingest_quietward_handoff.py`) | inbox, ledger, archive | scan, post, record, archive | crash between the steps, a bad file in front | each handoff is posted and archived, once recorded never re-posted |
| Evidence store (`evidence_store.py`) | handle to process identity | observe, resolve | pid reuse, expiry | a handle never names another process |
| Guidance (`recommendation.py`, `guided_response.py`, `resolution_coverage.py`) | none | pure rules | - | recommendations follow the evidence |
| Request serialisation (`request_serialization.py`) | one lock | hold per HTTP request | - | each handler is atomic |
| Analyst authentication, console, read APIs, configuration, migrations, bootstrap and release scripts | none that the rest relies on | - | - | - |

How they interact: analysts and agents send HTTP requests, which one lock
serialises (`request_serialization.py:11-46`).  A handler that refuses raises,
and its session rolls back.  Incidents and agents reach into the action tables
(closing, disabling); the policy reads agents, capabilities, hosts, incidents
and the results of earlier actions; actions reach the endpoint in the reply to
a poll, and its results come back in requests of their own.

## 2. Modules and plan

| Order | Module | Status | Content |
|---|---|---|---|
| 1 | `ActionContract` | done | what the server promises: stages and exclusive targets |
| 2 | `ActionLifecycle` | done | the server's action side, all handlers; implements `ActionContract` |
| 3 | `ResponseSystem` | done | `ActionLifecycle` composed with the endpoint agents |
| 4 | `ActionLifecycleProofs` | done | theorems about 2 |
| 5 | `Recovery` | done | cases, revisions, evidence digests and the closure gate |
| 5a | `RecoveryProofs` | done | theorems about 5 |
| 6 | `AgentAuth`, `AgentAuthProofs` | done | signed requests, replay window, truncated timestamps, nonces and their expiry |
| 7 | `EventLog` | done | what `POST /api/v1/events` promises its senders: ids keep their content |
| 7a | `Ingestion`, `IngestionProofs` | done | acceptance, correlation, summaries; implements `EventLog` |
| 8 | `HandoffDelivery`, `HandoffProofs` | done | inbox, ledger, archive, crashes; on top of `EventLog` |
| 9 | `AuditChain`, `AuditChainProofs` | done | append, rollback, backfill, verification, an earlier release, a stepping clock |
| 10 | `EvidenceStore`, `EvidenceStoreProofs` | done | handles, numbers used again, restarts; triage and termination step by step |
| 11 | `Guidance`, theorems in `IngestionProofs` | done | recommendations and guidance, on top of 7a |
| 12 | `ResponseSystemProofs` | done | theorems about 3, on top of those about 2 |

How they hang together: `ResponseSystem` extends `ActionLifecycle` with the
endpoints; `Guidance` extends `Ingestion` with what the incident recommends, which
`ActionLifecycle` takes as an arbitrary input; `HandoffDelivery` has `EventLog`, which
`Ingestion` implements, as its server; `EvidenceStore` looks into what `RunTerminate`
and `RunCollect` of `ResponseSystem` do in one step.  `AgentAuth` and `AuditChain` lie
below every request of the server and share nothing with each other.

`MCActionLifecycle`, `MCResponseSystem`, `MCRecovery`, `MCIngestion`,
`MCHandoffDelivery`, `MCServer` and `MCEvidenceStore` hold the definitions the
configurations need (constant functions, symmetry, a sub-behaviour).  All
modules that carry theorems are free of recursive operators.

## 3. `ActionLifecycle`: the server

One action per request handler, because one lock runs them one at a time.  A
refused request leaves the tables as they were, so it has no action: the guard
of each action is the conjunction of the handler's checks.  The exception is
deliberate: the decision on a request that has run out *expires* it
(`decide_action`), and an approval that the policy does not let through
*cancels* it; both are committed.

| Model | Code |
|---|---|
| `actions`, `approvals` | tables `actions` and `approvals`; the foreign key makes the approval a function of the action |
| `incidents` | status and enabled recommendations; the rules that compute the latter are an arbitrary input of `IngestEvent` |
| `agents`, `enabledActions`, `hostOs` | `agents.enabled`, `agent_enabled_actions`, `hosts.os_family` |
| `now` | the server's clock; it may stand still between requests, `MaxTime` bounds it |
| `VoidAll(S, how)` | `_cancel_undispatched_action` and `_expire_action_if_needed` applied to a query |
| `RequestAction` | `create_action` with the checks of `request_action`: what has run out expires first, then the active duplicates are counted |
| `Approve`, `Reject` | `decide_action` |
| `PollPending`, `Delivered` | `pending_actions_for_agent` and the filter for disabled agents |
| `PostResult` | `action_result`: clock window, order of statuses, repeat detection, reconciliation by disabled agents, `apply_action_result` |

The integer clock counts in arbitrary units and 0 stands for NULL.  Ids are drawn
in any order, as random keys are.  `ClockReadings` lets an endpoint's clock be off
by `ClockError` either way, also beyond the tolerated `ReplayWindow`.  A start is read once,
when the intent is saved, and repeated by every retry, so it may lie arbitrarily far
back (`StartReadings`).

Abstracted: result and parameter schemas (a result is the set of process
handles a triage lists, the only part of one that another handler reads),
wording, audit rows, and `escalate`/severity fields.  Several triages in one
bundle are one set of handles.

### Runs

| Run | Instance | Shows |
|---|---|---|
| `rotation` | 2 actions, 2 credentials of a host, 1 incident, clock to 2, lifetimes of 1, endpoint clocks 1 off against a window of 0; ids and agents symmetric | exclusive targets, agreement of the tables, closure and disabling leave nothing startable (`RevokedIsQuiet`), stored times are those of one possible execution, execution starts authorised, history is kept, refinement of `ActionContract` |

Every module has one type invariant.  They are proved (section 9) and only that of the
composed system, `SystemTypeOK`, is an invariant of a run as well.
`ContainmentIsEvidenceBound` needs triage and termination and is checked with the
endpoints, in `system_containment`.

Two actions are enough for every property of pairs; a third adds an action that
behaves like one of them.  Clock bound 2 with lifetime 1 lets a request
expire at any point before it begins and its successor be approved, delivered,
executed and reported; the successor's own expiry would only repeat the first, and
the theorems hold for any bound and lifetime.  The interesting cases (lazy
expiry inside a new request, a closure between delivery and acknowledgement, a
re-enabled agent) all occur: each is what some mutant below is caught on.  A host
keeps its operating system in these instances; the theorems allow any change.

## 4. `ResponseSystem`: server and endpoints

The polling pass of `response_agent.py` is one action per durable step or
request: `Poll`, `Begin` (validate, save the intent), `Acknowledge`, `Execute`,
`Save`, `Report`.  Between any two of them the server may do anything, and the
process may die (`Crash`).  A request may be lost (`Crash`: the agent gets an
error and exits) or handled with its reply lost (`PollUnanswered`, the second
disjunct of `Post`).  Every exception leaves `poll_once` and ends the process;
`install_joint_response_user_services.sh:45-60` has systemd restart it, and all
that survives is `disk`, `fixture` and the host's processes (`gone`).

The ledger is kept as the code keeps it: loaded in the key order of its file,
extended in delivery order, cut to the last `LedgerLimit` entries on each save
(4096 in the code, 1 and 4 here).  `applied` is a history variable that
counts the effects of each action on its endpoint.

`failures` bounds crashes and lost messages.  Endpoint clocks equal the server's
here (clock errors are the business of `ActionLifecycle`), and an
executor is its effect and its outcome: collectors have none, the demo fixture
recognises its last action, a termination kills its process or, when that is
gone already, fails.

| Run | Instance | Shows |
|---|---|---|
| `retry` | 2 fixture actions in turn, 1 failure anywhere, revocation and closure at any time, clock to 2, with fairness | no effect before authority, no success without effect, intent durable, outcomes final and reported as recorded, nothing applied twice; every approval and execution ends |
| `system_containment` | 3 actions, 2 credentials of a host, triage and termination, 1 failure | a termination past the gate is backed by a finished triage of the same incident and agent, for ever; what an endpoint terminates it has itself observed |
| `two_incidents` (violation) | 2 incidents of one host | the fixture action is applied twice, see findings |
| `full_ledger` (violation) | ledger of 1 entry | an execution never settles, see findings |

`CalmSpec` in `MCResponseSystem` keeps the server's side to events, enrolment,
requests and approvals.  Its behaviours are behaviours of `FairSystemSpec`, so
its counterexamples are genuine; what passes under it (`system_containment`) is
shown for these behaviours only, because the full server makes the instance too
large.  Revocation and closure in the composed system are covered by `retry`, terminations
under several incidents and the full server by the theorems of `ResponseSystemProofs`.

### Fairness

`FairSystemSpec` has weak fairness of each agent's `Pass` and nothing else: the
agent's loop is `while True: poll_once(); sleep` (`response_agent.py:538-543`)
and its unit has `Restart=on-failure`, `RestartSec=5`.  Analysts, events, the
clock and failures owe nothing.  Failures are bounded by `MaxFailures`, which
says that they stop eventually: with failures for ever nothing settles.

## 5. `Recovery`: the guided recovery of one incident

Workflows of different incidents share nothing but the audit chain, so the
module has one incident.  Events correlate per host, so its scopes are
categories.

| Model | Code |
|---|---|
| `cases` | rows of `resolution_workflows`, one per scope (`uq_resolution_scope`) |
| `context`, `playbook` of a case; `Fresh` | `context_digest`, `playbook_digest`; `_fresh` compares them with the evidence and the playbook of now |
| `Commit` | `_commit`: one flush, so one revision more |
| `Release` | the server restarts with other playbooks, which may have other checkpoints |
| `screen`, `Read` | what some analyst has read and acts on later |
| `Recovered` | `assert_closure` |
| `PatchStatus`, `CloseVerified` | the two routes to a closed incident |
| `busy`, `ActionsChange` | whether `ActionLifecycle` has active actions for the incident |

A request is refused unless it carries the current revision, so every step on a
case is taken on a current screen.  What makes the revision meaningful is
checked: for any earlier reading, a revision that is still current means an
unchanged case (`RevisionIdentifies`), and the *sum* of the revisions, which is
all a closure sends (`api/resolutions.py:87-91`), means an unchanged catalogue
(`TotalIdentifies`).

Left out: observation times, tickets, notes and deadlines (validated inputs that
no later step reads), "not applicable" outcomes (they leave the same state as
"done"), and the comparison of each row with its audited snapshot, which only
fails when somebody edits the database.

| Run | Instance | Shows |
|---|---|---|
| `recovery` | 2 analysts, 2 artifacts, in two parts: 1 scope of 2 events, 2 routes, playbooks of 1 and 2 checkpoints, revisions to 5; or 2 scopes, playbooks of 1 checkpoint, revisions to 4 | states are earned, revisions identify; closed means recovered in every scope; the sum of revisions identifies |
| `recovery_artifact` (violation) | 1 scope, revisions to 6 | an old baseline is accepted as the new artifact, see findings |

A behaviour of `recovery` is explored within one of its parts (`Within` of `MCRecovery`), which
restricts `Recovery` and adds nothing.  The part of two scopes has one status for
those that are treated alike and endpoint actions only once the cases would let the
incident close; the other part and the theorems have them all.  A case is verified at
revision 4 or 5, so the bounds leave room for a whole
round, and with one scope for a round that was begun again.  Two analysts suffice:
the code compares actors with the owner only.  The bound on revisions stops
behaviours, it hides no refusal: every refused request is a stutter.

## 6. `EventLog`, `Ingestion`, `HandoffDelivery`: from observation to incident

`EventLog` is the contract between the two sides: an id keeps the content it was
first accepted with, a repeat is answered "duplicate", another content
"conflict", and neither changes anything.  `Ingestion` implements it (`LogSpec`);
`HandoffDelivery` has it as its server.

### `Ingestion`

| Model | Code |
|---|---|
| `events`, `incidents`, `hosts` | the tables of these names; absent ids are outside the function's domain |
| `Admitted` | `receive_event`: credential, host binding, future bound; other sensors in development only |
| `Ingest` | `ingest_event` with `correlate_event` and `_refresh_incident`, one transaction |
| `Recent`, `Candidates`, `Selected` | the query with its window and limit, the candidates and their ranking |
| `Join`, `Open`, `Refreshed` | the two outcomes, and the summary recomputed from all events of the incident |
| `UpdateIncident` | `update_incident`; whether a closure is let through is the business of `Recovery`, here it always may be |

A content is the host, time, severity and traits of an event.  A trait pairs one
of the labels of `correlation_reasons` with a normalised value; the reason that
every candidate shares ("same host ...") and the one an incident is opened
with are left out, as they never decide anything.  Events of equal time are cut
by the limit in any order, and new incident ids are any unused ones, as random
keys are.  Other components assume that an incident has one host (`Recovery`'s
scopes are categories; an action takes the incident's host): `SummariesAgree` says
so and is proved.

### `HandoffDelivery`

A step is one request or one change on the disk.  `pass` is the memory of the
process; every refusal resets it to `Resting`, every crash or lost answer to
`Failed`, and what remains is `inbox`, `archive` and `ledger`.  The ledger is saved
cut to `LedgerLimit`, while the pass goes on with all it knows, as in
`_save_ledger`.  Files move by name, so an edition exported after the read is archived unread (`Archive`); pruning goes by
modification time (`Kept`).

Assumed of QuietWard, which is external: the name of a file determines its
events.  It holds the cycle, and cycle and chain hash are bound into every event
(`_document`, `docs/JOINT_QUIETWARD_RESPONSE_UPDATE.md:54-61`); editions differ in
`generated_at`, which is enough for another digest.  Without this assumption the
unread edition above would be lost.  Assumed of the installation: one watcher
per inbox (one unit), and a clock that orders the ledger's entries as they were
saved.  An event dated ahead of the server is refused until the clock catches
up: in this module that is a failed request (`Crash`).

| Run | Instance | Shows |
|---|---|---|
| `ingestion` | 4 events, 5 contents of 2 hosts (a chain of links, one dated ahead, a development sensor), 3 incidents, limit of 2 events | summaries agree with the evidence, incidents are connected by links and explained by reasons of theirs, hosts are never mixed, new evidence never hides in a closed incident, ids keep their content; advice follows the evidence and capabilities stay |
| `handoff` | 3 files of 2, 1 and 1 events with a repeat among them, 2 editions of the last, one of them malformed, 5 exports, a repeat and a conflict from elsewhere, ledger and archive of 1, with fairness | nothing is lost, what is recorded is not posted again, every file that nothing refuses is consumed |

Three events are the fewest in which one can link two others, join after a
closure, or come between; with the fourth, a limit of two makes the query lose a
linked event and still choose between incidents.  A fourth incident is not
opened (the bound of the instance).  A ledger of one entry forgets the first of
two files, and five exports let a file come back, in another edition too, before
and after it was archived.

`FairSpec` has weak fairness of the watcher's own steps (its loop,
`watch_quietward_handoffs.py:322-333`, and `Restart=on-failure` of its unit) and
lets failures end at some time; exports, other senders and failures owe nothing.
A failure leaves the watcher `Failed`, a refusal leaves it `Resting`, so that the
assumption says nothing of refusals: a file that is refused on every pass is a
fair behaviour.  A file counts as obstructed when one at or ahead of its name may
be refused for good, and the run shows that this is the only way to be held up.

### `Guidance`

`recommendations_for`, `quietward_guidance` and `probable_cause_for` are pure, and
`_refresh_incident` runs them over all events of an incident whenever one joins
(`Advise`).  They are operators on a set of events; `GuidedIngest` is `Ingest` with
the new advice, and everything else leaves the advice alone.

| Model | Code |
|---|---|
| `Guiding` | `_metadata` and the checks of the values: what claims executable authority is no guidance |
| `Profiles`, `Foremost`, `Hints` | the profiles of an incident, the one that is shown, the hints of all of them |
| `Listed`, `Recommended` | the rules, and the general advice when there is only one |
| `Enabled(i)` | what `incident_enables_action` lets through |
| `AdviceFollowsEvidence` | the advice is that on the events as they are now, and as if whoever claims authority had said nothing |
| `CapabilitiesStay` | new evidence withdraws no executable recommendation, but the first event of the demo service the host diagnostic and the triage |

A recommendation is its registered action type, or one name for a group of titles
that always come together.  Categories and event types are reduced to the classes
that the rules tell apart.  Profiles of one rank and one time may be shown in
either order, as the query orders by time alone.  `Guidance` is checked in the run
`ingestion`, whose instance gives its contents categories, demo and network markers, and
contexts of two priorities, one of which claims authority.

## 7. `AgentAuth`, `AuditChain`, `EvidenceStore`: what the rest relies on

### `AgentAuth`

A request is what is signed: agent, nonce, route and stamp.  `sent` holds every
request ever signed, and the network may deliver any of them at any time and
any number of times (`Check`).  That nobody signs without the secret and that `uuid4`
and `token_hex` do not repeat for one agent are assumed.

| Model | Code |
|---|---|
| `second`, `fraction` | the clock; the window is compared in whole seconds (`int(time.time())`), the age of a nonce exactly |
| `handling`, `MaxHandling` | a request between the look at the clock (`agent_auth.py:128`) and its commit (`:165`), during which time passes |
| `Accept`, `RefuseRepeat` | deletion of old nonces, insertion, commit; or the unique constraint and the rollback of both |
| `Lead`, `Lag` | how far the clock of a sender may be off |
| `accepted`, `firstAccepted` | history, no state of the code: how often a request was accepted, and in which second first |

Nothing relates the clocks of the senders to the window, since the code does not.
A stamp may be a whole window ahead (`agent_auth.py:129`); it is then timely to the end of
the second two windows later, and the nonce is forgotten within that second (`:150-151`).
So `AcceptedOnce`, what the comment at `:162` says, does not hold (`nonce_reuse`, section 10).
What holds is `OnceUnlessAhead`: a request that is accepted again had a stamp ahead by a
window, less `MaxHandling`, when it was accepted first.  With the window of the code, 300
seconds, and handling in milliseconds, that is the full 300 seconds, or 299 where the second
turns during the check; whatever is less far ahead is single-use.  The server's own clock
is taken to run forwards in this module.

### `AuditChain`

Rows are told apart by id; since a row is written once and never changed but by the
backfill, "the hash of row x" is x, and `hashed` says whether it is there.
Ids are random, so of two rows with one time either may come first.  A
transaction sees its own rows (`pending`); they all go on a rollback or a stop.
`EarlierRelease` appends rows as the release before did, without hashes, whenever
this one is down.  Then `Backfill`, `Verify` and serving or refusing, as `lifespan` does
(`main.py:47-68`).  The clock may step anywhere at any moment.

What holds: the chain served verifies, with the open transaction or without
(`ServedChainIsValid`); refusing takes an earlier release that has written to a hashed
database (`RefusedIsMixed`); nothing hashed is rewritten; rows are appended in the
order of verification.  Rows that somebody alters or deletes are what the chain
is for, but no step of the program, and are left out.

### `EvidenceStore`

The host and the agent interleave: between any two reads of the agent a process may begin,
exit, be collected, take another name or parent, the clock may be set, or
the host restart.  A listing on Windows is one snapshot, on Linux one read per process;
the model lets the host step between any two rows on both, which allows more.

| Model | Code |
|---|---|
| `Handle` | what the keyed hash covers: number, parent and name (`Look`), start time |
| `ReadRow`, `RecordProcess` | the listing reads a process, and later the store reads the start time by number again: the two may be of different processes |
| `Others`, `Evicted`, `Retained` | `_save`: expired entries go, and over the limit the one whose random handle sorts first, since the file is written in key order |
| `Resolve` | `resolve_process`: lifetime, boot, row, start time; then `_protected_reason` |
| `Open`, `Identify`, `CheckActive`, `Signal`, `Confirm` | `_terminate_linux` and `_terminate_windows`, one step per call |
| `Told` | assumed of the host: a start time tells the processes of one number apart, on Linux within a boot, on Windows for good |

`platform` is chosen once.  On Linux the boot is part of the record and start times
repeat over boots; on Windows they are absolute and handles survive a restart,
as the code has it.  Two checks of Windows that refuse more
(`QueryFullProcessImageNameW`, `IsProcessCritical`) are left out, and so is the record's
signature, as nobody but the agent writes the store.  The exit timeout is that
`Confirm` may never come and `Stop` may come instead.

A row and a start time of different processes make a handle that names the later of
them and shows the look of the earlier: it is returned for that process (`recorded`),
and `OnlyEvidencedIsTerminated` says that no third one is ever signalled for it.

| Run | Instance | Shows |
|---|---|---|
| `server` | `AgentAuth`: 2 agents with the same nonce, 2 routes, window 2, clocks ahead by up to 2, handling 1, 2 readings per second, to second 6.  `AuditChain`: 5 rows, clock 0 to 2 | what is accepted again was stamped a window ahead, only repeats are refused, the disabled stay out; the chain that is served verifies |
| `nonce_reuse` (violation) | 1 agent, 1 request, window 2, clock ahead by 2, handling 0, to second 5 | a request stamped a window ahead is accepted again when its nonce has just been forgotten (section 10) |
| `evidence_store` | 2 processes, 2 numbers and looks of which one is protected, 2 start times, 2 boots, lifetime 1, 2 entries, both platforms | what is signalled was observed, what is confirmed has exited, the store keeps its handles |

Six seconds are two windows and two more: a nonce is accepted, forgotten, and its request
tried again, stamped by a whole window ahead, by half of it, or on time.  Five rows
make a chain of an earlier release, a backfill, a transaction of
two rows and one more; a clock of three values steps behind and ahead of them.
Two processes are what a mistake of identity takes; one number may be held by both in
turn, in one boot or two.  The two parts of `server` share no variable, so they are explored one at a
time (`part` of `MCServer`).

## 8. Mutants

A definition whose comment begins with "Fault" is no part of the model.  It is a
variant, as a plausible mistake in the code would make it, of the definition
that follows, and `PROJECT.json` says which property catches it: every property
of every passing run is violated once the variant replaces the original.

## 9. Proofs

`ActionLifecycleProofs` proves, for any number of actions, incidents, agents,
hosts, types and handles, any lifetimes, clock error and clock bound, and from
`ConstantsAssumption` alone:

| Theorem | States |
|---|---|
| `TypeCorrect` | `Spec => []TypeOK` |
| `TargetsAreExclusive` | `Spec => []OneActivePerTarget` |
| `TablesAgree` | `Spec => []ApprovalAgrees` |
| `RevocationIsComplete` | `Spec => []RevokedIsQuiet` |
| `EvidenceStands` | `Spec => []ContainmentIsEvidenceBound` |
| `TimelinesStand` | `Spec => []TimelineConsistent` |
| `StartsAreAuthorised`, `HistoryStands` | the action properties of the same names |
| `ImplementsContract` | `Spec => ContractSpec` |

The argument.  `StepMoves` classifies what any step does to any one action: it
stays, is voided, rejected, approved, dispatched or reported upon, or it is the
one new action.  This is the only lemma that looks into the handlers.  The
inductive invariant `IInv` is the conjunction of the state properties; they need
each other: that dispatched actions have standing approvals needs the agreement
of the tables, evidence stands because terminal rows never change, which needs
the timeline.  Each conjunct has a step lemma of its own over the
classification.  The refinement maps a row to its status (`Stage`), and every
move is an edge of `Successors` or a stutter; `Exclusive'` is `OneActivePerTarget'`.

`ResponseSystemProofs` proves for any number of endpoints and actions, any ledger limit and
any number of crashes and lost messages, from `SystemAssumption` and
`ConstantsAssumption`:

| Theorem | States |
|---|---|
| `SystemTypeCorrect` | `SystemSpec => []SystemTypeOK` |
| `SystemImplementsServer` | `SystemSpec => Spec`, so all of `ActionLifecycleProofs` holds here |
| `EffectsAreAuthorised` | `SystemSpec => []EffectIsAuthorised` |
| `SuccessesAreReal` | `SystemSpec => []SuccessIsReal` |
| `ReportsAreRecorded` | `SystemSpec => []ReportIsRecorded` |
| `RecordsAreReplayed` | `SystemSpec => RecordedIsNotRerun` |
| `TerminationsAreSingle` | `SystemSpec => [](GoneSound /\ KillsSound)`: what is terminated was listed, and is terminated by one action, once |
| `IntentsAreDurable` | `SystemSpec => [](LedgersHold => IntentIsDurable)` |
| `TerminationsWereObserved` | `SystemSpec => [](LedgersHold => TerminatedWasObserved)` |
| `AppliedOnce` | `SystemSpec /\ []DemosAlone => []AppliedAtMostOnce` |
| `AppliedOnceApart` | `SystemSpec => []AppliedAtMostOnce` where no two incidents share a host (`IncidentsApart`) |

The argument.  The inductive invariant `SInv` follows the path of an action.
`BatchSound`: an item of the batch has begun, for the server, exactly if it was delivered so or
is the current one past its acknowledgement; together with `Numbered`, which makes the current one
unique, this is why effects are authorised.  `PassSound` says what the memory holds at each
step of the pass, `FilesAgree` that the file is a part of the memory, up to
the one outcome between `Execute` and `Save`, and `LedgerSound` that both
agree with the server's row and claim no effect that there was not.  The row and the
entry are written by different processes and must agree at every moment in between,
not only when a report arrives: hence the conjunct on the start, which is read once.
`FixtureSound`, `GoneSound` and `KillsSound` tie the endpoint to its history.
`GovernedRows` sums up what the server may do to an action behind the agent's back, and
`Elsewhere` that agents do not touch each other's files, so each action of the
pass has one lemma about its own agent.  That reports are among those the
server's model expects (`PostedReports`) gives the refinement, and with it everything
proved about the server, `IInv` included.

The conditions.  `LedgersHold` says that no endpoint was given more actions than its ledger keeps
(4096); beyond it `_save_ledger` forgets, and the run `full_ledger` is what follows.  Of the
clauses on forgetting only `Remembers` and `Retained` need it.  `DemosAlone` says that no
endpoint executes two fixture actions at a time; the fixture remembers one, and the run
`two_incidents` is what follows otherwise.  `create_action` guarantees it
for one incident at a time (`TargetsAreExclusive`), hence `AppliedOnceApart`.  The initial
state meets both, and so does every behaviour of the runs `retry` and `system_containment`.

`RecoveryProofs` proves for any analysts, events, categories, families, playbook
versions and artifacts, from `RecoveryAssumption`:

| Theorem | States |
|---|---|
| `TypeCorrect` | `Spec => []TypeOK` |
| `StatesAreEarned` | `Spec => []StateIsEarned` |
| `ClosureIsRecovery` | `Spec => []ClosedIsRecovered` |
| `RevisionsIdentify` | `Spec => []RevisionIdentifies` |
| `TotalsIdentify` | `Spec => []TotalIdentifies` |

The argument.  `CaseSteps` shows that any step on a scope writes at most one
case, a sound one under its next revision (`Forward`), and only while the incident
is open.  So a closed incident is frozen, and what was read is behind what is
there (`ScreenBehind`, the strengthening) or exactly that.  `Total` is a fold, that is, a
function chosen by its recursive equation.  `TallyExists` shows that a finite set
has one, by the smallest size at which there were none, and `TotalCounts` that its
value is the number of pairs of a case and a revision it has been through (`Passed`).  What was
read has been through a part of those; as many only if all, and every case that was
started has at least one (`Counted`), so equal totals mean an equal catalogue.

`IngestionProofs` proves for any hosts, contents, window and limit, from
`IngestionAssumption`:

| Theorem | States |
|---|---|
| `TypeCorrect` | `Spec => []TypeOK` |
| `SummariesStand` | `Spec => []SummariesAgree` |
| `ReasonsStand` | `Spec => []IncidentsAreExplained` |
| `EvidenceSurfaces` | `Spec => NewEvidenceSurfaces` |
| `ImplementsLog` | `Spec => LogSpec` |

The argument.  `SelectedIsCandidate` shows that the ranking is total on the
finitely many candidates, so the joined incident is actionable and linked to the
new event; opening one is the other case, and both are a `Placing`.  The
invariant adds only that finitely many events are accepted, which gives the
minima and maxima of the summaries.  That an incident stays connected follows
because a set that splits the larger incident either splits the smaller one or
separates the new event from one it is linked to.

`HandoffProofs` proves for any files, editions, other senders and limits, from
`HandoffAssumption`:

| Theorem | States |
|---|---|
| `TypeCorrect` | `Spec => []TypeOK` |
| `NothingLost` | `Spec => []NothingIsLost` |
| `RecordedStays` | `Spec => []RecordedIsNotPosted` |

The argument.  The strengthening follows the file at hand: the first `sent` of its
events are on the server, the files in the pass's book are delivered, and the book
holds at least what the saved ledger holds (`PassSound`).  Accepted events never
change, so what is delivered stays so.

`AgentAuthProofs` proves from `AuthAssumption`, which only types the constants, for any
agents, nonces, routes, window, clock errors and handling time:

| Theorem | States |
|---|---|
| `TypeCorrect` | `Spec => []TypeOK` |
| `RepeatsWereAhead` | `Spec => []OnceUnlessAhead` |
| `RepeatsAreRecognised` | `Spec => []OnlyRepeatsAreRefused` |
| `DisabledAgentsStayOut` | `Spec => DisabledStaysOut` |

The argument.  An accepted request is `Guarded`: a row no older than its first acceptance
remembers its nonce, or its stamp is out of the window and it is not at hand, or it was
stamped a window ahead.  A row is deleted after two windows, by which time the second or
the third holds: this is where whole seconds and exact time meet.

`AuditChainProofs` proves from `AuditAssumption`, for any number of rows and any clock:

| Theorem | States |
|---|---|
| `TypeCorrect` | `ChainSpec => []ChainTypeOK` |
| `ChainStands` | `ChainSpec => []ServedChainIsValid` |
| `RefusalsAreEarned` | `ChainSpec => []RefusedIsMixed` |
| `HashedRowsStay`, `RowsAreAppended` | the action properties `HashedStays` and `AppendedAtTheEnd` |

The argument.  The order is total on a table, and a finite table has one `Last` row.
A row stamped behind the last is the new last and leaves what is `Earlier` than the others
unchanged, so a valid chain stays valid; a linked legacy table is valid.  The strengthening: a
database that is hashed as a whole is valid, whatever the server does, and pending rows
are behind committed ones.

`EvidenceStoreProofs` proves from `StoreAssumption`, for any processes, numbers, looks,
start times, boots, lifetime and limit:

| Theorem | States |
|---|---|
| `TypeCorrect` | `Spec => []TypeOK` |
| `TerminationIsEvidenced` | `Spec => []OnlyEvidencedIsTerminated` |
| `ConfirmationIsExit` | `Spec => []SuccessIsExit` |
| `StoreStaysEarned` | `Spec => []StoreIsEarned` |
| `HandlesStay` | `Spec => HandlesLast` |

The argument.  Every step of the host moves a process onward and never back (`Onward`).
A goal is backed by a process recorded in the boot at hand; once the descriptor
is open (`Held`), every process recorded for the goal is the held one or gone, as a number has
one occupant.  The second reading of the identity finds somebody with the goal's
number and start time present, who by `Apart` is the recorded process, so it is the held one.  From
then on only the descriptor counts (`TargetStands`).

For `Guidance` the same module proves from `IngestionAssumption` and
`GuidanceAssumption`, for any contents and what they show:

| Theorem | States |
|---|---|
| `GuidanceImplementsIngestion` | `GuidedSpec => Spec`, so all of `IngestionProofs` holds here |
| `AdviceIsOfTheEvidence` | `GuidedSpec => []AdviceFollowsEvidence` |
| `CapabilitiesAreKept` | `GuidedSpec => CapabilitiesStay` |

The argument.  The rules are monotone in the evidence but for the demo service
and ignore what claims authority; an incident's events only grow, and the advice
is always that on all of them.

Model-checked only: `ExecutionSettles`, `ApprovalSettles` and `FilesAreConsumed`, as
liveness under fairness is out of the prover's reach.  `AppliedAtMostOnce`,
`IntentIsDurable` and `TerminatedWasObserved` are proved under the conditions named
above, which the instances of their runs meet, and which the code needs.

## 10. Findings

1. `two_incidents`: the demo fixture knows only the last action that restarted
   it (`response_agent.py:340`).  With the same type in flight under two
   incidents of a host, a crash after the first effect lets the other action
   run in between, and the retry applies the first again.
   `docs/threat-model.md:77` and `docs/architecture.md:92` say it is reconciled.
2. `full_ledger`: `_save_ledger` evicts by position (`response_agent.py:267`), also
   entries that are executing.  The redelivered action is then refused on every
   pass (`:330`), with those behind it.  `protocol/README.md:138` promises that
   an interrupted execution can be reconciled.

3. `recovery_artifact`: `verify` knows the artifacts of the present round only
   (`resolution_service.py:230`), and planning again drops the earlier ones.  The
   baseline of the first round, taken before the recovery, is then accepted as
   the "new post-recovery evidence artifact" of `:232` and
   `docs/GUIDED_RECOVERY_WORKFLOWS.md:11`.

4. `nonce_reuse`: a stamp a whole window ahead is accepted, as `agent_auth.py:129` compares
   whole seconds with `>`, and is timely to the end of the second two windows later.
   In that second the nonce grows older than two windows and is deleted (`:150-151`), and
   the same request is accepted again.  The comment at `:162-164` says a valid nonce is
   single-use, `protocol/README.md:50` that it remains consumed.

## 11. Not modelled, and why

Analyst authentication is a stateless check; the console and the read APIs keep
no state; migrations run before the server serves; bootstrap, verification and
release scripts are operator tools around the program; the tables of playbooks and coverage of the
recovery workflows are fixed data, constants of `Recovery`; the socket and host
collectors and the validation of handoff documents have no state and no effect: a collector
succeeds or fails, a document is malformed or not.  Hashes, signatures and keys are taken to be
what they are meant to be.

Three hazards have no property: the severity an analyst has set is overwritten by
the next event, a case cannot be passed on by its owner's colleagues, and a termination may be
recommended where the triage that it needs is not.  The models do what the code
does; nothing says what it should do instead (`PROJECT.json`, hazards).
