# The Yuki runtime in TLA+

Yuki is a conversational agent that keeps its tasks ("Works") in SQLite, runs
them in activations that may be cancelled or die at any await, and resumes them
later. This directory specifies the part of it whose correctness no unit test
reaches: who may write, what happens to a tool call, a message or a delegated
operation that was interrupted, who owns the messages of a task while it
settles, and how the parts that start work on their own (schedules, plugins,
children) keep their receipts true.

All source paths below are relative to `src/src/yuki/`, except
`packages/yuki-agent-connector`.

## 1. Inventory

| component | state | operations | interacts with |
|---|---|---|---|
| Conversation lease, `runtime/work_repository.py`, `runtime/lease_heartbeat.py`, `runtime/work_activation.py` | row of `runtime_work_scopes` (generation, epoch, fence, owner, lease_until); heartbeat task | acquire, renew, expiry, release, `_assert_lease` in every mutation, `cancel_in_session`, generation bump, purge | every writer of the Work runtime |
| Work repository | `runtime_work`, `_inputs`, `_effects`, `_budgets` | accept, derive, checkpoint, `commit_state`, `enqueue`, `prepare_input`, `discard_input`, `prepare_effect`, `admit_dispatch`, `record_effect`, `resolve_run_effects`, `route_child_completion` | all |
| Invocation service, `services/invocation_service.py` | a call's control state | `invoke`: T1 intent, T2 dispatch, the tool, T3 receipt | repository, code mode |
| Settlement and recovery, `runtime/work_supervisor.py` | an activation's outcome | `settle`, `recover_failure` | repository, control |
| Work control, `runtime/work_control.py` | an activation's copy of its row, the accepted decision | take and confirm inputs, accept, wait, cancel_wait, update, handoff, retire | tools, repository |
| Waits, `runtime/work_wait.py` | `runtime_work_waits` | register, cancel, match an event, poll, external questions | Work state, mailbox, plugins |
| Management, `runtime/work_management.py` | - | cancel, fail, resume by the operator | Work state, children |
| Turn loop, `services/turn_execution.py`, `services/agent_runner.py` | loop position, ending | restore, admit, request, tool batch, close | control, journal, invocation |
| Orphan recovery, `services/work_resume.py` | - | adopt a running Work without owner | supervisor |
| Journal and session, `runtime/work_journal.py`, `runtime/work_session.py` | phases of a request, the transcript | dispatched, response, paired; restore | turn loop |
| Scheduler, `runtime/work_scheduler.py` | activations in flight, round-robin cursor | scan, start, close | resume, waits |
| SQLite writer, `persistence/database.py`, `persistence/commit_hints.py` | writer lock, open transaction, cleanup, hint queues | begin immediate, commit, rollback, cancellation, close, publish | all, client streams |
| Subagents, `runtime/subagent_*.py`, `services/subagent_execution.py` | child Works, worker leases, results, questions | start, message, resume, stop, execute, publish, repair, archive | parent Work |
| Automation, `automation/` | `automations`, `automation_runs`, claims | claim, create run, finish, pause, resume, re-time, run now, settle interrupted | Works |
| Plugin notifications, `plugin_host/notification_*.py` | external events, outbox, grants | publish, prepare, claim, send, record, retry, revoke | gateways, ledger, waits |
| Plugin background turns, `plugin_host/background_turns.py` | jobs bound to Works | claim, admit, resume, defer, retire | Works, scheduler |
| Social delivery, `social/`, `emoji/delivery.py` | operations, delivery rows, illustration intents | plan, claim, dispatch, settle, recover | gateways, Works |
| External agents, `external_agents/`, `packages/yuki-agent-connector` | operation receipts on the server, the connector's journal and events | queue, cancel, detach, get, retire, replay, acknowledge | Works, the device |
| Code mode, `codemode/` | VM snapshot, child calls | publish, dispatch, settle, resume | invocation |
| Sandbox, `sandbox/` | runs, continuation receipts | start, finish, route | Work mailbox |
| Conversation, identity, people | ledger, canonical generation | admit, bump, purge | lease |
| Model runtime, memory, client API, administration, gateways, prompting | pools, indexes, job queues, views | requests, retrieval, forms | - |

`PROJECT.json` lists every component with its status.

What is hard here, and what each part must therefore promise:

* *Lease.* Lease expiry is compared in SQL time, the heartbeat trusts a local
  clock sample, transactions queue behind one writer, a purge deletes the row
  that holds the fence. Promise: one believer at a time, tokens never reused,
  a write is committed only by the holder, an abandoned lease is reclaimed.
* *Effects.* A tool is neither rolled back nor repeated: the intent, the
  marker and the receipt are three transactions with cancellation, crash and
  lease loss in between, and calls share a budget. Promise: at most one
  execution, exact budget, receipts that are true and final.
* *Work lifecycle.* The activation reads the mailbox, its decision and its
  owned executions, then commits an ending in another transaction, while
  messages, completions, wait signals and the operator write too. Promise:
  nobody waits in front of a prepared message, failure answers nothing, a
  completed Work left nothing behind, what is over stays over, a prepared
  message is eventually shown to the model.
* *Writer.* A caller may be cancelled at every await of a transaction, the
  driver's thread finishes all the same, a commit may fail after SQLite took it.
  Promise: one open transaction, and an exception that tells whether the write
  is durable, so that a retry never applies it twice.
* *Scheduler.* A scan awaits two queries while tasks end and `close` begins.
  Promise: one task per scope, no more than the limit, nothing left behind, no
  scope starved.
* *Journal.* An activation may die between the dispatch of a paid request, the
  response and the pairing of its tool calls. Promise: no later request forgets
  a message or an effect, and no provider answers twice the same question.
* *Waits.* Three writers decide on bindings they read earlier. Promise: evidence
  is true when written and complete, a satisfied wait is delivered once, a due
  one is resolved.
* *Automation.* A claim lapses while its holder goes on, and the owner edits the
  task in between. Promise: a run is admitted under the definition then in
  force, counted once, settled with its Work.
* *Plugins.* A send whose outcome is unknown, an acknowledgement that is lost, a
  target revoked meanwhile; one Work with two executors. Promise: a part reaches
  the platform once, receipts agree with the ledger, a job ends with its Work.
* *Children.* A result is read, then published, while the parent resumes,
  messages or stops the child. Promise: results reported in order and once, no
  message stranded, ends that stay.
* *Delivery.* The process dies, or the answer is lost, between the claim of a
  part and its receipt, while the same call is repeated; the agent's turn ends,
  fails or goes on while the connector restarts, recovers or is asked. Promise:
  nothing is sent twice, and the receipts on both sides say what happened.

## 2. Modules

| module | models | depends on |
|---|---|---|
| `FencedLease` | abstract: holder, retired holders, last writer | - |
| `WorkLease` | scope row, writer transaction, heartbeat, activation bracket, boundaries | instantiates `FencedLease` |
| `EffectReceipts` | effect rows, budget, `invoke` under several activations | assumes what `WorkLease` shows |
| `WorkLifecycle` | row, mailbox, waits, run, turn loop, settlement, recovery of one Work | assumes what `WorkLease` shows |
| `DatabaseWriter` | frames of `immediate_session`, the driver, verdicts, retries, hints and client streams | - |
| `WorkScheduler` | scan, cursor, tasks per scope, start and close | assumes what `WorkLease` shows |
| `WorkJournal` | phases of the journal row, restoring, inputs and calls of a stored response | assumes what `EffectReceipts` shows |
| `WorkWait` | bindings, events, runs and questions, matcher, publisher and poller | refines the delivered/not delivered wait of `WorkLifecycle` |
| `Automation` | one task, its occurrences, claims, runs and Works | Works by their state |
| `PluginOutbox` | events, outbox rows, grants, the delivery worker | - |
| `PluginTurns` | one background job, its Work and the two executors | Works by their state |
| `Subagents` | children of one parent, executors, results, questions, maintenance | assumes what `WorkLease` shows |
| `SocialSend` | one `send` call: parts, claims, settlement, illustration, recovery | - |
| `ExternalAgents` | server, wire, connector's journal, native agent | - |
| `WorkLeaseProofs`, `EffectReceiptsProofs`, `WorkLifecycleProofs`, `WorkSchedulerProofs`, `SocialSendProofs` | theorems | the module of that name |
| `StoreProofs` | theorems | `MCStore`, that is `DatabaseWriter`, `WorkJournal` and `WorkWait` |
| `DeliveryProofs` | theorems | `ExternalAgents`, and `MCDelivery` with the theorems of `SocialSendProofs` |
| `ServicesProofs` | theorems | `MCServices`, that is `PluginOutbox`, `PluginTurns`, `Subagents` and `Automation` |
| `MCWorkLease`, `MCEffectReceipts`, `MCWorkLifecycle`, `MCAutomation`, `MCExternalAgents` | constants and symmetry | the module they extend |
| `MCStore`, `MCServices`, `MCDelivery` | sums: safety of several components in one run | extend `DatabaseWriter`, `PluginOutbox`, `ExternalAgents` and instantiate the others, see section 3 |
| `MCWorkLive`, `MCServicesLive`, `MCAgentsLive` | sums: liveness of several components in one run, in `MCWorkLive` the scheduler's safety too | extend `WorkScheduler`, `PluginOutbox`, `ExternalAgents` and instantiate the others |

Operators with a comment "Mutant:", or named `Mut...` or `..._...`, are plausible
bugs; no action uses them. `PROJECT.json` says which property each of them
breaks.

### WorkLease

`row` and `canon` are the committed scope row and canonical generation; `txn`
is the open `BEGIN IMMEDIATE` transaction. Each writer has an `...Exec` step
(the SQL, with the `_fence` clause evaluated at that moment) and a `...Commit`
step, so that a lease can lapse while its holder's transaction is open, a
caller may be cancelled while its commit completes (`AcquireCommit`,
`RenewCommit`), and a crash may come between. Reads (`AcquireRead`, `HbExpiry`,
`HbWake`, `ReleaseRead`) are steps of their own. `now` is one clock because the
process and SQLite run on one host. `Rollback` covers every way a transaction
fails.

`FencedLease` states the promise without rows, clocks or transactions. The
mapping takes the holder from the committed owner column and the retired
activations to be those given a lease that the row no longer names.

### EffectReceipts

`effect[k]` is the row of effect key `k`: state, dispatch marker, outcome and
revision. A compare-and-set is two steps, `...Read` filling `snap` and the write
that compares with it. `Verdict` is the order of checks inside `admit_dispatch`:
fence and marker, budget, the Work's state. `Cancel` keeps the paths that run
on cancellation (`late`). The lease is the variable `holder`: it passes on only
when the previous holder is stopping or gone (`Expire`, `Leave`), which
ExclusiveExecution of `WorkLease` provides, or when `Boundary` takes it together
with the Work. `ran[k]` counts real executions and exists only in the model.
ReceiptsFinal lets a receipt change only to a higher revision or by having its open
outcome resolved: `resolve_run_effects` merges the outcome and leaves the revision
alone (`ResolveWrite`). A receipt thus never returns to an earlier value, and a
compare-and-set over the whole row notices every write in between.

### WorkLifecycle

| variable | code |
|---|---|
| `work` | `runtime_work.state` and the class of `reason` that the code branches on |
| `accepted`, `handed` | `$.accepted_control`, `$.handoff_work_id` of the checkpoint |
| `inbox`, `last` | `runtime_work_inputs` in id order: kind, ready, status |
| `waits` | `runtime_work_waits.status` |
| `run` | a sandbox run and its continuation receipt |
| `pc`, `mine`, `fresh`, `ending`, `pend`, `target` | position and locals of the activation |
| `ingress` | a chat handler that has read the active binding |

`Settled`, `Outcome`, `Keeps` and `CommitState` are `commit_state`, the single
writer of Work states: pending business input overrides any ending except a
cancellation, a prepared head queues the Work and an unprepared one parks it
with reason `work_input_preparing`, owned execution defers completion, a
delivered wait requeues, and the accepted decision survives only under
`Keeps`. `Choice` is the order of decisions in `settle`, taken from reads
(`Close`, `SettleRetire`) older than the commit (`SettleCommit`), which checks
the revision (`fresh`). `Fail`, `FailCommit` and `Recovered` are
`recover_failure`; `Adopt...` and `InterruptedCommit` are the scheduler's
recovery of a Work whose process died. Reason `draining` is a Work that decided
to complete and waits for what it started; `route_child_completion` leaves it to
a wait of an earlier decision if one is still active, and DrainedBehindWait says
that nothing else may then hold it.

Abstractions: a revision is the flag "my copy is current"; an activation that
loses its lease disappears (`Crash`, `HardBoundary`), since its later writes are
refused by `WorkLease`; retry delays and child Works are left out; a wait is
delivered or not, which `WorkWait` details; there is one sandbox run, of which
only its admission under the lease (`prepare`) and its completion (`receive`) are
kept. The completion of a cancelled run leaves a blocked receipt and is never
routed, so that DrainedBehindWait excuses a Work whose run was cancelled.

### DatabaseWriter

`w[t]` is the frame of `immediate_session` of writer `t`: its place (`pc`), the
primary error, what was asked of it meanwhile, and the exception its caller
gets (`raised`). Each driver call is a step that succeeds or fails; `open` is
what SQLite holds, which a cancelled await does not change (`Stopped`). A
cancellation is remembered while a shielded call runs (`CancelShielded`,
`_complete`) and interrupts only `BEGIN IMMEDIATE` and the statements
(`CancelStatement`). `write_failure_committed` and `write_failure_retryable` are
the functions of that name, `Retry` the journal's retry that trusts them, and
`publish`, `hints` and `stream` the wake-up of client streams
(`persistence/commit_hints.py`, `client_api/views.py`).

### WorkScheduler

`dispatch_once` is four steps, because it awaits twice: `Maintain` takes the
room, `SelectAfter` and `SelectWrapped` are the two queries, `StartRuns` creates
the tasks without awaiting. `head` and `lease` are what the database says of a
scope; they change at any time. `CloseBegin`, `CloseJoins` and `CloseDrains` are
`close`: refuse, cancel the loop, then collect the tasks.

### WorkJournal

`journal` is the row of `runtime_work_journal` (phase, chain, sequence, what the
transcript shows), `mem` the session of the activation, `begun` the effect keys
with a dispatch marker. `Load...` are the branches of `load` and `restore`;
`TakeInputs` to `SaveFinal` are the request loop with its four saves. What a
transcript tells is a set of facts, inputs and results of calls: wording,
compaction and media references are not distinguished. `answered` keeps what
each paid request told, and exists only in the model.

### WorkWait

`waits` are the bindings with their conditions, watermark (`after`), evidence
and deadline; `events` is the conversation's ledger. `MatchRead`/`MatchWrite`
are `match_event`, which reads bindings and starts over unless they are
current (`Current`); `Publish` is the plugin's publication, which matches in its
own transaction; `PollRead`/`PollWrite` are `deliver_due`. `ObserveDue` gives the
verdict in the code's order: gone, satisfied, expired, partial. `Apply` is
`_deliver` and the partial update for every writer. Whether an event may satisfy
a condition at all (its author, direction, suppression) is its flag `eligible`.
`Resume` is the operator's and cancels an active wait (`Superseded`).

### Automation

`row` is the task with the latest version of its definition, `runs` its
occurrences by instant, `task[w]` a claiming task of the worker with the
snapshot it claimed. `Claim` is `claim_due`; `CreateRun` re-checks claim, status,
schedule and version, and closes a task whose limit is reached; `FinishRun` is
the single writer of a run's end, called by the turn (`EndTurn`, `Block`), by
the settlement of the run's Work (`SettleWork`), by a failing task (`FindUnowned`,
`CloseUnowned`, two transactions) and at start (`StartSettle`). The owner's calls
are actions of their own. Readings of the clock at which the owner acts never
coincide with the instant of an occurrence that exists (`Unused`): microseconds
in the code. A blocked run whose claim lapsed stays running until the next
start, as in the code. Creation is the initial state.

### PluginOutbox

One row per physical part. `PublishRead`/`PublishCommit` are the two halves of
`_publish_once`; `PrepareOutbox` freezes a layout; `ClaimOutbox` settles lapsed
leases and takes the oldest part in one transaction; `OutboxReady`, `CheckGrant`,
`Transport`, `RecordOutbound` and `AfterRecord` are the worker's delivery, with
`RecordRaises` for a record that failed or was only not acknowledged. A part on a
local route has no send: recording it is the delivery. `delivered` counts what
the platform really took. A lease that runs out under a worker at work counts as
a fault. A record that fails for ever, or an unexpected error of a local
delivery that ends the worker's task, starves the queue; liveness assumes faults
end. Historical `agent_reply` rows have no writer and are left out.

### PluginTurns

One job: `ClaimTurn` discovers, reconciles or takes it, `Begin` checks source
and conversation, `Admit` creates the Work and binds it in one transaction,
`ResumeBound` goes on with it, `Validate` is the fence before each request,
`Report` closes, parks or defers the job by the state that `ReadResult` read.
The scheduler runs the same Work on its own (`ResumeWork`). `left` is
`max_attempts - attempts`; giving an attempt back is `max_attempts + 1` in the
code. The Work is its state.

### Subagents

`child` joins a row of `runtime_work` with its row of `runtime_subagents`.
`Acquire` fences, `Settle`/`Recover` are `commit_state` of a child (`Land`),
`ReadResult`/`Publish` the executor's `finish`, `ReadMissed`/`Repair` the same for
a result a crash kept back, `Archive` the last step of `maintain`. `Stop` is
`manage_work` on one child, `ParentSettles` the settlement that stops a whole
tree. One process runs at a time, so a child has one executor; its lease may be
lost under it (`Stall`). `Reset` is the bump of the conversation's generation
together with `cancel_in_session`, one transaction that ends parent and children;
an executor in flight learns of it by its fence. Left out: workers of workers, the recovery of a source
inside a run, the cancellation of a child's sandbox commands. A replayed start
is a stutter.

### SocialSend

One call of `send` with `Parts` text parts and perhaps an illustration,
executed by several callers at once or again. `Claim` is the transaction that
makes one caller the dispatcher of a part (`Claims`), `Reach` the one network
call, `Return` what it reports, `Settle` the event and the receipt, `Repair` the
second settlement, `Deferred` when neither could be written. `StopSequence`
freezes the later parts. The illustration worker is `Scan` to `Done`; `Recover`
is the start after a crash. `sent` counts what the platform was given. Left out:
the resolution of target, route and content, recall and poke, calls with an
illustration only, historical rows, `_committed_target_conversation`.

### ExternalAgents

Both ends are code of this repository: the server (`external_agents/`) with
`row`, `run`, `seen`, `heard`; the connector (`packages/yuki-agent-connector`)
with its journal `jr`, `jcmd`, `jdet`, the unacknowledged events `jq` and its
`clock`. `down` and `up` are commands and replies on a connection and die with
it; events are re-sent until acknowledged (`ReceiveEvent`, `Acknowledge`).
`Project` is the rule that keeps receipts ordered on the server, `Fold` and
`Own` the connector's. `Maintain` cancels a delegation of an ended Work under one
fixed id.

| variable | code |
|---|---|
| `row`, `bound`, `gone`, `run`, `told` | `AgentOperationModel` (result, native execution, `detached_at`) and its `SandboxTaskRun` |
| `jr`, `jcmd`, `jdet`, `jq`, `clock` | the tables of the connector's journal |
| `ex`, `live` | commands inside `_execute`, and those whose connection still stands |
| `driver` | the driver's hold on the agent: `attached` receives its notifications, `blind` is connected without, `lost` is without the agent |
| `recovery` | `driver.recover` between its reading of the agent and its `append` |
| `native`, `asked`, `daemon` | the native agent, external: the turn, the cancellations it took, whether it outlives the connector |

Two kinds of agent are modelled, as their drivers treat them: a daemon with a queue
(Codex) and a child process (Claude). A turn ends completed, failed or, when it was
interrupted, cancelled (`Finish`), and the end is an event only if the driver is
attached. A child that is asked to cancel a turn that is over answers with its end,
which settles the operation. After a restart or a lost agent the journal says
"unknown"; `Reconnect` and `Recover` are `start_drivers` and `recover`, which may
report an end without the agent's answer, or subscribe too late. `AnswerGet`
recovers first while the receipt is in doubt. The journal compares the whole
command, execution and submission included (`Named`).

Left out: the ACP driver, list, session queries, watch,
steer and respond, binding mismatches, transport inputs of connect and
disconnect, catalogs and authorisation, pairing, the device's shell and files. A
refusal by the agent is taken for what it says, and notifications reach the driver
in the order in which the agent's state changed.

## 3. Runs

The components that share no state are checked side by side: a sum such as
`MCStore` starts in one of several `instance`s, a behaviour belongs to that
instance alone, and the variables of the others stay as they were. This is the
same exploration as one run per component, asked as one question: what a Work
keeps in SQLite, what starts work on its own, what leaves the process. A sum
extends one component, whose own properties it checks as they are defined there
and as the theorems of section 4 state them (in `MCStore` and `MCServices` the sum
itself has theorems); each property a sum defines itself
is a conjunction of named properties of the components it instantiates, which are
stated and explained where the component is defined.

| run | instances | shows |
|---|---|---|
| `work_lease` (`MCWorkLease`) | 2 activations, lease of 2, clock to 3, generation to 2 | ExclusiveExecution, TokensUnique, refinement of FencedLease, AbandonedLeaseReclaimed |
| `effect_receipts` (`MCEffectReceipts`) | 2 activations, 2 charged keys (one a program's child), limit 1 | AtMostOnce, ChargedOnce, ReceiptsTruthful, ReceiptsFinal |
| `life_safety` (`MCLife`) | 2 inputs, 1 wait, 1 run, 1 fault | InputOwned, WaitDecisionLive, DrainedBehindWait, FailureKeepsInput, CompletesClean, OverIsOver |
| `work_store` (`MCStore`) | `events`, `suppressed`, `deadlines` (WorkWait), `writer` (DatabaseWriter), `long`, `broken` (WorkJournal) | WriterTellsTruth and SingleWriter of DatabaseWriter; JournalTellsAll, WaitsMatch, WaitsResolveOnce |
| `background_services` (`MCServices`) | `edited`, `faulty` (Automation), `outbox`, `turns`, `children` | OutboxIsTrue and EndsAreFinal of PluginOutbox; TasksAreSettled, RunsAreAdmitted, JobIsItsWork, WorkIsKept (of jobs and of children), ParentAndChildAgree |
| `delivery` (`MCDelivery`) | `gateway`, `local`, `work` (SocialSend), `cancelled`, `retired`, `both`, `detached`, `queried` (ExternalAgents) | OperationRunsOnce, OperationReceiptIsTrue and OrderIsKept of ExternalAgents; MessageIsTrue (MessageSentOnce and MessageReceiptIsTrue of SocialSend), PictureComesLast (its OrderIsKept, in `work`) |
| `work_liveness` (`MCWorkLive`) | `life`, `scheduler`, `waits` | ScopesRunOnce of WorkScheduler; InputIsServed, ScopesAreServed, DueResolved |
| `services_liveness` (`MCServicesLive`) | `outbox`, `turns`, `children` | OutboxSettles, JobsAreServed, ChildrenReport |
| `agents_liveness` (`MCAgentsLive`) | `agents`, `tasks` | OperationEnds, TasksRun |
| `life_completion_race`, `automation_unowned`, `agents_retire` | the least in which it happens | violations, section 5 |

Bounds. Every lease property is about two activations; a clock of 3 lets a
lease of 2 be granted, renewed late and expire; generation 2 allows a purge after
a bump. Two keys with limit 1 are the least instance in which calls compete for
the budget. Two inputs give an unprepared head before a prepared tail and the
reverse; one fault puts a failure or a crash at every step. Two writers give one
that is cleaned up while another waits, and a stream with room for one hint
overflows at once. Three scopes compete for room for one, so that a scan starts
behind its cursor and wraps; more room is left to the theorem, which holds for
every limit. Two messages, two calls in a response and two contracts
cover every branch of restoring. Two waits and two events let a match, a poll and
a replacement overlap; a poll takes one binding, so that a second one waits (of the other kind in
`work_liveness`, where the first wait is the first Work's, the Works being alike). A task
has two instants and two claiming tasks; with a limit of one run it has two edits
and a fault (`edited`), so that a claim lapses and its owner edits twice in between,
with or without a limit one edit and two faults (`faulty`). Two calls publish one key of
two parts; a job has two attempts and three faults; a child gets two commands and
one fault. `MCStore`, `MCServices` and `MCDelivery` take all their bounds from the .cfg, since the theorems are
about any of them (in `MCStore` an instance leaves out steps that its question does not
need: `events` and `suppressed` the clock and the boundaries, `deadlines` the events), and `MCServicesLive` is the same module with less. A message has two parts and a picture, or three parts, which is the
least with a part in the middle; two callers overlap and a third call repeats,
except in `work`, whose call is repeated by later activations only: there, where
executions do not overlap, PictureComesLast is asked.
A device has one operation with one control of each kind, because an operation
is independent of others on the same device, and one lost connection or restart
at every step; `cancelled` and `queried` use a cancellation and a query (a child also a milestone),
for a daemon and for a child, while the Work goes on; `retired` the maintenance for a
daemon that is not lost but by a restart, while the Work may end; `detached` a
detachment of a child, the Work ending too; `both` a cancellation together with the
maintenance for a daemon, without a fault. Everything together is left to the
theorems. In
`agents_liveness` the Work goes on and anything may fail, or the Work may end and
only the connection is lost.

Symmetry is used for activations, writers, callers and claiming tasks in safety
runs only. `CHECK_DEADLOCK FALSE` everywhere: clocks, commands, inputs and
faults are bounded, so every instance ends.

Fairness, and why the code justifies it:

* `WorkLease!Fairness`: time passes; an open transaction that is not refused
  commits in the end (strongly, since rollbacks are finite in reality and
  retried); the scheduler polls, so a free scope is tried again. Nothing is
  assumed of boundaries beginning or of heartbeats.
* `WorkLifecycle!Fairness`: a live process runs the activation it holds and the
  scheduler polls runnable Works (weak, on Turn, Settle and Recover together); a
  response holds finitely many tool calls (strong, on the end of a batch); an
  unprepared input is prepared or dropped by its handler or by
  `repair_abandoned_inputs`. InputServed exempts a suspended Work, which waits
  for its operator by design.
* `WorkScheduler!Fairness`: the loop polls every two seconds and database errors
  are transient; every activation ends, because the turn loop bounds a segment.
* `WorkWait!Fairness`: the poller alone.
* `PluginOutbox`, `PluginTurns`, `Automation`: their loops run, the clock
  advances, running turns end; a row's route is found again and again (strong,
  on preparation); a due task is claimed again until its run can be created
  (strong, on CreateRun, since a lapsed claim disables it). Nothing is assumed
  of people, platforms' answers or signals.
* `Subagents!Fairness`: the loop passes; a turn ends; a lease nobody renews runs
  out; `Select` is strong because the loop orders children by `updated`, so that
  a waiting child comes first.
* `ExternalAgents!Fairness`: both processes serve what reaches them, the
  connector dials again, maintenance returns, an interrupted execution ends.
  Nothing is assumed of an execution left alone. AbandonedIsStopped is stated
  for an execution whose name is known when maintenance first cancels it, and
  no further fault; without the former it fails, see `agents_retire`.

## 4. Proofs

`WorkLeaseProofs` (from `LeaseAssumption`: NoOwner is no activation, the lease
lasts at least one tick, naturals) proves for any number of activations, any
duration and any bounds `TypeCorrect`, `TokensNeverReused`, `Exclusive` and
`Refinement`. ExclusiveExecution is not inductive: that a deadline is covered by
`lease_until` has to survive an open renewal, so `TxnInv` says what an open
transaction knows of the committed row (no other writer runs), `HeartbeatInv`
that a deadline is at most `lease_until` while the activation owns the row and
has passed once it lost it to anything but a boundary, `TokenInv` that granted
tokens never run ahead of the row, `RowInv` that a row is always of the
canonical generation, so that a row deleted by a purge is recreated in a later
one. The refinement uses the same invariant: each step maps to Grant, Revoke,
Write or a stutter.

`EffectReceiptsProofs` (from `EffectAssumption`: finitely many keys, charged and
child keys among them, a natural limit) proves `TypeCorrect`, `RunsAtMostOnce`,
`BudgetExact`, `Truthful` and the action property `Final`. The core is
`DispatchInv`: a call that may still run has a set marker, a tool that did not
run, and no rival. Truthfulness of "never dispatched" needs `RefusalInv`: a
refusal is only recorded when the budget is exhausted, and the budget only
grows, or by the uncancelled holder of the lease, and `HolderInv` says nobody
else can dispatch then.

`WorkLifecycleProofs` (from `LifecycleAssumption`: the bounds are naturals, so
the theorems hold for any number of inputs, waits and faults, and one run) proves
`TypeCorrect`, `MailboxOwned`, `KeptWaitActive` and the action properties
`FailureLosesNothing`, `CleanCompletion` and `NoResurrection`. InputOwned is not
inductive: when the unprepared head of the mailbox is dropped, what is behind it
becomes the head, and `discard_input` requeues only a Work parked with reason
`work_input_preparing`. `Parked` therefore says that a Work waiting for anything
else has no prepared message at all, `Unready` that only messages are ever
unprepared (so the unprepared head of the whole mailbox is also the oldest
message), and `Engaged` that inputs are staged, consumed or withdrawn only while
the Work neither waits nor is suspended. The decisions need `Copy` and `Chosen`:
a settlement whose copy of the row is current chose its target from the row's own
decision. All five commits of an activation (settlement, failure, the three
outcomes of orphan recovery) go through one lemma about `commit_state`; the
action properties follow because every other step is `Mild`. `DrainsToItsEnd` is
DrainedBehindWait: only a decision to complete that met an owned execution writes
reason `draining`, and until the Work leaves that state the execution ends only
by its completion, which wakes the Work or finds a wait still active.

`StoreProofs` is about the three components of `MCStore`, and proves every
property of `work_store` for every value of its constants.

Of `DatabaseWriter` (from `CloserAssumption`, `LimitAssumption` and
`NoneAssumption`: the task that closes the database is no writer, a queue of hints
has a positive limit, the mark of absence is no task and no error) it proves `VerdictsAreTrue`,
`AppliedOnce`, `OwnedOrClosed`, `OneWriter` and `StreamsSeeCommits`, and from them
`TellsTruth` and `OneWriterOwned`, for any number of writers and client streams.
`FrameInv` says for each place of `immediate_session` how often its write is
durable and whether its connection can still hold a transaction: before the
commit it is not, while the cleanup runs the primary error is set exactly when
the commit was not confirmed, and only an error of the commit itself leaves open
which. `LockInv` makes the frames exclusive and says that a transaction nobody
owns ended all admission; it needs `QueueInv`, that a caller is in the queue of the
lock only while it waits, or a lock would be handed to one that had left.
`StreamInv` adds that a stream without a subscription is gone or has a hint that
ends it. The steps of the session and of its cleanup are proved one by one against
these parts.

Of `WorkJournal` (from `JournalAssumption`: messages and signals differ, natural
bounds, at least one contract) it proves `JournalsTellAll`. RequestTellsAll is about
one place of the program, between the row that says dispatched and the answer; to
get there the session in memory and the row must agree at every other place, a
crash included. `PlaceInv` orders the two: the session is ahead of the row until
the row names its request, and only a stored response has calls. `ToldInv` says of
each message that a transcript tells it exactly when it was given out, both for
the session and for a row that can be resumed; `ResultsInv` the same of dispatched
calls, but for those of the response at hand. PaidOnce is about the past: `NovelInv`
says that the transcript about to be sent tells something that no answered request
under its contract told, where the new thing may be the result of a call, so
`KeyInv` keeps results from being told before their response.

Of `WorkWait` (from `WaitAssumption`: what `normalize_conditions` accepts, each run
has an owner, natural bounds) it proves `WaitsAreMatched` and `WaitsAreResolvedOnce`.
`Moves` says all a step may do with a binding in use: nothing to a resolved one; to
an active one, add evidence that is true now and of the kind of its condition, and
resolve it; put its signal into the mailbox only then. Each writer reaches its
verdict by `EventVerdict` or `ObserveDue`, on rows read earlier that are compared
before the write; `EventGood` and `DueGood` say that a verdict on a row that still
holds is a good one (`Good`), `AppliedMoves` that good verdicts make only such
moves. `BindingInv` adds that a Work has one active binding and names only its own,
which SignalWakes needs: whoever signals that binding wakes that Work. That no event
is lost (MatchComplete) follows from `EventHandled`, what the writer of an event
leaves active has been matched by it, and from evidence that is never taken back; a
new wait's watermark is behind every event.

`WorkSchedulerProofs` (from `ScopesAssumption` and `LimitAssumption`: finitely many
conversation ids, a positive limit) proves `TypeCorrect`, `OneTask`, `Bounded` and
`Quiet`. The three properties need `ScanInv`: the rows a scan holds are of scopes
without a task, and the room it found before its queries is still there, because
until the scan ends other steps only remove entries from `_in_flight`; the two
queries together return no more than that room. That a query with a LIMIT returns
at most that many rows (`SmallestBounded`) follows by counting: the number of
smaller candidates maps its rows one to one into 0..n-1. `CloseInv` says that the
tasks are collected only after the loop has stopped. `RunOnce` joins them to the
property `work_liveness` checks with room for one.

`SocialSendProofs` (from `SocialSendAssumption`: finitely many callers, none of them
the worker, at least one part, natural bounds) proves `TypeCorrect`, `AtMostOnce`,
`TrueReceipts`, `InOrder`, `ConfirmedEvents` and `DeliveriesAgree` for any number of
callers, parts, calls and faults, on the local and on a gateway route. None is
inductive without the claim: `TaskInv` says that between its claim and its
settlement a task's row is executing and that the count of gateway calls is the
one its position tells (none before the call, one after it, the answer deciding
in the second settlement), `OneDispatcher` that no two tasks are there for the
same part, `PlanInv` that no part has begun before the plan of a sequence is
frozen, since `prepare_sequence` writes all parts. The steps fall into those that
write no row (`QuietMove`) and those that write the rows of one part (`PartMove`).
`MessagesOnce` and `MessageReceipts` are the conjunctions that `delivery` checks.

`PictureComesLast` proves the action property OrderIsKept for executions of a call
that do not overlap (`OneExecution`, the case of a Work, whose activations hold a
lease). The worker sends the illustration after it read that the text ended, so
that the text must be over for good (`TextOver`): a part begins only behind a
succeeded one (`PrefixSucceeded`), hence a failed or uncertain part stops those
behind it, and a stopped plan has no execution that could go on (`StopInv`).
Without OneExecution the last is false and so is the property, see section 5.

`ServicesProofs` is about the four components of `MCServices`, and proves every
property of `background_services` for every value of its constants.

Of `PluginOutbox` (from `BoundsAssumption`, and that "none", the mark of a key
without event, is no content) it proves `AtMostOneDelivery`, `NeverRequeued`,
`TrueLedger`, `OneCreation` and the action property `SettledForGood` for any keys,
callers, parts and faults. That a row is sent once is inductive only with what the
one worker knows of the part it holds (`WorkerInv`: nothing was delivered before
the call, and the row is open or cancelled until a record was committed), with
`PartInv`, which says that a row without a platform route was never delivered, so
that only local parts may be queued again after their lease, and with
`LayoutInv`: `prepare_outbox` writes the rows of all parts of a notification, and
overwrites none that was sent because a row without a route is alone. `CallInv`
relates the receipts to the events and does not need the rows. Steps that change
one row go through one lemma (`RowMove`), a claim through another (`ClaimMove`).
`TypeCorrect` needs more than the types: `TidyInv` says that only a row in
processing has a lease, that a local row is never attempted and that a platform
row waits only while it has attempts left, `KeyInv` that the keys were created in
the order of their rows. With it `OutboxTellsTruth` is the whole of OutboxIsTrue,
which `background_services` checks.

Of `PluginTurns` (from `TurnBounds`) it proves `TurnTypeOK`, `JobOneWork`,
`JobCompletes`, `JobBudget` and the action properties `JobRetires` and
`JobKeepsWork`, for any attempts, faults, pauses and outside changes. `OneWork` is
inductive with `ExecutorInv`: each executor holds the scope that is marked with
it, no resumption runs beside a worker that began, and a worker is only active
while its job is in processing or was cancelled under it. `BindInv` says that a Work
exists exactly when the job is bound, in the one transaction that does both.
`SeenInv` is needed because the worker reports what `ReadResult` read earlier: what
it brings back of a Work that ended is still that end, except that a failed Work
may have been started again meanwhile. `BudgetInv` accounts for attempts: what is missing from the job
is what was charged, and one more while a claim is under way.

Of `Subagents` (from `SubagentsAssumption`: finitely many children, natural bounds)
it proves `ChildrenTyped`, `ChildrenReportInOrder`, `ChildResults`,
`ChildMessages`, `ChildQuestions` and the action properties `ChildrenSettle` and
`ChildEnds`, for any number of children and executors. `ChildRowInv` ties a row to
the revisions that point into it (`notified` and the page of `maintain` are never
ahead of the row, a result shown at the current revision names the row's state),
`LeaseInv` an executor to the row it was given (fence and epoch never ahead, and a
child that has its lease and its executor runs), `MailInv` orders the receipts,
which the three senders post through revisions that only grow. Steps that move one
child go through `OneMoves`; a settlement of the parent moves all of them at once
(`AllMove`), and the limit of executors is the cardinality of the running children
(`LimitsInv`). An attempt to prove the settlement of a parent showed that two cases
of its definition overlapped, for a deferred and draining parent; the code takes
the deferred one first, and so does the module now.

Of `Automation` (from `AutomationAssumption`: natural bounds, NoWorker is no worker)
it proves ActiveIsScheduled, CountsRuns, RunMatchesWork and the types as
`TasksSettle`, and `RunsAdmittedAsDefined`, for any number of claiming tasks, any
clock, limits, edits and lapses. `AheadInv` says that the next occurrence of a task
was not settled even while it is paused, failed or blocked, since the owner may
resume it as it stands; it survives `finish_run` because only past occurrences were
ever claimed (`PastInv`) and a new one lies after now. `TallyInv` is CountsRuns with
the finiteness of what it counts. RunMatchesWork needs `RunOwnerInv`: two tasks may
work on one occurrence after a lapse, but only the one that created its run
executes it, so that a run without a Work is settled by that task or written off,
and only a run that was written off can get a Work after its end. All settlements go through
one lemma (`RunSettles`), as they go through `finish_run` in the code.

A behaviour of the sum is a behaviour of each component (`StepAll`), which gives
`TasksSettle`, `RunsAdmitted`, `JobsFollowWorks`, `FamiliesAgree`, `WorkKept` and
`OutboxInSum` for `SpecAll`, the specification that `background_services` checks
(from `ServicesAssumption`, which TLC evaluates there).

`DeliveryProofs` (from `ExternalAssumption`: the ids differ, finitely many
controls, natural bounds) proves `CommandSentOnce`, `CommandExecutedOnce`,
`EndToldOnce` and the action property `ReceiptsGoForward` for any number of
controls, milestones, queries and faults, for a daemon and for a child of the
connector. The invariant needs `Fresh`: before `prepare()` committed the row of an
operation no call, command, reply, journal entry or event of it exists, so that
no answer is ever projected onto a row that is not there. `ExecInv` ties how often a
command ran to its place in the journal, which `begin()` consults before anything
runs, and `RunInv` the receipt to the run and its one continuation; every way a
receipt can change goes through one lemma about `_project` (`CommitServer`).

`OperationsOnce` and `OperationReceipts` say that commands run once and that the receipts on both sides are what the native agent did. A status travels from
the connector's journal by replies, by events that are sent again and by the
answers of a control, in any order and after any loss, so the invariant
(`Evidence`) speaks of every carrier: `ReceiptInv` of the journal, `WireInv` of the
replies, unacknowledged events and answers, `RowInv` of the server's row, which
repeats the journal or says that the command never left. Each carries what the
journal has (`Echo`, `ControlEcho`), and the journal never takes a settled status
back (`EvidenceGrows`), so that a late carrier is still true. "Failed" means that the
turn failed or that the agent never took the command; "completed" comes with the
answer unless the device itself lost it (a recovery found the end after a fault) or
the reply to a cancellation that crossed the end arrived before the event of the
end, which are the two exceptions AnswerKept names. None of this depends
on whether the agent outlives its connector: the steps are those of `AnyNext`, which
leaves it open (`NextIsAny`, `OutlivingIsAny`).

The same module proves `SpecAll` of `MCDelivery`, the specification that `delivery`
checks, from `DeliveryAssumption` (TLC evaluates it there): `MessagesAreTrue`,
`PicturesComeLast` and `OperationsInSum`. The theorems of `SocialSendProofs` are
instantiated for the three messages of the sum (`GatewayP`, `LocalP`, `WorkP`), whose
definitions are those of `Gateway`, `LocalSend` and `WorkSend` word for word
(`GatewayPIsIt` and its like); that the executions of a Work's call do not overlap,
which the order of the picture needs, is there the single `Activation`.

The types of the first three modules are proved and no longer part of a run.
Every theorem named above is of the module's own definition; where a run checks
exactly that definition, `PROJECT.json` names it.

Every safety property that a passing run checks is proved. Only model-checked is
liveness, in every module (the prover does not do liveness or ENABLED). The proofs quantify over the modelled
actions; that the actions are the code's is by reading, and the map in
`PROJECT.json` gives the lines.

## 5. Where code and documentation part

Each of the first three is a run that TLC refutes with a short trace.

* `life_completion_race`: `settle` asks for owned execution, the run finishes
  and its completion is routed (the Work is still `running`, so nobody is
  woken), then `waiting_external` is committed. The completion lies in the
  mailbox of a Work nothing will wake. A worker's notice that arrives while its
  parent settles takes the same path.
* `automation_unowned`: a task whose claim lapsed before it created a run closes
  the run its successor is executing, because "unowned" is decided by the
  occurrence and by "has no Work", not by the claim. The real result of the turn
  is dropped.
* `agents_retire`: maintenance cancels the delegation of an ended Work before its
  admission named the execution; the connector journals the failure under the
  one id maintenance ever uses, and no retry can take effect.

The modules also define properties that the code does not have and that no run
lists; they are kept as a record, with the instance in which each can be seen.

| property | instance | what happens |
|---|---|---|
| `WorkLifecycle!WaitHasSource` | MaxWaits 1, MaxFaults 1, no input, no run | `cancel_wait` (and `update` with a goal) cancels the binding and retires the decision in two transactions; a failure between them leaves a wait without a binding |
| `WorkLifecycle!WaitHasSource`, its exception of cancelled runs dropped | MaxRuns 1, no input, wait or fault | a Work that waits for what it started is woken by the completion, but the receipt of a cancelled run is blocked for good (`receive`) and wakes nobody; the Work stays until an input or the operator moves it |
| `WorkLifecycle!SettledBeforeInput` | MaxInputs 1, no wait, run or fault | a handoff chooses `suspended` from an earlier read and `commit_state` does not look at the mailbox for that state |
| `WorkJournal!ConsumedWasTold` | one message, one signal, MaxFaults 2 | an input staged and saved is consumed on recovery into a fresh chain, which tells messages but not signals |
| `PluginOutbox!FailedCanBeRetried` | two callers, one key, MaxAttempts 2, MaxFaults 2 | a row fails only when its attempts are used up, and the operator's retry demands that they are not |
| `SocialSend!OrderIsKept` | two overlapping callers, two parts and a picture, gateway, two calls, MaxFaults 1 | one execution is cancelled and stops the plan after the other claimed or reached the part; `claim` and the dispatch do not read the status of the plan, so the text follows the picture |
| `SocialSend!IllustrationEnds` | local ledger, two parts and a picture, one call, no fault | a wake-up can be spent while the text is still sent, and the illustration then waits for the next call |

## 6. Plan

Done, in this order: the lease, the effects, the lifecycle (with proofs); the
writer, the scheduler, the journal, the waits; automation, plugin notifications
and background turns; subagents; social delivery; external agents; the sums; the
proofs about the scheduler, social delivery, the external agents and everything in
`MCStore`, `MCServices` and `MCDelivery`, with every safety property those check.

Left, in this order:

1. `CodeMode`: snapshots, parallel children, resumption of a program; today its
   calls are the child keys of `EffectReceipts`.
2. Memory jobs: claims, checkpoints and retries of extraction and rollup jobs.
3. Model capacity: pools, admission and fallback between providers.
4. Composition of `WorkLifecycle` with `Subagents` and with `PluginTurns`, where
   today each side sees the other by its state alone.

Not modelled, and why: network adapters, providers, prompting, retrieval and
ranking, media, administration views, installers, migrations and vendored code
are I/O or data transformation without a protocol of their own; plugin facades,
key-value store and installation are request handling over one transaction
each; compaction and context layout change what a request says, not whether a
fact is lost.
