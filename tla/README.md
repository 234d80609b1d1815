# Formal model of the Agentic Sandbox control plane

TLA+ models of the parts of Agentic Sandbox that keep promises across processes,
tasks and restarts, model-checked with TLC and proved with TLAPS: every property
a passing run checks on an instance is also a theorem for every value of the
constants. Runs that end in a counterexample show where the code does not do what
the repository says of it. Five subsystems are covered:

* the **Celld effect protocol**, on which a lifecycle command travels from a
  client through an `InstanceCell` worker to management and the provider;
* the **task orchestrator** with its reconciler and cleanup service;
* the **A2A task executor** and the fleet workload inventory on top of its store;
* the **control stream** between an agent and management: registration, commands,
  reconnection and session reconciliation;
* the **session registry**: replay, fan-out, controller role and transcript.

All source paths below are relative to `src/`.

## 1. The system

| Component | State it keeps | Operations | Interacts through |
|---|---|---|---|
| `InstanceCell` worker (`runtimes/celld/instance-cell/worker.mjs`) | one stored cell per instance: generation, desired state, effect list, history, tombstone, one alarm, nonce index | `command`, `alarm`, `reconcile`, reads | signed HTTP from clients, signed callback to management |
| Effect ledger (`management/src/celld/effect_ledger.rs`) | SQLite tables `celld_effects` and `celld_instance_generations` | `claim_managed`, `begin_dispatch`, `set_management_operation`, `mark_unknown`, `complete_with_code` | method calls under one mutex |
| Effect callback (`management/src/http/celld.rs`) | nothing of its own; each request is a task | `effect_callback`, `resume_effect` | ledger, dispatcher |
| Celld dispatch and lookup (`management/src/http/admin_v2.rs`), operation store (`management/src/http/operations.rs`) | in-memory map of management operations, expired one hour after they end | provision (spawns a worker), start, stop, destroy, lookup | runtime providers, spawned tasks |
| Task orchestrator (`management/src/orchestrator/`) | tasks in memory behind a lock each, checkpoint files | submit, run lifecycle, cancel, restore | spawned tasks, provisioning scripts, SSH |
| Reconciler and cleanup service (`orchestrator/{reconciliation,cleanup}.rs`) | nothing of their own: checkpoints and the host's list of VMs | reconcile, fail task, destroy VM, retention | files, `virsh` |
| A2A executor (`management/agentic-sandbox-executor/`, `management/src/agent_message_dispatch.rs`) | task table, idempotency answers, push configurations, graph checkpoints | send, stream, cancel, checkpoint, observe, recover | REST, dispatch seam, SQLite |
| Fleet inventory (`management/src/http/fleet.rs`) | `fleet_workloads` rows with revisions | dispatch, observe, get, inventory, reconcile | the executor's store |
| Dispatcher (`management/src/dispatch/dispatcher.rs`) | pending commands, active sessions | create session, result, report, reconcile, clean up | gRPC stream to agents |
| Registry and heartbeat (`management/src/{registry,heartbeat,grpc}.rs`) | the sender of each agent's stream | register, supersede, unregister, reap | gRPC, timers |
| Session registry (`management/src/session/`) | replay ring, attachments, controller, transcript | attach, detach, publish, evict, close | WebSocket connections, channels |
| Agent (`agent-rs/src/main.rs`) | running commands, queue of messages to forward | run, report, reconnect, kill | gRPC |
| HITL, enrolment, SSH leases, credentials, authentication, crash loop | maps with deadlines | create, redeem, revoke | HTTP |
| Providers, telemetry, audit, CLI, images | external processes and files | start, stop, log | shell, libvirt, Docker |

### What is hard

* **No transaction spans two parties.** A Celld command is durable in the cell
  before anyone acts on it, `begin_dispatch` before the provider is called, the
  outcome after. A task's state changes in memory before its checkpoint is
  saved, and its VM exists before either says so.
* **State read before an await and written after it.** `alarm()` writes back its
  copy of the cell; `send_message`, `graph_checkpoint` and the observer write a
  whole task row they read earlier; the reconciler reads checkpoints, then lists
  VMs, then acts; `fan_out` evicts by client id after releasing the lock.
* **Two of what should be one.** A retry overlaps the first handler; the agent
  registers on a new stream while the server still serves the old one; two
  session creates find the same name free.
* **Loss.** Exchanges, acknowledgements and results are lost; the server restarts
  and forgets operations, observers, pending commands and sessions.

The list, each item at its line, is under `hazards` in `PROJECT.json`.

### What makes each part correct

* Celld: the provider is invoked at most once per operation; a success is an
  effect that happened; outcomes are final and agree between cell and ledger;
  generations move one at a time after a destroy; an acknowledged command stays
  on record and settles.
* Orchestrator: a task that is to use or keep its VM has it, a cancelled one has
  none; the checkpoint follows the task, and only another task of its id replaces
  its end.
* Executor: `completed` means a command exited with zero; a replayed answer is
  about what a request of that key did; an ended task is not brought back.
* Fleet: a reconciliation is about what was reviewed; final rows stay.
* Control stream: a command is handed to the agent once; what is said of it, in
  whatever queue, is not ahead of it; an ended command does not stay pending.
* Sessions: every client sees each frame once and knows of what it missed; one
  controller; what leaves the ring reaches the transcript.

What of this the code does not keep is in section 5.

## 2. Modules

```
CelldTypes ── EffectLedger ── EffectCallback ──┐
     │                                         ├── CelldProtocol
     └── InstanceCell ─────────────────────────┘
EffectCallback and CelldProtocol each refine AtMostOnceEffect

TaskLifecycle ── TaskReconcile
TaskExecutor · · (task table) · · FleetWorkload
AgentControl                      SessionStream

Theorems                   about
EffectCallback_proofs      EffectLedger, EffectCallback
InstanceCell_proofs        InstanceCell
CelldProtocol_proofs       CelldProtocol, from the two above
Orchestrator_proofs        TaskLifecycle, TaskReconcile
TaskExecutor_proofs, FleetWorkload_proofs,
AgentControl_proofs, SessionStream_proofs     the module of that name
```

**Celld.**

* `CelldTypes`: commands and effect statuses. A command stands for its canonical
  request hash; the hash is taken to be injective. Of the payload only `start`
  (of a provision) is distinguished, because `terminalDesiredState` reads it.
* `EffectLedger`: the two tables, column by column. Every method runs under one
  mutex, in an immediate transaction when it writes twice, so each is one action.
  A method that fails rolls back: it is a stuttering step, and the callers test
  the named conditions (`Admitted`, `Collides`, `MgmtOpConflict`,
  `CompletionConflict`) to see which error they get.
* `EffectCallback`: handlers as processes. `pc[h]` is the next call handler `h`
  makes on the ledger or the store; each call is a step. `snap[h]` is the record
  `resume_effect` was called with, which may be stale when it is used. The
  provider is abstracted to how often it was invoked (`invoked`) and whether its
  effect is complete (`effected`). `issuedFor` is a history variable that makes
  every management operation id fresh, as `Uuid::new_v4` does.
* `AtMostOnceEffect`: what is promised about an operation identity, three
  variables and three actions. Management implements it with the ledger's
  outcomes, the composed protocol with the outcomes the cell reports.
* `InstanceCell`: the stored cell, its alarm, and the copy held by an `alarm()`
  call in progress (`run`). `Accept` is the whole command transaction,
  `AlarmFires` and `AlarmEnds` the two halves of `alarm()` around its await.
  Commands are accepted at any time, also during the await (a Durable Object's
  input gate covers storage operations only) and while others are open, as the
  worker's own tests send them.
* `CelldProtocol`: worker and management joined by one HTTP exchange at a time,
  with bounded faults: lost acknowledgement, lost exchange, lost owner,
  server-side disconnect, gate failure, restart, expiry.

**Orchestrator.**

* `TaskLifecycle`: tasks in memory, checkpoints, the VMs of the host, and for
  each task where `execute_task_lifecycle` (`life`) and `cancel_task` (`cancel`)
  stand and who holds the task's write lock. A `Task` is one submission. Its id
  is the client's choice and may be used again (`submit_task` does not look for
  a task of that id), so a checkpoint belongs to an id and remembers which
  submission wrote it, and the map of tasks in memory shows the last one inserted
  while earlier ones live on in their lifecycles. A transition and its save are
  two steps under the lock; the scripts run without it. Any script or save may
  fail, and the process may end between any two steps. VM names come from the
  head of the id, so different ids may share one too (`VmOf`).
* `TaskReconcile` extends it with the reconciler and the cleanup service, which
  work on files and host only and take no lock: every read and every action is a
  step. `failing` is the task `fail_task` has loaded and not yet saved.
  `outside` is a history variable: whether a sweep or the host has changed a
  checkpoint or a VM yet.

**Executor and fleet.**

* `TaskExecutor`: a request's handler as a process (`req[r].pc`), its command
  (`cmd`) and the observer (`obs`) that turns the command's end into a task
  state. Every SQLite statement is a step. A request that creates a task lends it
  its name. `ended` stands for `terminal_at`, which `upsert_task` keeps although
  a later row is unfinished, and by which the recovery after a restart chooses
  (`Recovered`). `got` is what the client received, `shown` the state in the body
  that is recorded for replay; they differ when a dispatch fails.
* `FleetWorkload`: the rows and their revisions, handlers that read, project and
  compare-and-swap. Every statement is a step: the task is loaded, then its
  artifacts; the swap is tried, and after a refusal the row is read again. An
  admission may name a task and artifacts. The task table is the executor's and
  moves freely.

**Agent and sessions.**

* `AgentControl`: the agent, one connection after another, the server's two
  halves of each (inbound task, response stream), the registry entry, the
  dispatcher's tables, and the calls that create and kill sessions. The agent
  starts its forwarder when it dials (`Dial`) and queues its registration later
  (`Register`), so results and reports of an outage may come first. A command of
  `dispatch` is listed without a pid: a kill only takes it off the agent's list
  and its process runs on (phase `unlisted`). `kill_session` (`KillBegin`,
  `KillSend`, `KillForget`) and a WebSocket client that leaves (`WsLeave`) make the
  server forget sessions that may still run. Cleanup and reaper check and then
  act, in two steps.
* `SessionStream`: one session. A publisher numbers a frame, pushes it and takes
  a snapshot of the senders in one step; sends, eviction and the spill to the
  transcript follow one by one. `chan[k]` records per attachment what was sent,
  what is unread and what was refused. `Close` takes the session out of the
  registry; its ring and attachments go with the last publisher that holds it
  (`Freed`). A client's detach and the end of its relay are two steps (`Detach`,
  `RelayEnds`).

`MC...` modules give command sets, names and symmetry for TLC; `..._proofs` hold
the theorems. Definitions that model a plausible error of the code
(`...AnyState`, `BeginFromSnapshot`, `LastOpen`, ...) stand directly before the
definition they would replace. No specification uses them; they record which
mistake each property would catch.

## 3. Runs

Runs that pass:

| Run | Instance | Shows |
|---|---|---|
| `effect_callback` | 2 handlers, 2 operations (the second bound to any of five requests), 2 management ids; 1.4 million states | the ledger's inductive invariant (one dispatch, fenced generations, witnessed destroys), final bindings, real successes, agreeing completions, operations kept apart, and the refinement of `AtMostOnceEffect`, at-most-once invocation with it |
| `protocol_faults` | 3 operations, generations 1 to 3, 2 handlers, commands at any time, two faults of any kind; 750 thousand states | the effect list stays ordered and free of duplicates, recorded outcomes survive the write-back of an older copy, cell and ledger agree, the destroyed and the old generation stay quiet at the provider, and what the cell reports together with what the provider does refines `AtMostOnceEffect` |
| `orchestrator` | 2 submissions of one id, reconciler and cleanup beside them, one fault (a failed script or save, a crash, a VM lost by the host); 3.8 million states | tasks, checkpoints and VMs stay in step until a sweep or the host interferes; what the reconciler may plan to destroy, and what may rewrite an end |
| `session_stream` | 2 clients, a publisher of output and one of keyframes, 2 attachments, 2 published frames, ring of 1, channel of 3, eviction at lag 1; 2.2 million states | no duplicate, no silent gap, one controller, a valid keyframe pointer, no hole in the transcript, only slow clients evicted |
| `agent_control` | a session of a WebSocket client and a dispatched command, one name that clients kill, 2 connections, server restarts; 3.4 million states | a command is handed to the agent once, and results, reports, kills and acknowledgements are never ahead of it |
| `task_executor` | 2 requests of any kind, 1 message id, 1 restart; 980 thousand states | completed is real, replays are honest |
| `fleet_workload` | a one-shot and a daemon, a task for the first, 2 keys, 2 handlers (one of a reviewing client), revisions to 3; 3.7 million states | reports are about what was reviewed, final rows are replaced only by posted ones |

Runs that end in a counterexample, each about one sentence of the repository
(section 5; quotations under `findings`):

| Run | Instance | What happens |
|---|---|---|
| `protocol_restart` | 1 provision, 1 restart, fair | Management restarts during a provision; the ledger names an operation nobody knows and the effect stays `unknown` for ever. |
| `protocol_acknowledged` | a provision and a destroy, no fault | A command is acknowledged while `alarm()` awaits management and lost when `alarm()` writes its older copy back. |
| `cancel_leaves_vm` | 2 tasks that share a VM name | A task is cancelled while its VM is being provisioned; nothing destroys the VM that appears. |
| `task_finality` | as `task_executor` | A handler that read a task before its end writes an unfinished row over it. |
| `agent_lost_result` | 1 session, 2 connections, fair | The agent forwards a result into a dying connection and registers again before the server notices. The superseded stream's cleanup does nothing, the next session report does not name the command, and it stays pending for ever. |

Each module names its invariants one by one and joins its type invariant with the
parts that belong together (`LedgerInv`, `CellInv`, `ProtocolInv`, `TaskInv`,
`RecInv`, `SessionInv`, `ControlInv`, `ExecInv`, `FleetInv`); the runs check the
conjunctions:

* `LedgerInv`: `SingleDispatchOwner`, `NoFutureEffect`, `DestroyedIsWitnessed`;
* `CellInv`: `OneEntryPerOperation`, `OldestFirst`, `TransitionHasOpenEffect`;
* `ProtocolInv`: agreement of cell and ledger, `GenerationsInStep`,
  `DestroyedStaysQuiet`;
* `TaskInv`: `ActiveHasVm`, `PreservedVmKept`, `CheckpointFollows`; the run
  `orchestrator` checks it as `OwnActorsInStep`, that is, until `outside`;
* `RecInv`: `OnlyOvertakenVmPlanned`; `SessionInv`: `NoDuplicateFrame`;
  `ControlInv`: `SentOnce`, `NewsHonest`; `ExecInv`: `CompletedIsReal`;
  `FleetInv`: `ReportIsReviewed`.

Each conjunction also contains what makes it inductive (section 4), so TLC
checks the very formulas the proofs carry along.

**Why the bounds are enough.** *Celld:* operations of one instance interact only
through the instance row, so one provision, one destroy and one operation of the
next generation reach every pair of table states that can interact; two handlers
are what a race on one operation needs; a second overlapping handler arises from
one fault and a second fault reaches the handling of the first. No row or cell of
one instance is read for another. *Orchestrator:* tasks meet in an id, its
checkpoint and a VM name, and two submissions of one id meet in all three; one
fault beside two lifecycles, two cancels and the sweeps is a failure at any step,
or a crash with the restart that follows. *Executor:* two requests give every pair
of overlapping handlers (send with send, cancel, checkpoint, stream), and both may
address one task. *Fleet:* two rows make an inventory that changes while it is
assembled; three revisions let a row change between its read and its swap and once
more; projections concern a workload with a task, the other changes by posts only.
*Control:* two connections give the old stream, the new one and the server's view
of both; a session and a dispatched command are created, killed and reported
differently and meet in the reports. *Sessions:* attach, join and leave markers are
frames too, so two published frames make the ring of one overflow repeatedly; two
attachments are both one per client and two of one client; a resize marker goes
the way of output except that it is not archived. For the passing runs
the bounds matter only as a check of the formulas: the proofs remove them.

Symmetry is used only in runs that check no liveness. Deadlock is not checked where
rest is legitimate: all requests made and settled, or a bound used up. In
`effect_callback` it is checked.

**Fairness.** Two runs are about something that must eventually happen. They assume
weak fairness, and only of what a runtime keeps going, so that a counterexample is
due to the code and not to a step nobody takes:

* `FairProtocolSpec` (`protocol_restart`): the alarm (redelivered by the worker
  runtime), the exchange, every handler, every provisioning worker, the failure of
  a lost exchange. A provisioning worker is assumed to return from its provider
  call.
* `ControlFairSpec` (`agent_lost_result`): tasks of agent and server run while they
  have work, both ends notice a broken transport, the agent dials again.

Clients, faults, breaks and restarts are never fair. The other modules have no
fairness: nothing in the server runs the orchestrator's sweeps, and what ends a
command's channel is the control stream, of which `agent_lost_result` shows that
it may leave one open.

## 4. Proofs

All theorems hold for every set of operations, commands, handlers, tasks,
clients, connections, and so on, finite or not, and for every value of the
bounds. Each module follows one scheme: the invariant the run checks is
inductive (one lemma per action, below it one step per conjunct the action can
disturb), the safety properties follow from it, and the action properties follow
from it and from what each action writes.

**`EffectCallback_proofs`: the ledger.** `LedgerInv` is inductive: types; a row
has a request exactly when it has a status; no management operation before the
grant; an instance has a generation exactly when it is registered, and rows exist
only for registered instances; and `SingleDispatchOwner`, `NoFutureEffect` and
`DestroyedIsWitnessed` themselves. The extra conjuncts are needed because
`complete_with_code` reads the request of a row it found by status, and because
the fence of a new generation must know that an unregistered instance has no
effects. `BindingMovesForward` carries the generation argument: a claim leaves
the generation alone or raises it. From the invariant follow the action properties
`OutcomeIsFinal`, `BindingIsFinal` and `AdvanceOnlyAfterDestroy`.
(`OutcomeIsFinal` and the type invariants of ledger and callback need no run of
their own: they are proved.)

**`EffectCallback_proofs`: the handlers.** `CallbackInv` adds what each handler
knows at each call (`HandlersKnow`), that one handler at a time owns the dispatch
(`DispatchOwned`), that every invocation was granted (`InvocationsGranted`), and
that nobody decides an operation before its owner has dispatched it
(`UndecidedBeforeDispatch`: the others need a management operation, which only
the dispatch creates, or an observe, which has no effect). From it follow
at-most-once invocation and, with `LedgerCalls` (every step of a handler is a
ledger action or leaves the ledger alone), that management uses the ledger as
`LedgerSpec` says (`UsesLedger`) and implements `AtMostOnceEffect`
(`CallbackRefinesAtMostOnce`). A second invariant, `OutcomesTrue`, is about what
is recorded: a management operation was created by the one dispatch of its effect
(`IssuedOnce`), what a handler is about to record is about its own operation and
true (`EffectIsOwn`), and the end of a management operation is the same for the
store, for every handler that learnt of it, and on record, also after the store
has forgotten it (`OneVerdict`). It gives `SuccessIsReal`, `OperationsNotMixed`
and `CompletionsAgree`.

**`InstanceCell_proofs`.** `CellInv` needs the relation between the stored cell
and the copy `alarm()` holds across its await (`CopyIsBehind`): the copy is a
prefix of what is stored, and what is stored beyond it is pending. That is why
writing the copy back may lose a pending command (section 5) but never an outcome
(`OutcomesAreKept`).

**`CelldProtocol_proofs`.** `ComposedInv` joins the invariants of cell, handlers
and outcomes with `ProtocolInv`. Its core, `JoinedWith(e)`, holds of the stored
cell and of `alarm()`'s copy alike: generations are ordered along the effect list,
management knows of nothing the cell has not on record, what was carried was
carried in order, and what the cell calls settled the ledger calls the same. Both
are needed because `AlarmEnds` replaces one by the other. `WorkerAsSpecified` and
`ManagementAsSpecified` show that the composition lets each side do only what its
own specification allows, so that the theorems above hold of it, with
`ProtocolRefinesAtMostOnce` among them.

`CellRefinesAtMostOnce` carries the contract to the client. There the outcome of
an operation is what the cell reports, not what the ledger holds
(`CellImplementsAtMostOnce`), and the abstract step that decides it is the write
of `alarm()`, which may come long after the ledger's. An operation has one entry
in the effect list, so the cell reports at most one outcome for it
(`ReportsOne`); a step of the worker that leaves the ledger alone changes at most
the outcome of the effect being carried, and to a status the ledger agrees with
(`AlarmReports`, `WorkerIsAbstract`); and a step of management, which invokes or
accepts, does so for an operation the ledger has not settled, hence the cell
does not report as ended (`ManagementIsAbstract`). The write-back of an older
copy takes no reported outcome away because of `CopyIsBehind`.
`ReportedSuccessHolds` follows from the same agreement and `SuccessIsReal`: a
success read from the cell is an effect of the provider.

**`Orchestrator_proofs`.** `TaskInv` consists of what a lifecycle and a
cancellation know at each of their steps (`LifecycleKnows`, `CancelKnows`: the
task is where it was left, with that state on disk unless another task of the id
has been saved there, or has been cancelled), when a record knows of its VM
(`VmKnown`), that of two tasks with one VM name only one has a claim on it
(`ClaimsExclusive`), which is why `cleanup_vm`, going by name, destroys nobody
else's VM, and that without faults a finished cleanup has left no VM of a task
that is alone in its name (`CleanedUp`). That a submission may take the checkpoint
of another with its id is why all of them speak of the checkpoint under `Own(t)`.
`SavedEndIsFinal` follows: an end on disk is replaced only for another task of
the id. For the sweeps, `RecInv` adds that a task past keeping its VM stays past
it (`PastKeeping`), what a checkpoint tells of the task in memory
(`SavedEndHolds`), and that the plan follows from what was read
(`PlanFollowsRead`). Once a sweep has acted most of `TaskInv` is false, since
`fail_task` and `destroy_vm` act behind a lifecycle's back: `InStepUntilSwept`
says how long it holds, `RecInv` and `EndsAreKept` what is left afterwards.

**`TaskExecutor_proofs`.** `ExecInv` records what handlers and observers hold
between a read and a write (`HandlersHold`), that nothing is written or dispatched
before the row exists (`TasksExist`), and that a command goes out once and is what
its request takes for accepted (`CommandsKnown`). `ReplayIsHonest` is inductive
relative to it: an entry is about a request that has returned, whose fields no
later step changes (`DoneStays`), and about a row that stays (`RowsStay`).

**`FleetWorkload_proofs`.** Rows a handler or reviewer holds are rows the table
has or had, at a revision no higher (`Behind`, `TableBehind`, `HandlerSound`), and
a revision determines its row. `RevisionTells` concludes that two tables one of
which is behind the other and whose inventory revisions are equal are equal: this
is where `inventory_revision`, a sum, is enough to tell inventories apart.

**`SessionStream_proofs`.** The ring is ordered and gapless (`RingOrdered`),
channels belong to one attachment and are taken in turn (`ChannelsSound`), and no
publisher has sent its frame to whom it is still to be sent (`PublishersSound`).
The lemmas about `Pushed`, `Evicted` and `FramesFrom` carry ring and replay. The
assumption that a channel holds more than the ring is the code's: an attachment's
replay is queued before its relay runs, and 512 frames are more than the three
screens of the ring. `TranscriptHasNoHole` rests on what has been handed to the
archive being older than all of the ring (`HandedBefore`), so that what goes with
a dropped ring is the tail of the output and no longer than the ring
(`TailOnly`).

**`AgentControl_proofs`.** `ControlInv` has three parts, inductive together.
`WireSound`: only the last connection is intact, and nobody cleans up after an
intact one. `SentOnce`: a command in a queue towards the agent is in no other
place of any queue and unknown to the agent. `NewsHonest`: whatever the agent
has said, in any queue and at either end, and what the server has decided from
it, is about commands that were started; a result is of one that has ended, an
acknowledgement of one the agent no longer lists. It is stable because a command's
phase only advances (`PhasesAdvance`), so that the order in which messages arrive,
before or after the registration or over which connection, does not matter
(`HonestyStays`).

**What the proofs changed.** An invariant that could not be shown inductive was
sometimes a statement too strong for the code, with a counterexample outside the
instance of its run; `DestroyedStaysQuiet` is one (a command queued behind a
destroy still goes out). It is now stated as it holds. Two operators were
rewritten so that the prover can compute with them: `FramesFrom` is a suffix of
the ring and `InventoryRevision` a cardinality. That they are the filter and the
sum of the code is stated as `SuffixIsFilter` and `CountIsSum`, evaluated by TLC
on bounded inputs. Frame numbers in `SessionStream` are any naturals; only the
number of publications is bounded.

**Assumptions.** Commands are well formed (`CommandAssumption`) and in
`CelldProtocol` are those of one instance, as an `InstanceCell` is
(`ProtocolAssumption`); codes the handlers use are codes of the ledger
(`TerminalAssumption`); `VmOf`, `Kind`, `Reported`, `Publishes` and `NameOf` are
functions on their sets; there are finitely many fleet workloads, numbered
(`FleetAssumption`); bounds are naturals; and `None` is none of the values it
stands beside (`NoneAssumption`, `NoCommandAssumption`, `NoCellAssumption`,
`NoRowAssumption`, `NoSessionAssumption`,
`FleetDataAssumption`, `ControlAssumption`). TLC evaluates all of them.

**Only model-checked.** `SuffixIsFilter` and `CountIsSum` would need an induction
over data. Liveness under fairness (`AcceptedIsSettled`, `EndedIsResolved`) is out
of the prover's reach, and the code has neither.

## 5. Where the code and what is said of it disagree

Each of the following is reached in the models. Five have a run, named at the head
of the item, whose counterexample shows it.

*Celld.*

* `protocol_restart`: `docs/celld/architecture.md:281` has every management restart
  during a provision converge. The operation store is in memory; after a restart
  `resume_effect` (`management/src/http/celld.rs:594`) finds nothing and the effect
  stays `unknown`.
* `protocol_acknowledged`: `architecture.md:31` and `:282` promise that an accepted
  command is replayed until it has a result and that no acknowledged intent is
  lost. `alarm()` (`worker.mjs:194`) writes back the copy it read before its
  await, without what was accepted since. The worker's tests send 40 commands
  without waiting (`instance-cell.test.mjs:270-290`).
* Against the same line 31: all open effects share one alarm, and `alarm()` sets it
  anew only if the effect it carried is still `unknown` or `dispatched`
  (`worker.mjs:195`). When that effect ends, another open one waits until some
  later command sets the alarm.
* `architecture.md:80` calls `destroyed` a retained tombstone. A stop accepted
  behind a destroy is refused by management and turns the destroyed cell into
  `failed`.
* The ledger accepts a repeated completion (`effect_ledger.rs:405`). One of a
  provision that arrives after the destroy has completed moves the instance row
  from `destroyed` to `active`, after which the next generation is refused for
  ever. An effect of the old generation that is still open when the next begins is
  answered 409 for ever and holds up the new one.

*Orchestrator.*

* `cancel_leaves_vm`: `docs/LIFECYCLE.md:236-246` and
  `docs/task-run-lifecycle.md:288-297` say that a cancellation from any
  non-terminal state destroys the VM. `cancel_task`
  (`management/src/orchestrator/mod.rs:310`) destroys the one in `vm_name`, which is
  empty while the VM is being provisioned.
* `docs/reliability-architecture.md:178-204` and `docs/task-run-lifecycle.md:421-425`
  have interrupted tasks resumed after a restart. `restore_from_checkpoints` only
  puts them back into memory, and neither it nor `Reconciler` nor `CleanupService`
  is called outside tests and examples.
* Where the sweeps do run, the reconciler may plan to destroy the VM of a task that
  became ready between its two reads; `fail_task` may overwrite an end saved after
  it loaded the checkpoint; and a lifecycle carries on after its checkpoint was
  failed behind its back.
* An id that is submitted again starts a second lifecycle beside the first, with
  the same checkpoint file and VM name; the second `provision_vm` fails while the
  first one's VM exists.

*Executor and fleet.*

* `task_finality`: `store/task_store.rs:156` says of a terminal state that no
  further transitions are permitted. The `working` write of `send_message`, the row
  written back by `graph_checkpoint` and the observer's outcome replace whatever is
  there: an ended task becomes working again, a cancelled one completed. Such a row
  keeps its `terminal_at`, and therefore the recovery after a restart passes over it.
* `docs/contracts/extensions/idempotency/v1/spec.md:183` has a replay identical to
  the first response, as the comment at `send_message.rs:449` has it. When the
  dispatch fails the client receives a problem document (`:481-502`), while the
  task's JSON is recorded for replay (`:451-461`). Two sends with one key that both
  find no entry both run, and the second replaces the first one's entry
  (`spec.md:105-106`, `:185`). `ReplayIsHonest` says what can be relied on.
* A task whose inline push configuration is refused, or that comes from
  `messages:stream`, is stored and dispatched by nobody. After a restart only graph
  tasks are failed; others stay unfinished.
* `docs/contracts/fleet-workload/v1/spec.md:44`, `:73` and `:106-108` make an
  assigned identity immutable. `observe` (`management/src/http/fleet.rs:419`) checks
  it against the row it found and the update compares only the revision the client
  expected: of two observations in flight, the second expecting one revision more
  than it found, the second replaces the identity the first has just bound. TLC
  finds it in six steps of `FleetWorkload` with two task ids reported for one
  workload.

*Control and sessions.*

* `agent_lost_result`: the comment at `grpc.rs:534` has a disconnect clean up all
  sessions and pending commands. For a superseded stream it returns at once.
* `dispatch/dispatcher.rs:1272-1274`, `docs/SESSION_RECONCILIATION.md:43-57` and
  `:646` and `docs/TROUBLESHOOTING.md:578-586` say that sessions the server does not
  know after its restart are killed. The report is imported into the server's tables
  before it is compared with them, so they are adopted.
* Two creates under one name that both find it free leave the first session running
  and forgotten; a result that overtakes `CreateTrack` leaves an entry for a session
  that has ended; a cleanup or reaper between its check and its effect may unregister
  an agent that has just registered anew, and a registration of a dead stream that is
  worked off late may displace that of the live one. A kill of a command without a pid
  is acknowledged while its process runs on.
* `fan_out` evicts by client id: a client that was slow and has attached again loses
  the new attachment (`EvictedClientWasSlow` allows it). What is still in the ring
  when a session closes is not written to the transcript (`TranscriptComplete` bounds
  it).
* `docs/pty-rendering.md:93` still lets several controllers coexist; `session/mod.rs:37`
  and `docs/ws-protocol.md:160` have one, and so has the code (`OneController`).

## 6. Not modelled

* Signatures, nonces, mTLS identities, key rotation, enrolment tokens and SSH
  leases: a request that reaches a handler is authentic.
* Failures of SQLite: the transaction rolls back and the handler answers an error.
* Attempt counters, back-off delays, ages and deadlines: an armed alarm may fire,
  an answer may expire and a finished task may be old enough at any time.
* Read-only routes, listings, presentation, metrics and logs.
* In the orchestrator: output streaming, artifacts and exit codes;
  `CircuitBreaker`, `VmPool`, degradation, `HangDetector` and `TimeoutEnforcer`,
  which nothing outside their tests constructs at this commit. The same holds of
  `restore_from_checkpoints`, `Reconciler` and `CleanupService`; they are modelled
  because the documentation describes the orchestrator with them. `outside` keeps
  the behaviours without the sweeps apart.
* In the executor: push delivery and subscriptions, which read tasks; the states
  `input-required`, `auth-required` and `rejected`, which no code outside tests
  sets; `purge_expired`, `evict_to_cap` and `delete_task`, which are not wired.
* In the fleet: session and command identities, which are assigned by the rule for
  the task identity (a projection also fills in a missing command identity) and
  read by nothing.
* In the control stream: output, stdin, headless replacement, tmux sessions the
  agent discovers, the InstanceContext of the A2A surface.
* In the sessions: bytes, encodings and the ring's byte cap.
* The PTY binding of the executor (`bindings/pty_ws.rs`): a second replay window of
  the kind `SessionStream` models, within framing and authorisation. It also inserts
  and cancels rows of the task table (lines 2088 and 2205), which `TaskExecutor`
  does not have among its writers.
* `EffectLedger::claim` and the in-process cell of `celld/model.rs`, which only
  tests drive.
* Providers, telemetry, certificates, the command line and images. The largest
  files of the repository (`admin_v2.rs`, the servers' `main.rs`, the CLI) are
  mostly routing, request validation, formatting and calls to external programs.

## 7. Plan

1. *(done)* Celld ledger, callback, cell and protocol; ledger and callback proofs;
   refinement of `AtMostOnceEffect`.
2. *(done)* Orchestrator with sweeps, executor, fleet, control stream, sessions.
3. *(done)* Proofs of every safety property of the runs; the composed protocol
   shown to use cell and management as specified, and to implement
   `AtMostOnceEffect` as a client of the cell sees it.
4. Next: the abstract specification of a task (submitted, running, ended once)
   that `TaskLifecycle` would refine up to what section 5 names; a worker that
   re-reads the cell after its await and sets the alarm for whatever is open,
   under which `AcknowledgedIsRecorded` should hold; shorter proofs of the control stream.
