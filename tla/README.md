# Verification of the Grok Build Desktop core

TLA+ specifications, TLC configurations and TLAPS proofs for the parts of this
repository that decide *when work starts, when it is refused and when it is
over*. Paths below are relative to the repository, with the prefix `src/` that
`PROJECT.json` uses for its root.

Two programs live in the tree. `packages/desktop` is Grok Build Desktop, an
Electron application that drives the Grok Build command line from its window,
from Telegram and from a task scheduler. `src` is the gateway it is built on, a
long-lived Node process in which messages, timers and RPC requests start agent
runs. Both are single-threaded JavaScript: a step of every specification is one
synchronous section of the source, the code between two awaits, timers or
callbacks, and all concurrency is the order of these sections.

## 1. Inventory

### Components that are modelled

**Command queue** (`src/src/process/command-queue.ts`).
*State:* per lane a priority queue, the ids of the active tasks, a concurrency
limit and a generation; a global enqueue number; the waiters of
`waitForActiveTasks`. *Operations:* enqueue, task end (result, error or one of
four timeouts), set the limit, clear a lane, reset one lane or all, wait for
the active tasks. *Interactions:* enqueue asks the admission module whether it
is open; `resetAllLanes` also resets admission; recovery code of the agents
resets single lanes; the run loop resets all of them after a drain.
*Hard:* a body may outlive its timeout and its lane's generation; every path
that frees a slot must pump the lane; waiters are only looked at on some paths.
*Correct if* no slot is leaked or taken twice, no call is lost or duplicated,
priorities and arrival order are kept, no call waits beside a free slot, and a
waiter is told exactly when what it captured is over.

**Gateway work admission** (`src/src/process/gateway-work-admission.ts`).
*State:* the set of root records with reference count and flag, three fences
(restart drain, restart signal, suspension) with generations, two sets of
waiters, leases held by others. *Operations:* six entry points that create,
join, share or refuse a root; release; wait for the roots; acquire, commit,
roll back and release a suspension; raise and roll back a signal; drain; reset.
*Interactions:* every message, timer and RPC enters here; the coordinator
holds the suspension lease, the run loop the signal lease and the drain.
*Hard:* releases repeat and survive a reset; chains inherit roots that have
ended; a woken caller looks again only in a later microtask; leases are used
after they were superseded. *Correct if* a root lives exactly as long as
someone holds it, nothing but descendants of live roots enters behind a fence,
no caller is stranded behind an open fence, and a lease that was superseded is
inert.

**Gateway suspend coordinator** (`src/src/infra/gateway-suspend-coordinator.ts`).
*State:* one entry, held or recovering, one retired entry, a timer; whether
the cron scheduler is paused. *Operations:* prepare, renew, resume, expiry,
recovery retry, drain callback, lifecycle reset. *Interactions:* uses the lease
of admission, pauses and resumes the scheduler, is reset by the run loop before
the lanes. *Hard:* the scheduler may throw anywhere; expiry races renewal,
resume and a prepare that finds the suspension expired; a drain takes the lease
away in between. *Correct if* it is fail-closed (admission reopens only after
the scheduler resumed), the fence always has an owner, a suspended gateway
stays idle, and deferred callers are answered in the end.

**Grok Build harness** (`src/packages/desktop/src/main/grok-build-backend.ts`).
*State:* the current child, the abort controller of the consultation,
`cancelRequested`, timers. *Operations:* run (preflight, advisors, child,
fallback child), cancel, isRunning, the child's events. *Interactions:* called
by the window (`ipc.ts`), Telegram (`index.ts`) and the scheduler
(`scheduled-tasks.ts`), none of which waits for the others. *Hard:* the test for
another run is several awaits before the assignment that makes it true; one
cancellation flag serves all runs; children end in any way, at any time.
*Correct if* one child runs at a time, a cancelled run stops and is reported
truthfully, and nothing of a run is left to disturb the next.

**Telegram agent** (`src/packages/desktop/src/main/index.ts`, with
`grok-run-utils.ts`). *State:* the reservation (`telegramTaskReserved`,
`telegramRunningChat`), `telegramTaskCancelled`, the queue of tasks, the stored
transcript and last task of each chat, the run records. *Operations:* a task
comes in, is queued or starts, is announced, runs, is reported, saves its turn,
replies; /steer, /interrupt, /cancel, /retry, /undo, /compress, /new; restart.
*Interactions:* the bridge starts a handler for each update; the harness is
shared with the window and the scheduler. *Hard:* a handler reads the transcript
before its run and writes it back after two more awaits; the reservation is
given back in between; a cancellation is a flag that outlives the task it was
for. *Correct if* one task holds the reservation, none waits without another
one ahead of it, and run records and transcripts tell what happened.

**Telegram bridge** (`src/packages/desktop/src/main/telegram.ts`). *State:*
`polling`, the generation of the loop, the offset in memory and in the store,
approved, pending and notified chats. *Operations:* connect, disconnect, the
loop's awaits, approval of chats, restart. *Interactions:* Telegram forgets what
is below an offset it is asked for; handlers are started and not awaited.
*Hard:* an older loop may still be waiting for the network when a newer one
starts, and then acts on shared state; the offset moves before the batch is
done and is stored after it. *Correct if* no update is skipped, none of a
finished batch is handled again, and the status shown is true.

**Session delivery queue** (`src/src/infra/session-delivery-queue-storage.ts`,
`-recovery.ts`, `-runtime.ts`, with the deliver functions of
`src/src/gateway/server-restart-sentinel.ts` and
`server-restart-sentinel-agent-delivery.ts`). *State:* rows in SQLite (status,
retries, attempt, whether it was charged and started, the settlement to be
finished), the drains in progress, the runtime with its timers. *Operations:*
hand over, drain, own, accept, charge, advance, settle, finalize, scan, recover;
start and stop of the runtime; crash. *Interactions:* subagents hand media turns
over, the restart sentinel a continuation; timers, the recovery and the sentinel
compete for a row. *Hard:* any database call may fail and the process may die
between any two of them; a turn must not run twice nor be forgotten.
*Correct if* an attempt is accepted at most once and pays for itself, a final
row was told to its owner, and a pending row always has something that will come
back to it.

### Components that are not modelled yet, or will not be

| Component | State and operations | Hard part | Plan |
|---|---|---|---|
| Task scheduler (`scheduled-tasks.ts`) | tasks with enabled, nextRunAt, running; tick, finish, toggle, run now | finish overwrites an edit made during the run | module `TaskScheduler`; today a front end of the harness in `TelegramAgent` |
| Window queue and conversation store (`App.tsx`, `conversation-store.ts`) | prompt queue, save chain, thread files | failed save poisons the chain; relaunch between two writes | module `ConversationStore` |
| Gateway run loop (`cli/gateway-cli/run-loop.ts`, `infra/restart*.ts`) | signals, deadlines, drain and reset order | order across the three gateway modules | composition `GatewayRestart` |
| Store writer queue (`shared/store-writer-queue.ts`) | FIFO per file, re-entrancy | a writer that enqueues on its own file | module `StoreWriterQueue` |
| Follow-up reply queue (`auto-reply/reply/queue`) | batches and steering per session | late messages during a run | candidate |
| IPC and run records, desktop services, cron schedules | little protocol state | — | not planned |
| Agents, channels, RPC, plugins, front ends | adapters around the core | — | out of scope |

## 2. Modules

| Module | Extends | Models |
|---|---|---|
| `CommandQueue` | – | `command-queue.ts` |
| `WorkAdmission` | – | `gateway-work-admission.ts` |
| `SuspendCoordinator` | `WorkAdmission` | `gateway-suspend-coordinator.ts`, with every action of admission running under it |
| `GrokHarness` | – | run, cancel, isRunning of `grok-build-backend.ts` |
| `HarnessContract` | – | what the callers of the harness may rely on |
| `TelegramAgent` | `HarnessContract` | the task part of `index.ts`, run records |
| `TelegramBridge` | – | the polling part of `telegram.ts` |
| `SessionDelivery` | – | the three modules of the session delivery queue and its deliver functions |
| `CommandQueueProofs`, `WorkAdmissionProofs`, `SuspendCoordinatorProofs`, `GrokHarnessProofs`, `TelegramAgentProofs`, `TelegramBridgeProofs`, `SessionDeliveryProofs` | their module, `TLAPS` | theorems |
| `MC…` | its module | constants and symmetry for TLC |

How state and actions correspond to the code, definition by definition, is the
`map` of `PROJECT.json`. The choices a reader should know:

*CommandQueue.* An entry stands for a call of `enqueueCommandInLane` and for its
task id. `drainLane` is the operator `Drain`, evaluated at the end of every
action whose handler calls it; the `draining` flag lives and dies inside one
synchronous section, so it is no variable. `Vacancies` counts the turns of the
pump's loop. The four timeouts (budget, idle, abort grace, release) have one
effect on the queue and are one action, `TaskTimesOut`; the body goes on as
"unwinding". A task ends one step at a time, because the `await` of a task
resumes in a section of its own. The `onWait` callback and the diagnostics are
left out: every caller only logs in it. `Refuse` is the enqueue behind a closed
admission; the condition is not tied to the fences here, which `GatewayRestart`
will do.

*WorkAdmission.* A root is named by the chain whose call created it. The
inherited root of a call (AsyncLocalStorage) is chosen among all roots ever
created, ended ones too, since an async chain keeps its store for good.
Waking and rechecking are two steps (`Woken`, `Recheck`), and other sections
run between them. A lease function may be called at any time and again: the
generations alone make it inert. `suspension[u]` and `signal[s]` are what the
*holder* of a lease can know from results and callback, and the properties
compare this with the module's own state.

*SuspendCoordinator.* Time is counted in ticks up to `Ttl`; at `Ttl` a held
suspension is expired, and the timer, a prepare, or a resume may find it. The
synchronous part of prepare is one step, whose result depends on the roots that
are active (`idle` may also be false for work of other kinds, which the snapshot
counts) and on the scheduler (`ok`). The run loop's hook order, coordinator
first and lanes second, is the action `LifecycleRestart`.

*GrokHarness.* `Call` is the synchronous start of `run`, the awaits before the
child are one step `Consult` or `Start`, the advisors end in `Consulted`. A child
is named by its run, since a run's second child starts after the first has
exited. The front ends do not wait for each other; `alone[r]` is a history
variable that says that no other run was under way during r, and properties
about the one cancellation flag are claimed for such runs. `asked` (the stage a
run was in when cancel was first called) is a history variable too.

*HarnessContract* is the abstract specification between the harness and its
callers: a run is refused, starts, works and ends; `engaged` is what isRunning
answers and `stopping` an outstanding request. `GrokHarness` implements it with
`standing` as the visible part of `stage`, `engaged` as `isRunning`, `stopping` as
`cancelRequested` (`View`, `ImplementsContract`). `TelegramAgent` extends it: its
steps are steps of the contract joined with the agent's own.

*TelegramAgent.* A step runs from one await on the network or the harness to the
next, together with the microtasks it queues: nothing else can run in between
but other microtasks. So the settlement of a run, the release of the reservation
and `processNextTelegramTask` are the one step `Settled`. `job[m]` holds the
locals of the handler of message m, of which the transcript it has read (`seen`)
matters most, and its run record. `Pump` is `processNextTelegramTask`, `Starts`
the section that takes the reservation, with the reset after idle hours as a
choice. The window and the scheduler are runs outside `Message`. Model, project,
reasoning mode and the native session's id are left out.

*TelegramBridge.* There is one loop for each generation, and `loop[g]` is where
it awaits something. A request is received (`Received`: Telegram forgets what is
below its offset) and answered (`Answered`) in two steps, and either may fail.
`Deal` is the synchronous part of a batch up to the next pairing notice, which
is the only await in it; `send` catches every error, so a notice that could not
be sent is no different. `AuthError` and `Answered` act on shared state without
a look at the generation, as the code does.

*SessionDelivery.* `worker` holds the drains in progress: the timer of a row, a
recovery, the restart sentinel. `current` says whether the runtime that started
a drain is still there. Each write to the database is paired with its failure,
in which the row keeps its old value; a settlement is written over the row as it
was read when the drain began, so `Settled` restores `started`. The retry budget
is one constant; time is left out: a timer may fire and find its row not due
(`FireSkips`).

*Fault operators.* Each module holds, beside some definitions, a variant whose
comment begins with "Fault:". It is that definition with one plausible bug and
is used by no action. `PROJECT.json` pairs every property with a fault that
breaks it, which shows that the property and the bounds can tell the difference.

## 3. What the runs check

Bounds are constants of the configurations; each module's counters are bounded
by its own constants (`MaxGeneration`, `MaxReset`, `MaxRenew`, `MaxRestart`,
`MaxConnect`, `MaxStart`, `MaxCrash`) and by the fact that each entry, chain,
lease, run and message is used once.

| Run | Instance | Shows |
|---|---|---|
| `queue` | lanes `main` and `probe`, three timed calls, two of them in `main` with different priorities, limits -1 and 1, one waiter, one reset per lane; `LiveSpec` | slots counted exactly across timeouts, resets and late ends; no free slot beside queued work; nothing starts beyond a limit or out of order; a pending wait has a task to wait for; every queued call leaves an unpaused lane |
| `admission_roots` | three chains, one suspension, one drain waiter, one restart | exact reference counts, drain waiters with work to wait for, a drain that stays drained, fences passed by descendants only |
| `admission_leases` | two chains, two suspensions, two signals, one restart | no stranded caller, leases that agree with the fence, fences with an owner |
| `suspend` | two hosts, two suspensions, one signal, two chains, expiry after two ticks, one renewal, one restart | types of both modules; entry, fence and scheduler stay together; a suspended gateway stays idle |
| `suspend_live` | one host, two suspensions, two chains, expiry after one tick; `LiveCoordinatorSpec` | a caller that waits behind a suspension is let in or refused |
| `harness` | two runs that overlap or not; `LiveSpec` | nothing left after all are over; of a run alone, a cancel during consultation holds, `cancelled` is truthful, a cancelled or finished child goes; `HarnessContract` is implemented |
| `harness_single` | two overlapping runs | violation: two children at once (finding 1) |
| `harness_stop` | one run | violation: a cancel before the child exists is lost (finding 2) |
| `telegram_agent` | three messages of two chats, a run of another front end, two turns kept, one restart | one reservation, a queue that holds exactly the waiting tasks, no stranded task, true run records, sound transcripts |
| `telegram_turns` | two messages of one chat with an earlier turn | violation: a task's end puts back a removed turn (finding 3) |
| `telegram_bridge` | two updates of two chats, three generations, one connection, one restart; `LiveSpec` | no update skipped, a true status, nothing of a stored batch handled again, updates to a polled bot dealt with |
| `session_delivery` | one row of either kind, three retries, two starts of the gateway in each process, one crash; `LiveSpec` | no turn run twice, no free attempt, final rows told, no pending media turn forgotten, each one settled |

*Why the bounds are enough.* The interesting cases are reached. In the queue
three calls give an insertion before and behind another call of the lane, a
limit above and below the number of active tasks, and after one reset a task of
the old generation ends beside one of the new; a second reset adds no new kind
of generation, since the code compares generations with `=` only. Two lanes
suffice for what lanes share: the sequence number, the waiters and the common
reset. In admission three chains are a root, a chain that shares it, and a
stranger or a child of a child; two leases of a kind are the one in force and
one that was superseded. In the coordinator the second suspension comes after
the first has ended in any way. For the harness two runs overlap in every order.
In the agent three messages are one that runs, one of the same chat that waits
and reads the transcript in the meantime, and one of another chat between them;
a chat that starts with a turn and two turns kept let a transcript overflow. In
the bridge two updates are one whose chat is paired and one whose chat is not,
in either order of approval, and three generations are a loop that was
disconnected, the disconnection, and a loop of the new connection. A delivery
row interacts with no other row but in a recovery's list, so one row with all
its workers is the case that matters; three retries let an attempt be charged,
advanced, and be at its limit and beyond. The theorems of section 5 remove the
bounds for every safety property of the passing runs.

*Symmetry.* Chains, leases of one kind and hosts are interchangeable and permuted
in the safety runs, as are the two messages of one chat in `telegram_agent`; runs
that check liveness, and the command queue, whose entries have priorities, use
none.

*Deadlock.* The command queue runs with deadlock checking: a limit can always be
set. In the other modules each chain, lease, run, message or crash is used once,
and a behaviour in which all have been is a finished one, so
`CHECK_DEADLOCK FALSE`; the liveness properties say what must not stop half way.

## 4. Fairness

*Command queue* (`TimerFairness`): weak fairness of `TaskTimesOut` for each
entry, which has to be given a timeout to be enabled. A timer of Node fires; a
task's body is never assumed to end. An idle timeout that its progress callback
keeps renewing is excluded, as this is a task at work. `QueuedCallLeaves` allows
for a lane paused at limit 0, where the code promises nothing; a probe lane has no
such excuse, since it keeps a slot at any limit.

*Coordinator* (`CoordinatorFairness`): time passes; the expiry timer fires;
a woken caller runs (microtasks do); the run loop restarts after a drain; and
the scheduler, tried again each second, does not throw forever, a strong
fairness of the successful `Retry`, because drains disable it in between. The
host is not assumed to resume. Renewals are bounded by `MaxRenew`: a host that
renews forever holds the fence forever, by design.

*Harness* (`Fairness`): the completion timer and the kill timer fire, and a
child that got SIGKILL exits. Nothing makes a child heed SIGTERM, an advisor
answer, or the preflight end.

*Bridge* (`Fairness`): a loop goes on when what it awaits has come or failed, and
a request that is repeated for ever is received and answered in the end, a strong
fairness of both, because failures come in between. Nobody is assumed to write,
to approve a chat or to connect. An invalid token or a rate limit pauses polling
by design, so `PolledIsDealt` promises something only while polling is on.

*Delivery* (`Fairness`): timers fire, what a worker awaits comes, and the database
and the agent do not fail for ever: a row that keeps being due is drained, a
drain that keeps being begun changes its row, and a scan that is retried succeeds
(strong fairness of each, as failed tries come in between). Without the second
there would be nothing to promise: a turn that never ends is deferred for ever.

## 5. What is proved

`CommandQueueProofs` proves for all lanes, calls, priorities, limits, waiters
and bounds, from `CommandQueueAssumption` alone (probe lanes are lanes, finitely
many calls, total functions for lane, priority and timeout):

| Theorem | Statement |
|---|---|
| `Invariance` | `Spec => []IInv` |
| `TypeCorrect` | `Spec => []TypeOK` |
| `SlotsAccounted` | `Spec => []SlotAccounting` |
| `QueuesAccounted` | `Spec => []QueueAccounting` |
| `QueuesOrdered` | `Spec => []QueueOrder` |
| `NoLostWakeUp` | `Spec => []NoIdleSlot` |
| `WaitersServed` | `Spec => [](WaiterHasWork /\ DrainedIsFinal)` |
| `LimitKept` | `Spec => StartsWithinLimit` |
| `OrderKept` | `Spec => StartsInOrder` |

*The invariant.* `IInv` is the conjunction of the safety invariants with three
helpers, each there because a step needs it:

- `EntryNumbers`: a queued entry has a number below `nextQueueSequence`. Without
  it a new entry could carry a number below that of a queued one of its
  priority, and insertion before the first overtaken entry would not sort.
- `GenerationsPast`: no task was started in a generation still to come. Without
  it the increment of a reset could bring the generation to one that an old task
  captured, whose late end would then free a slot.
- `CapturedBegun`: what a waiter captured has started. Without it an entry that
  starts now could be one that a drained waiter captured.

*The argument.* Nearly every handler ends in `drainLane`, so most of the work is
in one lemma. `DrainPreserves` says: if a handler has brought queues, slots,
limits, generations and phases into a state that is sound except that free slots
may stand beside queued work in the lanes it is about to drain (`Ready`), then
after `Drain` that exception is gone (`Settled`). Each action then only shows
that what it hands over is `Ready`; clear and pause, which do not drain, show
`Settled` themselves. The lemmas below it
are about the operators: where `InsertPosition` lies and that `Inserted` keeps
order and content, how many entries `Vacancies` lets start, and what `Rest` and
`Started` divide the queue into. `LimitKept` and `OrderKept` use the invariant
for the state before the step and a lemma on what a drain starts.

`GrokHarnessProofs` proves for any number of runs, from `GrokHarnessAssumption`
(of which only `NoRun \notin Run` matters): `TypeCorrect`, `ChildrenAccounted`
(`Spec => []ChildrenBelong`) and `NothingLeftBehind` (`Spec => []NoResidue`).
`NoResidue` speaks only of states in which no run is under way and is far from
inductive. What carries it is that each piece of state that could stay behind
always has a run that will clear it: `current` one whose child lives
(`ChildrenBelong`), `moaAbort` one that is consulting (`HandleConsults`), and
`cancelRequested` some run that is consulting or running (`RequestPending`). No
action lets the last such run go without clearing it. `RunChildStep` is stated
once and used for the first child, the child after a consultation and the
fallback child.

The same invariant carries the refinement. `ContractKept` (`Spec =>
ImplementsContract`) says that `GrokHarness` implements `HarnessContract`.
`InitMaps` and `StepMaps` are the two halves: every step is a step of the
contract under the mapping, or leaves what callers see unchanged. The delicate
part is the end of a run (`EndMaps`): the contract allows isRunning and an
outstanding request to survive it only for another run that works, and this is
`ChildrenBelong`, `HandleConsults` and `RequestPending` after the step.

The cancellation of a run that no other overlapped has an invariant of its own,
`AloneInv`, proved on top of `IInv`: `CancelReported` (`CancelReportTrue`) and
`AbortKeepsFromChild` (`ConsultationStops`). `alone[r]` says nothing of who holds
the handle or set the request, so the induction needs that two runs under way
together are both not alone (`AloneApart`), and that while a run is alone a
request implies that it was asked and its consultation's handle is its own
(`AloneSound`).

The other modules have theorems for every safety property of their runs:

| Proofs of | Theorems (property) |
|---|---|
| `WorkAdmission` | `AdmissionInvariant`, `AdmissionTypes` (`TypeOK`), `RootsCounted` (`ReferencesExact`), `OpeningWakesCallers` (`OpenWaiterNotStranded`), `DrainingEndsWaits` (`DrainWaiterHasWork`), `LeasesAgree` (`LeaseHolderAgrees`), `FenceOwned` (`FenceHasOwner`), `FencesAdmitDescendants` (`ClosedAdmitsOnlyDescendants`), `DrainStaysFinal` (`DrainIsFinal`) |
| `SuspendCoordinator` | `CoordinatorInvariant`, `CoordinatorTypes` (`CoordinatorTypeOK`), `FenceHasEntry` (`CoordinatorOwnsFence`), `FailClosed` (`SchedulerFollowsFence`), `HeldStaysIdle` (`SuspendedStaysIdle`), `AdmissionUnderSuspension` (the five invariants of admission, under `CoordinatorSpec`) |
| `TelegramAgent` | `AgentInvariant`, `AgentTypes` (`TypeOK`), `OneReservation` (`OneTaskAtATime`), `QueueServed` (`NoStrandedTask`), `RecordsTellTheTruth` (`RecordsTrue`), `TranscriptsTrue` (`TranscriptSound`) |
| `TelegramBridge` | `BridgeInvariant`, `BridgeTypes` (`TypeOK`), `NoUpdateSkipped` (`NothingSkipped`), `StatusTrue` (`PollingHonest`), `HandledOnce` (`StoredIsFinal`) |
| `SessionDelivery` | `DeliveryInvariant`, `DeliveryTypes` (`TypeOK`), `AttemptsRunOnce` (`RunOnce`), `AttemptsPaid` (`BudgetKept`), `SettlementsTrue` (`FinalIsTrue`), `NoRowForgotten` (`RowsWatched`) |

Each rests on the module's named assumption about its constants and on one
inductive invariant, which TLC has confirmed on the run's instance first. What
the invariants add to the properties is where the reasons lie:

- `AdmissionInv` adds that a chain has a handle exactly while it runs, shares or
  is over, and on a root that was created (`HandlesSound`), and that the generations a
  lease remembers never lie ahead of the module's (`LeaseGenerations`,
  `SignalGenerations`), so that a superseded lease cannot match again.
- `CoordinatorInv` is admission's invariant with `CoordinatorOwnsFence` and
  `SchedulerFollowsFence`. Every step of the coordinator is a lease step of
  admission joined with one of its own entry, so the lemmas of admission are
  used again, step by step, and its safety holds under the composition.
- `AgentInv` speaks of jobs, queue, chat and transcripts as arguments, because
  most handlers hand what they leave to `Pump`: `PumpStep` says once that what is
  `Sound` before `processNextTelegramTask` is so after it, and each handler shows
  that it hands over something sound. It adds what handlers remember across
  their awaits: that the turns a task has read are sound for its chat
  (`StoreSound`), that what the harness works at is a task at its `running`
  await (`RunsSound`), and that whoever holds the reservation while
  `telegramTaskCancelled` is set was stopped (`CancelsSound`). Without the second,
  an engaged harness could belong to nobody, and a queued task could wait for
  it (`EngagedByTask`).
- `BridgeInv` calls an offset *honest* if every update below it was dealt with,
  and adds to the offset, the store and what Telegram was told the place of
  every loop in its batch (`LoopSound`), superseded loops too. Until the first
  connection there is one loop at most (`FirstLoop`), from which `HandledOnce`
  follows. A batch is dealt up to the first update that needs a pairing notice;
  that there is a first one is a minimum of a set of naturals (`SmallestOf`, from
  the well-foundedness of their order).
- `DeliveryInv` adds what a row says about its turn (`RowSound`: an attempt that
  is not marked as started was not accepted, a stored charge pays for the next
  one) and how a worker's await stands to its row (`DrainSound`), which no other
  worker is on (`Exclusive`). Every write of the database may fail or be the last
  before a crash, and the row as it stands must be sound in both cases.

*What the proofs corrected.* `TranscriptSound` once said that no transcript
holds a turn twice, and TLC agreed for three messages of two chats. The induction did not
close: a task in flight when `/retry` removes the last turn puts it back, and the
retried task reads it. Four messages of one chat reach this state; the property
now makes the exception (`Retried`), and its proof covers any number of messages.

`TypeOK`, `QueueAccounting`, `QueueOrder` and `DrainedIsFinal` of the queue,
`TypeOK` and `ChildrenBelong` of the harness and `TypeOK` of admission are parts of
the invariants that are proved for all instances; TLC's runs spend their
properties on what is closer to a user's question.

*Only model-checked.* The liveness properties `QueuedCallLeaves`,
`WaitingCallerAnswered`, `CancelledChildGoes`, `EndedChildTold`, `PolledIsDealt` and
`Settles`: the prover handles neither fairness nor `ENABLED`. Facts by induction
over data are out of the prover's reach, as are `RECURSIVE` operators, of which
the modules have none: the pump's loop is stated by the number of entries it
starts instead, and a batch of the bridge by where it stops.

## 6. Findings

1. **Two harnesses at once** (`harness_single`). `run` refuses a second call by
   `isRunning()` (`grok-build-backend.ts:291`), but `current` is first set in
   `runChild` (line 441) and `moaAbort` at line 323, both after several awaits.
   Two front ends that call in this time both start a child, and the second
   takes the first one's place in `current`, beyond the reach of cancel.
   `docs/TELEGRAM.md:22`: "A global FIFO queue protects the single active Grok
   Build harness".
2. **A cancel that is lost** (`harness_stop`). `cancel` (line 566) acts on
   `moaAbort` and `current`. In the preflight both are null: nothing is
   recorded, Telegram answers that the task is being stopped, and the child
   starts. `docs/TELEGRAM.md:41`: "`/cancel` - stop the active task".
3. **Removed turns come back** (`telegram_turns`). A task saves the transcript
   it read before it ran, with its own turn added (`index.ts:436`), and the
   reservation was given back before that, with the await of `deleteProgress`
   in between. In the trace `m1` has read a transcript with an earlier turn and
   run to its end; while it tidies up, `m2` arrives after the idle hours and
   empties the transcript (`index.ts:330`); then `m1` saves the earlier turn again,
   with its own. `/new`, `/undo` and `/compress` are undone in the same way.
   `docs/TELEGRAM.md:43`: "A retry, undo, compaction, or idle reset starts a clean
   native Grok session and supplies only the retained visible context,
   preventing removed replies or private reasoning from returning through
   native session state".

   `TurnsAddUp` also excludes what longer behaviours of the same cause do and this
   trace does not show: a turn that is saved after the next task has read the
   transcript is lost when that one ends, and a turn that `/retry` removed is saved again and then
   stored twice, as the retried task starts from there.

The harness and the agent are weaker than their documentation in these points,
but not beyond them. `NothingLeftBehind` shows for any number of runs that no
handle and no request survives the last one; that `cancelled` is truthful is
claimed only for a run alone, since overlapping runs share one flag.
`TranscriptSound` shows that a transcript may lose turns but never holds one of
another chat or of a task that did not complete, and one twice only if it was
retried.

*Further departures, met while modelling.* They are part of the modules, and the
properties are stated so that they hold beside them.

- A Telegram task queued behind a run of the window or the scheduler starts only
  when another Telegram task comes or ends, since nothing else calls
  `processNextTelegramTask`. `README.md:136` says of the window's queue that
  messages are "drained automatically"; `NoStrandedTask` is claimed while the
  agent is the only front end.
- The window's stop button cancels a Telegram task without setting
  `telegramTaskCancelled`; when the run settles without an error its record says
  `completed`.
- `AuthError` and the answer of an older loop act on the newer generation: an
  old token's rejection pauses the new connection.
- A loop that awaits a pairing notice when the bot is disconnected goes on with
  the rest of its batch.
- `docs/TELEGRAM.md:48` says that the persisted offset prevents duplicate
  processing after a restart. A process that dies within a batch, at a pairing
  notice, handles the earlier updates of the batch again; `StoredIsFinal` is
  stated for finished batches.
- `server-runtime-services.ts:286` speaks of persisted rows not left without
  timers. A continuation whose sentinel has given up after the runtime made its
  scan has none until the next start; `RowsWatched` and `Settles` are stated for
  media turns.
- A continuation whose session was replaced is delivered as a system event even
  if its attempt had started (`server-restart-sentinel.ts:193-205`, before the
  test of line 222).

## 7. Plan

What is left, in this order.

1. `TaskScheduler`: enabled, nextRunAt and `finish`, as a caller of
   `HarnessContract`; an edit made during a run is not overwritten by its end.
2. `GatewayRestart`: `CommandQueue`, `WorkAdmission` and `SuspendCoordinator`
   under the order of the run loop. Properties: nothing is enqueued behind the
   drain except by live roots; after the reset all three modules are open.
3. `ConversationStore`: save chain and thread files of the window.
4. `StoreWriterQueue`.
5. Abstract specifications: a priority queue with k servers that `CommandQueue`
   implements (pending, running and finished calls, no sequence numbers or
   generations), and an open-or-closed gate with a set of holders that
   `WorkAdmission` implements; each as a `PROPERTY` first, then by proof.
6. Theorems: that these abstract specifications are implemented, from the
   invariants that are proved.

*Not modelled, within modelled parts.* Clock times (backoff, leases, idle hours,
expiry of tombstones and the pace of the recovery): a timer may fire at any time
and find that it is too early. `systemEvent` rows of the delivery queue, which
are delivered in one step. A connection to a different bot while an older bot's
loop waits: update numbers of two bots cannot be compared. Updates without text,
sending and formatting, the agent's settings commands and the app actions in its
replies.

The hazards each module is meant to catch are listed, with their lines, in
`PROJECT.json`. Where the properties cover a part of one only, its note says which
part is left: mostly a guard that the model translates and a property could only
repeat (a stale roll-back, the reconcile at the retry limit), or an order that no
await separates (the two resets of a lifecycle).

## 8. Running

    tlc -workers 2 -config MCCommandQueue.cfg MCCommandQueue
    tlapm CommandQueueProofs.tla

and so for the other modules. The largest run, `telegram_agent`, has 5.2 million
distinct states and takes about two minutes, every other one less than a minute.
The proofs of the command queue take a few minutes, those of any other module
about one.
