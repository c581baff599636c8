# Verification of opensteer

opensteer lets people work with AI agents in Threads. A **Host** keeps all
durable state in PostgreSQL and decides; **Runners**, one per computer, hold a
connection to the Host and run the agents' engines. A turn of an agent is a
**Run**. These modules model how a Run gets from its Thread's queue to its
outcome, through lost connections, lost messages, late answers, crashes and
restarts of either side, and the stops people send meanwhile; how what it says
reaches the Host's log and the reader's screen; how messages are steered into
it; and how Triggers start programs by a clock.

Paths below are relative to the repository.

## The system

| Part | State | Operations | Hard behaviour |
|---|---|---|---|
| Admission queue (`packages/orchestration/src/admission-queue.ts`) | pending commands, held keys, in-flight count, bytes, closed | execute, pump, retry after a conflict, close | a settled task's caller runs before its slot is given back; order per key with skipping |
| Run tables (`packages/database/src/run-*.ts`, `execution-*.ts`, `command-store.ts`, `runner-event-store.ts`) | Run, attempt, command, grant and provider-session rows | claim, bind, renew, retry, fail, commit a report, finalize, recover, stop, attach, sweep, boot recovery | every pair of these may meet; each is one transaction that sees what the others left |
| Execution coordinator (`packages/orchestration/src/execution-coordinator.ts`) | queue, slots, back-off, the poll under way | poll, wake, pump, claim, retry, start, stop | a listing is applied after what it read has changed; a dispatch error may be certain or not |
| Dispatcher (`apps/host/src/agents/dispatcher.ts`) | none between awaits | bind, plan, renew, check, send; send controls | long awaits between reading and using |
| Runner registry (`packages/orchestration/src/runner-registry.ts`) | connections, owned Runs, pending acknowledgements, canceled Runs | dispatch, attach, heartbeat, event, revoke, disconnect | a stop that meets a dispatch; answers after the deadline |
| Runner runtime (`apps/runner/src/runtime/runtime.ts`) | executing Runs, settled Runs with their journals, leases, uncontained Threads | admit, execute, interrupt, grant, enforce leases, attach, acknowledge, revoke, close | acts on its own clock while out of reach |
| Host connection (`apps/runner/src/host/host-connection.ts`) | socket, fences, heartbeat timer | inventory first, then frames in order | a new connection replaces the old |
| Run journal (`apps/runner/src/runtime/runtime.ts`, `packages/database/src/runner-event-store.ts`) | unacknowledged events of each execution; the log, its next ordinal | emit, send, replay, commit, acknowledge, refuse | replay beside sends and commits still under way |
| Command ledger, inbox, warm engines (`apps/runner/src`) | per-command answers, frames and reads, idle engines | record, push, read, take, keep, retire | duplicates, limits, reuse |
| Live progress (`apps/runner/src/runtime/live-progress.ts`, `packages/orchestration/src/live-run-registry.ts`, `packages/client/src/host`) | unsent text, open streams, what is drawn | append, flush, complete, forward, draw, reread | text dropped behind a slow connection, stated again behind a replay, drawn late |
| Realtime hub (`packages/orchestration/src/realtime-hub.ts`) | each subscriber's queue, held events, gap timer | subscribe, publish, fill a gap, drain | events published out of order or never |
| Thread inbox and steering (`packages/database/src/thread-inbox.ts`) | queued and steered messages | enqueue, claim, steer, settle | a message meets the end of its Run |
| Triggers (`packages/database/src/trigger-store.ts`, `apps/host/src/agents/dispatcher.ts`) | Triggers with their clocks, occurrences, commands | claim, fire, edit, pause, dispatch, cancel, complete | an occurrence meets edits, disconnects and restarts |
| Requests, channels, assignments | their own tables, leases and retries | answer, deliver | as for Runs |
| Engine adapters, browser, workspaces, clients, control plane | - | mostly I/O | left out |

**How they interact.** The Host's coordinator claims a `run.execute` command;
the dispatcher binds the Run to the provider session under a new *binding
generation*, issues a *grant*, renews the lease and asks the registry to send.
The Runner accepts, waits until the Host grants it a lease measured from its
own heartbeat or attach request, and begins the engine. It journals what the
engine says and reports it; the Host commits each report under the binding.
When a connection opens, the Runner first announces every execution it holds;
the Host answers which go on, and settles the Runs that should be there and
are not. A sweep recovers Runs whose lease ran out. A booting Host gives every
bound Run a fresh lease and settles half-finished dispatches.

**What makes each part correct.** Admission: per-key order, exact counters,
no idle slot beside startable work, closing ends. Run tables: a Run ends once;
a stop is final; Runs of a Thread work in order; no Run is left with nobody to
execute it. Dispatch: an execute never follows its interrupt; a Run whose
engine may have begun is never sent again as it was. Runner: no engine beside
another for the same Run, none without the Host's authority; what it says is
recorded once and in order. Coordinator: retries are paced and nothing is
forgotten. Streams: the reader sees every event once and in order, and of every
answer a beginning that grows. Steering: one engine takes a message, or it
waits again, and its receipt is true. Triggers: an instant fires once, a
program runs once, and its record is what it said.

## Modules

| Module | What it is |
|---|---|
| `AdmissionQueue`, `MCAdmissionQueue` | the admission queue; the MC module adds the pump as the loop the code runs, to compare with the closed form |
| `RunLifecycle` | abstract specification: a Run waits, works, ends once; in order; stops are final |
| `RunExecution`, `MCRunExecution` | Host tables, dispatcher, registry and Runner composed, for the Runs of one Thread; implements `RunLifecycle` |
| `ExecutionLease`, `MCExecutionLease` | the lease of one Run with the clock that `RunExecution` leaves out |
| `EventLog` | abstract specification: a log holds what the attempts of a Run said, once, in order |
| `RunJournal` | the journal of a Run, its replay, commit and acknowledgement; implements `EventLog` |
| `ExecutionCoordinator`, `MCExecutionCoordinator` | which pending command is dispatched when |
| `BoundedInbox`, `CommandLedger`, `WarmEngines` | three small state machines of the Runner's process |
| `Subsequences` | what is left of a sequence, without recursion (inbox, ledger, steering) |
| `RunnerProcess`, `MCRunnerProcess` | the three of them side by side |
| `LiveProgress` | the words of a Run from the Runner's buffer to the reader |
| `WorkspaceStream` | a client's subscription to the events of its Workspace |
| `LiveUpdates` | both side by side |
| `SteerDelivery` | a message that is steered into a working Run |
| `TriggerSchedule` | the clock of schedule Triggers |
| `TriggerDispatch` | how occurrences of Triggers are carried out |
| `Triggers` | both side by side |
| `AdmissionQueueProofs`, `RunExecutionProofs`, `ExecutionLeaseProofs`, `ExecutionCoordinatorProofs`, `RunnerProcessProofs`, `TriggersProofs`, `RunJournalProofs`, `SteerDeliveryProofs` | theorems about the modules they are named after; those about `RunLifecycle` are in `RunExecutionProofs` |

`RunnerProcess`, `LiveUpdates` and `Triggers` join modules that share no state.
The variable `followed` chooses which of them a behaviour is about, and the
others rest in their initial state: interleaving them would multiply states
without adding a meeting. What passes between them (a frame that is read and
becomes a command, an event a frame of progress names, the row of an
occurrence) is chosen freely on the receiving side, and where that choice is
narrower than "anything" a property of the sending side justifies it:
`EventsInOrder` the order `LiveProgress` assumes of its link, `TakesTableSteps`
the moves `TriggerSchedule` lets an occurrence make.

An operator whose name ends in `_` and a word (`Resumable_Stopped`) stands
before the definition it varies and is a plausible bug of it: a property of a
run is shown to fail when the one replaces the other. They are listed under
`mutants` in `PROJECT.json`.

### AdmissionQueue

A command is its number in arrival order, so `#pending` is the set of numbers
in stage `pending`. One JavaScript turn is one step: `Execute` admits and
pumps, `Settle` resolves the caller, `Release` is the `finally` callback, in a
later turn. `Ready`/`Started` give in closed form what one scan of `#pump`
starts; `ScanAgrees` compares them with the loop, in every reachable queue and
for every way keys could be held.

### RunExecution

State and code:

| Variable | In the code |
|---|---|
| `run` | `runs` row with its current `run_attempts` row (`recoveries`, `replacing`, `lastBoot`) |
| `execute`, `stop` | status of the Run's `run.execute` and `run.interrupt` commands |
| `grant` | the active run grant, by binding generation |
| `session` | `provider_sessions`: generation, holder's boot, lease, status, native reference |
| `dispatch` | one dispatch under way in coordinator, dispatcher and registry, from claim to answer; `fenced` is `#canceledRuns`, `stale` a connection that is no longer the planned one |
| `link`, `wire` | the connection and the frames the Runner has not read |
| `boot`, `held` | the Runner's process, its `#runs` and `#settledRuns` with their journals |
| `stray`, `orphans` | processes of this boot not proven gone (`#uncontainedThreads`); processes of earlier boots |
| `begun`, `faults` | history and a bound |

A database transaction, a turn of the Runner and one frame taken from the wire
are each one step. The transactions (`Finalize`, `EndStopped`,
`ReturnToQueue`, `Requeue`, `RecoverLost`, `Retry`, `Fail`, `Apply`) are
operators that say what becomes of the tables; the actions use them. Where the
dispatcher awaits, it is split: `Claim`, `Plan`, `Bind`, `Check`, `Send`,
`HearReply`, so that stops, sweeps, disconnects and restarts fall between.

Decisions worth knowing:

- Runs start queued. The pause of a Thread's queue only delays `Claim`, which
  has no fairness, and is left out. A Run is stopped at most once.
- Delivery of a journal entry, its commit and its acknowledgement are one step
  (`Commit`). What happens between the three is `RunJournal`.
- Attempts restarted by steering are in `SteerDelivery`; voice calls and
  deadlines of background work are left out. Loss of authority appears as `Abandon`.
- `RecoveryLimit` counts recoveries without their five-minute window: once it
  is reached the Run may fail or, the window having moved, resume.
- The inventory is taken when the Host answers it, not when the connection
  opens. Nothing is admitted between the two, for no command is sent before the
  answer; an execution that ends between is announced as an ended one, which
  the Host treats alike.
- A connection the Host dropped is `draining`: the Runner still reads what was
  written to it until it notices. The Runner opens the next one only then.
- Session reference and status follow `bound` and `started` reports, and a
  failed Run breaks its session, which refuses later Runs of the Thread.
- `MaxGen` stops `Bind` and resumption at the last generation.
- Timing enters in two guards. `LeaseExpires` cannot happen while the Runner
  acts on a granted lease, which `ExecutionLease` proves; nor while an attached
  Runner heartbeats an admitted Run (every 15 s against a lease of 90 s); nor
  during the last check and the acknowledgement's 15 s. `Kept` says that a
  grant read after the Host's lease ran out is over already.
- One schedule is excluded by the second of these guards and known to be
  possible. An execution that was admitted and never granted a lease lets its
  Host lease run out only if no heartbeat reaches the Host for a whole lease
  while the connection stays up: a Runner asleep for more than a minute whose
  connection (lease 120 s) outlives the execution's (90 s). The Run may then be
  bound anew, and a renewal, which names the Run and not the binding, could
  grant the old execution the new binding's lease.

### ExecutionLease

One binding of one Run, frames as sets with any delay, order and loss, a clock
in whole units. `hostLease` is `leaseExpiresAt`; `deadline`, `granted` are
`leaseDeadline`, `leaseCorrelated`; `attachedAt` is `#attachRequestedAt`. Timers
of the Runner (watchdog, grace) are not late: `Tick` waits for them. Both
clocks run at one rate; only durations are compared across machines, so their
offset is irrelevant. A machine that sleeps suspends engine and watchdog alike;
between its waking and the next tick an engine may act beyond the lease. That
second is not modelled.

`Margin >= Watch` is assumed. In the code the watchdog runs every second and
the margin is `min(5 s, lease/4)` with a lease of at least 10 s, so it holds for
every configuration. `EndedFirst` also needs `Margin >= Watch + Grace`, that is
a lease of 16 s or more; the default is 90 s. Below that the engine is still
stopped in time, but its grace may outlast the Host's lease. `gone` means that
the engine has wound down or that the Runner has begun to end its processes;
whether they can be ended is the business of `stray` in `RunExecution`.

### RunJournal

One Run, its attempts one after another, and the sockets of its Runner. `held`
is the execution with its journal (`kept`) and what it counts as sent; `up` and
`down` are the frames on each socket, which outlive the socket on the Host's
side; `peer` is the Host's connection with the Run it owns, the event it
commits and the acknowledgement it owes; `row` is the Run's binding and
`next_runner_ordinal`. A send that is awaited may settle after its socket was
replaced, a commit may end after its connection was dropped, and batches of
acknowledgements name the Run only. Left out: the session-bound report that
precedes the events; that one generation may be dispatched again and that
settled journals are evicted, which `RunExecution` has; an acknowledgement is
owed in the step that commits; the refusal of an event for its content
(`runner-event-store.ts:1182-1188`). `Expire` is the lapse of
a lease together with the recovery that follows. `RejectExecute` leaves the Run
with the connection that refused it, where the code gives it up
(`runner-registry.ts:2053`): the model lets that connection do more than the
code does.

`LogImplemented` shows the steps of all this to be steps of `EventLog`: said,
recorded next in order, or an attempt muted because it was superseded or its
Run ended. `NeverFailed` says that the Host's refusal of an ordinal out of
turn, which fails the Run, never meets the attempt that holds it.

### ExecutionCoordinator

`status` stands for the commands' rows, read by `ReadListing` in one step and
applied by `ApplyListing` in a later one; a Run's command stays "dispatched" as
long as the Run executes. `stage` follows each dispatch, `owed` says that the
back-off of a rejected command has not elapsed, and `excused` that since then its
Thread's queue was paused, a full listing cut it off or a recovery gave it back,
which are the exceptions the code makes (see *Divergences*). A dispatch ends
accepted, rejected, failed or, for the commands `Uncertain`, unsettled: its
outcome is unknown or the store failed after the claim, and the command stays
dispatched until a recovery gives it back (`Requeued`) or its Run ends. What the
rest of the Host does to the rows (`Create`, `Ends`, `Requeued`, `Pause`) and
whether a Runner is there (`Comes`) may change at any time, which is more than
the code named for them in the map does. The clock is left out: a back-off elapses at any time. The
pool of trigger programs is one more kind of slot, the byte bound one more
bound, and the filter by Workspace status one more reason not to be listed;
they are left out. `Absent` names the commands whose Runner comes and goes, so
that the rejections of one do not hide the waiting of another. Fairness is
strong for a read and a claim, which can be put off by a stop and a start in
between, and weak for the rest; commands, pauses, Runners, stop and start are
free.

### The Runner's process

`BoundedInbox` has `push`, `close`, `nextMatching` and the socket handlers that
call them. `CommandLedger` has `execute` and its `#prune`; a ledger of
`maxEntries` holds one entry fewer, because it is pruned before the new entry
and after it. `WarmEngines` has the pool and the part of `#execute` around it:
an engine is named by the Run that started it, retirements are awaited by those
who asked for them, and a Thread whose engine cannot be proven gone is held.
The code sets that hold for a cold engine when its termination fails; the model
sets it when the retirement ends. The branch of `put` for an idle engine of the
same Thread is not an action: `OneEnginePerThread` shows that it is never
taken. `close()` admits nothing from its first line on (`Drain`) and stops the
Runs once the text in the background is cancelled (`StopRuns`); a Run may fail
before it asks for an engine. `Take` is one step with the look at the retirements
before it: between the two the code lets one microtask pass
(`warm-engine-pool.ts:81-83`), and whoever retires an engine does so in a turn of
its own, after I/O. Maintenance of held Threads is left out. Fairness: the Runs'
own continuations, retirements and closing go on; Runs are admitted, fail and end,
and engines die, freely.

### LiveProgress and WorkspaceStream

One Run answers several times under one stream key. A unit of text is the pair
of its answer and its place, so that a hole, a repetition and a mixture of two
answers all show. `chain` is `#tail`, `pipe` the Runner's connection with its
replay, `host` the registry's stream, `link` and `client` the subscriber and
the client's ledger, `reread` `#liveRereads`. Byte limits are counts. Left out:
texts cut to their tails, the limit on what one Run may send, eviction from the
registry, and how the transcript is redrawn and swept. A commit and what the
registry observes of it are one step, and an emission waits for the whole chain
where the code waits for the part before it.

`WorkspaceStream` has `SubscriberConnection` with its buffers, gap timer and
windows: events are committed in order and published in any order or never.
`sub` is the subscriber, `tail` its send queue. Left out: a cursor ahead of a
restored Host, notices, viewer messages and read states, byte bounds, and what
a snapshot contains.

Fairness: the buffers' clocks, the pumps, deliveries, reconnects, rereads and
gap fills go on, as timers and sockets make them. Nothing obliges a harness to
speak, a transaction to publish, a page of history to be read or anything to be
lost. `Arrived` of the words is stated for behaviours in which no frame was
lost on the way to the client and the Runner kept its connection: the last
frame before a silence may be missed for good, and see *Divergences*.

### SteerDelivery

A Thread with project work, whose messages wait for a person to steer them. An
engine that takes messages while it works is sent the message; for any other
the attempt is superseded and interrupted, and the next attempt starts with the
message. `input` is the message's row with its command, `net` the commands and
answers on the connection, `eng` the execution, `journal` the events not yet
committed, `heard` how often an engine took a message in. `Disconnect` is a
lost connection, which a restart of the Host is too as far as these tables go;
`Crash` is the end of the Runner's process. Claiming, binding and delivering a
`run.execute` are one step here (`RunExecution` splits them). Left out:
conversations, where a message is handed over by itself and a reply may be
stopped; strict steers, reports, the authority of channels; order and pause of
the queue; the limit on messages per start; and how a Run's first attempt
claims its batch. A steer whose Runner is away may be refused at once: the code
leaves it pending (`dispatcher.ts:212`) and refuses it when the Runner leaves
after it was claimed. Fairness: dispatch, delivery, answers, commits and reconnects
go on and an engine answers what it is told; nothing makes a person steer,
withdraw or stop, or a Run end by itself.

### Triggers

`TriggerSchedule` has what the tables do: one transaction claims every due
schedule (the code's batches of 64 and its skipping of locked rows are left
out), an occurrence collapses into one that waits, and owners edit, pause,
resume, archive, reschedule and run by hand meanwhile. A cron schedule fires at
every instant. Owners whose authority cannot be determined are the set
`barred` of a claim. The pause comes after two failures, where the code has
three. Left out: creation, deduplication by source key, a clock that goes back.

`TriggerDispatch` has an occurrence's way from claim to result: what the
dispatcher awaits between reading the Runner's boot and sending, the
connection, the hooks of a lost one, the Host's restart. Left out: revoked
memberships with their `trigger.interrupt`, watches and webhooks, a Runner that
notices a lost connection later than the Host, occurrences observed by
heartbeats, and the Runner's limit on programs. Fairness: the Host's
dispatches, hooks and result transactions, the Runner's reading and attaching;
not cancellation, the end of a program or any fault. The claim of due
schedules is fair, for it runs every second.

## Runs

| Run | Instance | Shows |
|---|---|---|
| `admission_queue` | 3 commands of 1 or 2 bytes, 2 keys, 2 slots, 2 waiting, 2 attempts, 2 closers | order, exact counters, closing, the pump against its loop; everyone is answered |
| `run_execution` | 1 Run, 2 faults, 5 generations, limit 1, earlier boots not contained | the Run's rows agree, stops are final, nothing given up acts, never two engines; the refinement |
| `run_thread` | 2 Runs, 1 fault, 3 generations | order in the Thread, never two engines |
| `run_live` | 1 Run, 1 fault, 3 generations, limit 0 | stops end, deserted Runs are settled, overdue engines stop |
| `run_forgets` | as `run_execution` with an early `Evict` | violated: the finding below |
| `execution_lease` | lease 8, margin 2, watchdog 1, grace 1, time 11 | grants are backed; engines end first |
| `run_journal` | 2 attempts, 2 ordinals, 2 sockets | nothing is forgotten, refused or repeated; the journal drains; the refinement |
| `coordinator` | 2 Runs of 2 Threads, 1 slot, 1 rejection; one is paused at times, one lacks its Runner at times and may be left unsettled | pacing, nothing forgotten, nothing left behind |
| `runner_process` | inbox of 2 frames and 2 bytes with 3 frames and 3 reads; ledger of 3 with 3 identities and 4 operations; 3 Runs of 2 Threads, 1 idle engine | each frame read once, each command answered as the first time, one engine per Thread, nobody waits for ever |
| `live_updates` | 2 answers of 2 units, one item in flight, 2 of three kinds of loss; 4 events, one hidden, buffers of 2, replays of 1, 1 loss | what is drawn follows what was said; events in order and complete; both arrive |
| `steer_delivery` | 2 messages, 2 Runs, 3 attempts, 1 fault, either kind of engine | true receipts, heard once, nothing stranded; all is settled |
| `triggers` | 1 Trigger, 2 instants, 2 revisions, 1 run by hand, queue of 2; 2 occurrences, 2 boots, 1 Host restart, 1 fault | instants fire once, programs run once, records are true; what is due is handled |

Several invariants of a module are one property where they say one thing
together: `BooksBalance`, `Consistent`, `JournalSound`, `CoordinatorSound`,
`EnginesSound`, `ProgressFollows`, `EventsInOrder`, `Receipts`, `ProgramsOnce`
and `ClockSound` include the type invariant and name their parts.

Why these bounds are enough to be of use: two faults let a restart interrupt
the recovery from another loss; a Run needs one generation per dispatch and
one more per recovery, so five allow two recoveries and a return to the queue;
a limit of one meets both sides of the limit. Three commands of the admission
queue allow one to be skipped and a later one to share a key with it, which the
unbounded theorem `OrderKept` extends. The lease model's clock runs past
one whole lease plus margin and grace, and two frames each way let a grant be
overtaken by the next and by a reconnect. `run_live` has limit 0 so that every
recovery may fail as well as resume. Two attempts and two ordinals let the
acknowledgement of one attempt reach the next; two sockets let a replay meet a
send and a commit of the first. Two commands and one slot let one wait for the
slot while the other's back-off, listing and pause go on. Three Runs of two
Threads over a pool of one let the engine of one Thread be evicted by another's
while its next Run asks for it. Two units and one item in flight let text be
dropped and restated; two answers let one be mixed up with the other. Four
events with one hidden and buffers of two let a hole be filled while others
arrive, and overflow. Three attempts let an interrupt sent again meet the next
attempt, and two revisions and two instants let an edit fall around a firing.
Where a bound ends behaviour (out of generations, of faults, of messages or of
time) the system stops, so deadlock is not checked; the same holds where all
the work has ended.

### Fairness of the first modules

`run_live`: the Host's loops (dispatch stages, attach, sweep, delivery of
interrupts and of reports), the Runner's reading, heartbeats, reconnects and
the start and abort of engines each happen if they stay possible: they are
driven by timers and by sockets that either deliver or close. A lease nobody
renews runs out. Not fair: stopping, abandoning, claiming (a user's queue may be
paused, the coordinator saturated), an engine ending by itself, and every fault.
`admission_queue`: a command's own transaction ends and the event loop runs
callbacks. `run_journal`: both sides read, send, commit, flush and reconnect; a
dropped socket is noticed. The others are given with their modules above.

## Proofs

All for every value of the constants, from the named assumptions of each
module (`LimitAssumption`, `SizeAssumption`, `BoundAssumption`,
`TimeAssumption`, `MarginAssumption`, `WarmAssumption`, `SteerBounds`, ...). Each inductive
invariant was first checked by TLC on the instance of the component's run.

**Admission queue.** `AdmissionQueueProofs`: `TypeCorrect`, and `OrderKept`. The
invariant adds that a key in use is counted as held: without it the pump could
start a command whose key another one still holds, and order would not be
inductive. `BooksAlwaysBalance` is about what three methods count by hand: held
keys, slots and queued bytes always are those of the commands in their stages, a
resolved `close()` found the queue empty, and no slot is free while a command may
start. The bytes are counted one by one (`SumBytes` is the size of a set), so
that a command adds and takes away what it has; that nothing may start after a
pump takes the first command that may and the last one started, and rests on the
order.

**The promise.** `RunExecutionProofs` has the theorems about `RunLifecycle` too,
of the instance `Lifecycle` that the Runs implement: work goes on in order
(`WorkInOrder`) and no stopped Run waits (`StoppedWorksOrEnds`). That an ended Run
does nothing more is written into the guards of `RunLifecycle`; that the code
keeps to it is `Implementation`, and `OutcomesStand` states it of the tables.

**Run execution.** `RunExecutionProofs`, in three layers of one invariant:

1. The tables (sections 1 to 5). `Invariance` shows
   `Inv == TypeOK /\ Rows /\ Claimed /\ BootOK` inductive. `Rows` relates each
   Run's status, binding, grant and stop (this is where `StopIsFinal` and the
   order of Runs live); `Claimed` says what the dispatch under way may still
   assume of its Run; `BootOK` bounds boots by faults, for the types. There is
   one lemma per transaction (what it does to a Run's row and to every other
   one) and one step per action. `Implementation` shows that every step is a
   step of `RunLifecycle` or leaves its variables alone; `RunsKeepOrder` and
   `StopsAreFinal` follow. `TablesHold` goes on with what relates the tables to
   each other: commands follow their Runs (`CommandsFollowRun`), the binding of
   an executing Run is the session's and names its holder (`BindingOK`), and
   what a dispatch read long ago is still what its Run is (`DispatchOK`).
   `OutcomesStand` takes both: no late event, answer, sweep or restart changes how
   a Run ended (`Implementation`) or opens a command of it again
   (`CommandsFollowRun`).
2. The wire and the Runner (sections 6 to 9). `NoStaleActing` (no engine acts
   for a Run that waits again or was bound anew) says nothing of how an engine
   comes to act, so no step could rest on it. `Engine` follows that way
   backwards: an execution that may act was admitted and granted a lease
   (`HeldOK`), from an offer on the wire (`OfferOK`), which a dispatch sent that
   had passed its check (`Ready`); the order of the wire says which frame the
   Runner reads first (`WireOK`), and `Logs` what a journal may still hold when
   an acknowledgement or an inventory settles it. `NeverStale` follows.
3. Stops and processes (sections 10 and 11). `Interrupts` says that the interrupt
   of an executing Run is behind every offer of it or has been read, and that
   one taken for delivered has left nothing to stop; with it all of
   `Consistent`. `Begun` follows the processes an execution leaves behind
   through ends, losses and restarts: they are of one execution (`Alone`), and
   the tables still account for them (`BegunOK`, `Traced`): the Run has ended, or
   is known to replace an execution so that its next binding asks for the
   former boot, or has the binding it began under. `OneEngineAlways` and
   `ReturnedUnbegunAlways` follow.

`BegunHolds` and the two theorems after it assume `~Forgets`: with the eviction
of the finding below they are false, as `run_forgets` shows. `NeverStale`,
`AlwaysConsistent` and what comes before them hold either way. All of them rest
on the two guards by which the module stands for time, `LeaseExpires` and the
`Kept` of a late grant: what the first assumes is proved in
`ExecutionLeaseProofs`, but for the schedule named under *RunExecution*.

**Lease.** `ExecutionLeaseProofs`: the invariant has `Backed` (each grant, taken
or in flight, ends its margin before the Host's lease), `Timers` (how far the
watchdog and the grace can be behind the deadline) and `Taken` (the Host takes a
Run back only past its lease, or when no engine can begin). `ActsInTime` is the
arithmetic of the margin; the four theorems follow.

**Coordinator.** `ExecutionCoordinatorProofs`: `CoordinatorSoundAlways` and
`RetriesArePacedAlways`. The claim does not look at the back-off it must
respect: the pump did when it took the command from the queue, and a poll may
drop the entry in between. The invariant follows a rejected command: while its
entry says so it is not taken to be claimed (`Paced`); its entry counts its
rejections, but for the one committed and not recorded yet and unless it stays
dispatched with no dispatch under way (`Counted`); and a
listing in flight names it or is older than its entry (`Noted`). That the next
listing names it takes `History`: a command that was claimed once was the next
of its Thread, what is before it is over for good, so nothing but a pause or the
limit of the listing can hide it while it is pending. That the pump keeps to its
slots is shown at the last command it takes of a kind (`LastTaken`).

**Engines of a Runner.** `RunnerProcessProofs`: `EnginesHold` shows `Engines`
inductive and `EnginesSoundAlways` the run's `EnginesSound`. That a Run starts
its engine while no other of the Thread has processes takes that the places an
engine can be in (idle, being retired, owned by a Run, left behind with its
Thread held) exclude each other Thread by Thread, and that a Run which awaited a
retirement in `take` awaited the only engine there was: nothing is put into the
pool for its Thread meanwhile, since the Thread has one Run. The first section
has what `Map.delete` and `Map.set` do to an ordered pool, for sequences of any
length.

**Command ledger.** `RunnerProcessProofs`: `CommandsAnsweredOnceAlways`. The
invariant `Known` adds to the property that no two entries are of one identity
and that every entry is of an operation. What a prune leaves is a subsequence:
the prover has no definition of `SelectSeq`, so `Subsequences` numbers the
places that stay by how many others stay before them, and section 6 proves from
that, by counting, that they keep their order, that nothing else is lost and
nothing appears twice (`OmitIs`).

**Inbox.** `RunnerProcessProofs`: `FramesAreReadAlways`. The code keeps what is
left and forgets what came; that nothing was lost or given twice is told from what
arrived and how each read was answered. In `InboxHolds` frames and reads are
numbered in the order they came in and both queues keep that order (`InOrder`), a
frame is queued until it is handed to a read, and to one (`InOnePlace`), and no
frame waits next to a read that wants it. That the queue then is the rest of what
arrived (`TheRest`) counts places as the ledger's pruning does; that the first
frame or read that fits is the oldest is `FirstPlace`; and the bytes are counted
one by one, as in the admission queue, so that a frame frees what it took.

**Triggers.** `TriggersProofs`: `Carried` says for each occurrence how its row,
its command and its dispatch agree (`Courses`), and that what was sent of it is
in one place, on the connection, on the Runner, in a transaction of the Host or
with the hook of a lost connection (`Single`). `ProgramsOnceAlways` and
`TakesTableStepsAlways` follow: a program runs once, its record is what it said,
and the moves of the row are those `TriggerSchedule` allows. A first `Courses`
without the pending occurrence that has neither dispatch nor waiting command was
not inductive: that is the state of the occurrence stranded by a restart, under
*Divergences*.

`ClocksAreSound` is about the other half, `TriggerSchedule`, and has the whole of
the run's `ClockSound`. That no instant is fired twice says nothing of the clock
that will fire the next one, and that a success archives only a Trigger whose
instant has passed says nothing of why its clock is at rest. `ClocksHeld` has
both: the next instant of a Trigger is later than all it has queued (`Ahead`),
and a clock is at rest only when its Trigger is not active or its one instant has
passed (`ClockRight`). There is one lemma per action; those of the owner's actions
rest on `OneClock`, those of the rows on `RowOnly` and `RowAndClock`, and the
claim, which queues for every Trigger that is due at once, on `RowsQueued`.

**Steering.** `SteerDeliveryProofs`: `ReceiptsAlways` and `KeptTogetherAlways`
are the two invariants of the run. That a message is heard once says nothing of
where it is on its way, so `Steered` follows each message through the places it
can be in: its row, a command that waits, the connection, an engine that is
being told, an attempt that is about to start. A steer that waits to be sent is
the message's only one and the message has been nowhere yet (`QueueOK`); once
sent, command and answer are in one place, and the place says whether it was
heard (`TravelOK`). A message claimed by a restart is in no command at all, and
the claim rests on its replacement attempt not having started (`ClaimOK`): it is
untouched until that attempt is sent, and then part of its batch. That an attempt
started is told by an event, so `EventOK` says that by then the messages of its
batch were heard. Giving messages back is sound for the same reasons: what is
returned to the queue is in a place nothing will come out of. A restart command
names a binding older than the current attempt (`CommandOK`), so that its
interrupt, however often it is sent again, never ends the Run. What stays in the
queue of commands when some are settled is a subsequence, as in the command
ledger (section 1). There is one lemma per action.

**Journal.** `RunJournalProofs`: `LogIsKept`, the refinement of `EventLog`.
`commitRunnerEvent` asks only for the Host's next ordinal under the Run's
binding; that the event with this ordinal is the next one its attempt said, and
that nothing before it was passed over, takes the Runner and the wire. In
`Faithful`, what travels or is being committed was said (`UpOK`), an ordinal is
said once (`SaidOK`), the attempts that are sent to the Runner begin in their
order with the Host's next ordinal (`DownOK`), the Runner never falls behind it
while it holds the Run, and the log has all that was said below it unless its
attempt is muted (`LogOK`). Every action is shown to keep these and to be a step
of the log or a stutter. The order in which the sockets are opened
(`OpenedInOrder`) is there for `Connect`, which picks the first unused one.

`JournalSoundAlways` goes on from there: no event of the attempt that holds the
Run is forgotten uncounted, and none is refused out of turn, which would fail
the Run. Nothing in the state says that events arrive in turn; the Host only
finds out. `Sound` says where the event before each one is: before the lane's
event everything is recorded (`LaneInTurn`), before a queued one stands its
predecessor or it is recorded (`QueueInTurn`), and the same of the event the
pump would send next, which is one further while the settlement of the last
send is awaited (`PumpInTurn`). That a new connection starts in turn takes its
inventory to announce at least what the Host has (`InventoryOK`), also while a
lane of the dropped connection goes on committing, and the answer to it to be
the first and only one (`PeersOK`). That a pruned journal lacks nothing takes
`AcksOK`: an acknowledgement names the Run and not the attempt, so one from
before a recovery may meet the next attempt; it is harmless because it names
ordinals below the Host's next. The one exception is the `lost` event, which the
Host acknowledges without counting it when it takes the Run back, and for that
one the next `execute` is still behind it on the socket. And the Host compares a
duplicate with what it has under the same ordinal: that this is never the event
of another attempt takes `StartsOK`, by which an attempt starts after every
ordinal recorded of those before.

Only model-checked:

- liveness, which is beyond the prover: every property named under *Fairness*;
- `ScanAgrees` of the admission queue, whose loop is recursive;
- the streams (`ProgressFollows`, `NeverTakenBack`, `EventsInOrder`): open. The
  subscriber measures its queue and releases held frames with folds, and the
  client draws what it held with a recursive function; the first need induction
  over data, and the invariant behind the words of a Run, from the Runner's buffer
  to the reader, has not been worked out.

## Finding

`run_forgets` shows `ReturnedUnbegun` violated. The Host requeues a Run word for
word when the boot it was sent to omits it, under a live lease, unconfirmed; the
comment in `packages/database/src/execution-recovery.ts:877-882` and
`docs/agent-orchestration.md:96-98` take that omission as proof that it was never
begun. But the Runner also forgets ended Runs whose journals together exceed 64 MB
(`apps/runner/src/runtime/runtime.ts:2066-2075`), whatever their lease, and
before the Host has them. A Run that was accepted in an answer that got lost,
ran to its end out of reach and lost its journal that way is put back in its
queue and dispatched again. The Runner's command ledger then refuses the
dispatch as other content of a command it knows, and the Run that ran to its
end is failed; once the ledger has forgotten the command, it is executed a
second time. The constant `Forgets` turns this eviction on; in every other run
an ended journal is kept until the Host has settled the Run. It needs more than
64 MB of undelivered journals and a lost answer, and is rare.

## Divergences

Seen while modelling, by a property that failed until it was stated with the
exception named here. The modules have the code's behaviour; no run is kept
that shows the schedule.

- **A replacement may be stopped.** `runner-registry.ts:2350-2352` says that a
  report of a retired binding must not revoke the Run of its replacement. The
  guard reads `ownedRunBindings` of the reporting connection, which
  `#disconnect` has cleared (line 2571) if the connection was lost while the
  event was being committed; with the Run dispatched anew on the next one, it
  lets the revocation pass. `RunJournal` has it so; its properties excuse
  attempts that were revoked.
- **A pause drops a back-off.** `execution-coordinator.ts:164-166` says that a
  command that left the listing can never be dispatched again. The listing also
  leaves out a Run whose Thread's queue is paused
  (`command-store.ts:1457`); a poll meanwhile drops its back-off, and once
  resumed it is claimed at once. So does the limit of the listing
  (`command-store.ts:1478`): with as many older commands pending as the queue may
  hold (10,000 or 5,000 on the Host), a poll does not list a rejected one and
  drops its back-off. And a rejected command whose next dispatch is left
  unsettled is dispatched for so long that a poll drops its back-off before a
  recovery gives it back. `RetriesArePaced` excepts `excused` commands, which are
  all three; without the second exception it fails on an instance with
  `MaxQueued = 1`.
- **A stop's timer reaches a kept engine.** `runtime.ts:3069` (Runner) says
  that from the hand-over on nothing the Run does reaches the engine. A stop
  before the Run leaves `#runs` still arms `#haltAfterGrace` (line 2423), and
  three seconds later the kept engine's scope is terminated. `WarmEngines` has
  the timer, and no property that nobody else ends an engine.
- **Words may overtake their completion.** `runtime.ts:3150-3152` (Runner) says
  a reader never sees it. An answer that ends while `attach()` replays is
  emitted behind the replay; the replay sends its event, then
  `resynchronize()` states the whole text after it (line 1915). The Host opens
  the completed answer again, and the next one is spliced onto it until that
  is completed. `HostFollows` and `ClientFollows` are stated while the Runner
  keeps its connection, `Restated` excepts `Overtaken`.
- **A claimed occurrence is stranded by a Host restart.**
  `execution-recovery.ts:491` settles controls, steers and `run.execute`, and
  `failActiveAfterHostRestart` only running occurrences. A `trigger.execute`
  claimed and not yet bound stays dispatched with its occurrence pending; it
  cannot be canceled and later ticks collapse into it.
- **An occurrence bound to a replaced boot stays running.** `dispatcher.ts:746`
  reads the boot, `dispatcher.ts:831` binds to it; a new boot attached in
  between runs the program, its result is refused as stale, and the disconnect
  hook asks for the new boot and finds no row. `RunsOrEnds` excepts it.
- **One full queue stops every schedule.** `enqueueOccurrence`
  (`trigger-store.ts:1881`) throws inside the one transaction that claims every
  due schedule, so that nothing fires until that queue drains. `DueIsHandled` is
  checked where the runs by hand cannot fill a queue (`MaxManual` below
  `MaxPending`; scheduled ones collapse).
- **An edit into a one-shot may swallow its run.**
  `pendingScheduleOccurrenceExists` (`trigger-store.ts:1956`) does not ask for
  the revision, so a waiting tick of the older schedule takes the place of the
  one-shot's run.
- **A refused one-shot is not reported.** `failCommand`
  (`command-store.ts:1636`) fails the only run of a one-shot without
  `recordAutomationFailure`, which the other three routes call;
  `apps/runner/agent-skills/skills/triggers/references/reminders.md:41-42`
  promises a message.

## Not modelled, and the plan

In the order planned:

1. Theorems: `EventsInOrder` and `ProgressFollows` of the streams.
2. Requests: answer, cancellation and expiry against the end of their Run.
3. Delivery of messages through channels, at least once with leases.
4. Assignments and specialists, over `SteerDelivery`.
5. Watches and webhooks of Triggers, and revoked memberships.

Left out for good: engine adapters, browser and computer use, clients (but for
what they make of events and progress), control plane, identity and file
systems: their behaviour is I/O, protocol translation or user interface, and a
Run sees of them only what the models already choose freely. `PROJECT.json`
names each component with its status, and the hazards with the properties that
watch them.
