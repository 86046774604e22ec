# Verification of simple-harness: durable Runs, their calls, their pumps and their budget

This directory specifies, in TLA+, the parts of the repository that decide *who
may act for a Run, what becomes of it and of what is queued for it, how often its
side effects happen, and what they are counted at*: `RuntimeKernel`
(`src/simple_harness/runtime/kernel.py`) over the SQLite unit of work
(`src/simple_harness/execution/sqlite/uow.py`), the Tool effect executor
(`tools/executor.py`), the Provider coordinator (`execution/dispatch.py`), the
commands, outboxes, signals and capacity that the kernels of a deployment pump,
and, from `src/agent_orchestrator`, the token budget of a Mission. TLC checks the
modules on small instances; TLAPS proves the central properties for any number of
processes.

`PROJECT.json` holds the machine-readable side: the components, the runs, the
line-by-line correspondence (`map`), the fault-injected variants each property
must reject (`mutants`), the findings, the hazards and the theorems.

## 1. The system

The repository has two packages.

**simple_harness** is a durable execution runtime. A *Run* is a row of table
`runs`; several kernel processes may share the database and any of them may drive
the Run.

| Component | State it keeps | Operations | Hard part |
| --- | --- | --- | --- |
| Run authority | lease row, fence row; each kernel's `_leases`, `_fences`, `_heartbeats`, `_retiring_leases` | claim, wake-and-claim, acquire, renew, retire, release | two processes, expiry, restarts with the same owner id |
| Run lifecycle | the Run row, `decisions`, `run_wait_blockers`; the drive task, cancel tokens, pending wakes | recover, wake, drive, commit, cancel, decide, reconcile | results computed under authority that has gone, cancels racing commits, lost wakes |
| Effect ledger | `execution_effects`, `reconciliation_resolutions`; the registry's call ids | prepare, refresh, hand off, settle, mark unknown, reconcile, reauthorize | crash after the handoff, late answers, the one retry |
| Provider dispatch | `provider_invocations`, cost reservations | claim, hand off, settle, reconcile, reauthorize | the same, plus a budget |
| Continuation inputs | FIFO of inputs per Run | enqueue, claim, acknowledge with progress or with the end | claims under lapsed leases, turns that are suspended |
| Command ingress | durable commands, the cancel fence of a Run | submit, claim, begin, apply, retry, reject, heartbeat | claims that lapse in the middle, a cancel overtaking a start, the retry limit |
| Terminal delivery, memory outbox | outbox rows with claims | claim, hand off, complete, release, clean up | claim expiry against late completion, hosts that fail |
| Child Runs and signals | tickets, child signals, the parent's row | launch, end, claim, quarantine, acknowledge, wake | parent and child in different kernels, a parent that ends first |
| Shared capacity | permits in a host-wide database | queue, acquire, hand off, finish, sweep, reconcile | holders that die with a call on the wire |
| Workflow engine, agent turns | checkpoints, turns | checkpoint, complete | - |
| Providers, tools, contracts, observability | none worth modelling | I/O, validation | - |

**agent_orchestrator** is a multi-agent planner above it: event handler and commit
service over a task graph, hierarchical dispatch, HTN planning, governance and
budgets, scheduling, verification and evaluation. Its budget is the part where
the order of steps decides about correctness: `BudgetLedger` keeps accounts and
reservations, `ProviderBudgetGuard` grants each Provider call its bound and one of
the physical slots, and a dozen handlers settle a turn's reservation from what was
imported of the SDK's Provider ledger, another database.

Interactions: the kernel calls the unit of work synchronously (each call is one
SQLite transaction) and the drivers asynchronously; drivers call the effect
executor and the provider dispatcher, which use the same unit of work with the
lease and the fence they were given; hosts call `cancel`, `decide_authorization`
and `reconcile` in any process; a drain loop in each kernel polls for resolved
waits and pending wakes; a heartbeat task per Run renews its lease; further loops pump
commands, deliveries, memory turns and child signals. The orchestrator calls the
SDK through one pool; the SDK calls the orchestrator's guard before a handoff,
inside it and after it.

What makes each part correct:

* authority: an epoch names one owner for ever; a token that was refused once is
  refused for ever;
* lifecycle: a finished Run stays finished, an accepted cancel is not taken back,
  no resolution is lost, and a Run that can go on does go on;
* effects: the side effect happens at most once and the answer is final;
* provider calls: the same, what they cost stays within the cap, and a call whose
  process is lost does not stay in flight;
* inputs, commands, signals: served in order and once, whatever claims lapse, and
  in the end; nothing accepted before a cancel takes effect after it;
* outboxes: handed off as often as claimed, settled by no passing failure, in the
  end settled;
* capacity and slots: never given to two, and given back when a holder dies;
* budget: what was charged is reserved or settled, "may overcount, never
  undercount".

## 2. Modules

| Module | What it is |
| --- | --- |
| `RunAuthority` | the lease and fence protocol of one Run, one action per transaction |
| `RunLifecycle` | extends it with RuntimeKernel's tasks and the Run's life |
| `OneShotEffect` | abstract: a call that happens at most once and is answered once |
| `EffectLedger` | extends RunAuthority with one Tool call and its executors |
| `ProviderLedger` | extends RunAuthority with the Provider calls of a Run, their budget and their reconciliation |
| `FifoQueue` | abstract: inputs answered once and in order |
| `ContinuationQueue` | extends RunAuthority with the inputs of a Run and the drives that serve them |
| `PumpFaults` | the kernels and how many faults they may still meet |
| `CommandIngress`, `DeliveryOutbox`, `MemoryOutbox`, `ChildSignals`, `SharedCapacity` | one durable queue each, with its claims, its pump and its host |
| `KernelPumps` | composes the five: kernels that pump all of them, die with all of them, and a Run whose end fills the outboxes |
| `MissionBudget` | accounts, grants, imports and settlements of an orchestrator's Mission |
| `RunAuthorityProofs`, `RunLifecycleProofs`, `EffectLedgerProofs`, `ProviderLedgerProofs`, `ContinuationQueueProofs`, `KernelPumpsProofs`, `MissionBudgetProofs` | theorems and proofs about the module each is named after |
| `SumTheorems` | lemmas about sums over finite sets, for the three modules with pools and budgets |
| `MCRunLifecycle`, `MCEffectLedger`, `MCProviderLedger`, `MCContinuationQueue`, `MCKernelPumps`, `MCMissionBudget` | instances for TLC |

Definitions whose comment begins with *Faulty* are variants of the definition
after them with a plausible mistake. Nothing uses them: they are substituted one
at a time to see that a property notices the mistake.

### RunAuthority

Variables `run`, `lease` and `fence` are the three rows; `heldLease`,
`heldFence`, `heartbeat` and `retiring` the kernel's dictionaries; `claimed` and
`pc` the place of a call between two of its transactions. Time is a countdown:
`lease.ttl` is what is left of `expires_at` in ticks, 0 meaning lapsed, so an
equal comparison of `expires_at` with `now` counts as lapsed, as in
`_require_runtime_lease`. The module does not say *why* a kernel claims or
releases: any kernel may at any time. That makes its theorems independent of the
callers.

Rows that do not exist yet are rows with epoch 0 and `NoOwner`.

### RunLifecycle

A process is single-threaded: between the suspension points of one asyncio task
no other task of that process runs. `Free(o)` says that kernel `o` is at such a
point; `pc`, `goal` and the task states `commit` and `finally` mark the places
inside a section, where only *other* processes interleave. The drive task goes
`ready`, `driver` (awaiting the driver), `commit`, `finally`, or `doomed` when it
was started with its cancel token already set. The driver is known by its result:
`completed`, `failed`, `waiting`, `unknown` (an outbound call whose outcome is not
known) or `authorize` (a Tool wants the user's decision). Its return is recorded
under the lease the drive began with (`runtime_operation`, uow.py:1042): a kernel that
has lost the Run meets a conflict there and commits nothing (`ReturnAccepted`); a driver that
raised goes on to the failure commit, which asks for the lease itself. Between
that record and the commit of the result the process does not give way, but it can be
suspended beyond its lease; `MayPause` says whether it is. A conflict while `recover`
closes a cancelled Run fails the startup (`StartupFails`); a failed Runtime can only be
replaced, which is the end of the process.

Restrictions: a root Run without continuation inputs (they are
ContinuationQueue's); one Tool authorization per Run; outbound calls of unknown outcome are numbered up to `MaxAttempts`.
`Runtime.close` releases what a crash would merely forget and is not separate
from the release actions of RunAuthority.

### EffectLedger

`exec[o]` is the `execute()` call in progress in process `o`: where it is
suspended, the row it has read (`snap`) and the lease and fence it captured.
Between two suspensions everything is one action. `world` is the outside, known
by the host contract alone: an attempt that was sent may land at any time, even
after its process has died, until the host has confirmed that it never will.
`succeeded` stands for every answer that needs the side effect, `failed` for
every answer that does not.

The at-most-once result therefore rests on two facts of the *host*, both from
the documented contract of `ToolReconciliationPort`: `confirmed_not_started` is
final, and success is reported only of what has happened.

### ProviderLedger

`call` is the table `provider_invocations` by request, `authority` the event that
records under which lease each handoff was made, `resolution` the confirmed
outcomes, `receipt` the accounting receipts that replace the charge of an answered
call. `invoke[o]` and `observing[o]` are what a process has under way: an
`invoke()` waiting for admission or for the provider, and a `reconcile_incomplete`
waiting for the host's observation; both run in the same process and interleave
at those awaits. `starting` are the processes that have yet to reconcile at their
start, `listed[o]` the rows that pass of `o` has still to visit: it lists them once,
visits each as it is by then, and passes over a handoff whose lease is live
(`PassOver`). Afterwards a process visits rows only when its host calls
`Runtime.reconcile()`. Unlike the effect ledger this one asks for the lease only, and
for nothing at all when an answer is stored.

The budget is the policy with a hard cap and a frozen estimator. `Estimate` is the
reservation of every call; a call costs one of `Costs`, at most `Estimate`, which
is what the host certifies of its estimator. `Unknown` is the unknown charge. The
charge is computed the way the code computes it in its three places:
`ResponseCharge` for a response received, `UsageCharge` for a definite failure and
for a response observed later, and the receipt. `world` is as for Tools; a landed
call also has the model that served it.

Restrictions: the runtime lease is the only authority (the workflow lease and
context-use grants can only refuse a claim or a handoff), and a claim of an
existing row by a second request with other content is not modelled.

### ContinuationQueue

`input` are the rows of the Run's inputs in order of their sequence number,
`drive` what each kernel's drive task is doing with which claim. A claim names the
lease it was made under and is withheld from others while that lease is live. The
actions are the claim, the acknowledgement together with the Run's progress or its
end, the turn that is suspended on a call, the driver that acknowledges the signal of
its child itself (`DriverAcks`; `_drive` then forgets the input), and each of
`_drive`'s exits (return refused for want of the lease, conflict, cancelled, driver's
exception, failed failure commit): what they do to
the authority decides whether the input is ever claimed again. The authority steps
are RunAuthority's own.

`FifoQueue` is what it promises: an input is answered when it is the first of the
unanswered ones. The refinement forgets the claims.

### The pumps

`PumpFaults` has the set of kernels that are up and a count of faults (lapsed
claims, failing hosts, lost answers, deaths) the environment may still inject.
In each module one row is one unit of work, a claim is (kernel, epoch) and the
worker's position between its transactions is kept per kernel, so that a worker
whose claim has lapsed can still try to settle.

* `CommandIngress`: a start, continues and a cancel of one Run. `Claimable` is the
  predicate of `claim_next`; `SettleFailure` the error branch of
  `_drain_commands_bounded`, which reads the row again. `MaxAttempts` is 2 where
  the code has 8. The Run is `active` from its start to its end, whether it runs or
  waits; `WaitOverwritesCancel` is the wait that replaces `cancel_requested`
  (uow.py:2701, see section 5).
* `DeliveryOutbox`: rows inserted with the terminal commit; `run_once` hands off,
  records the handoff and settles, each a transaction. The sink is external.
* `MemoryOutbox`: committed turns, with the host's definite and transient failures
  and the backoff.
* `ChildSignals`: launches, ends and the signals of tool children, the quarantine
  of signals for a parent that has ended, the acknowledgement that sets the parent
  to run, and the wake that must follow it. The death of a listener frees the
  parent's holder at once; in the code the dead lease stays until it lapses, and a
  wake that meets it is lost, which is one of the exceptions named `lost`.
* `SharedCapacity`: waiters, holders, handoff, finish, the sweep of dead processes
  and the recovery on evidence from the Provider ledger. Snapshot, evidence and
  reconciliation of an entry are one step: a `finish` between them makes the code
  raise and leaves the entry as `finish` left it.

`KernelPumps` starts with one of the workloads (a command sequence, an ended Run
with deliveries and turns, a parent with children, callers of the capacity) and
lets every kernel pump everything.

### MissionBudget

A *subject* is a dispatched turn, an Attempt or a service turn. `account`,
`reservation`, `intent`, `grant` and `imported` are the orchestrator's tables;
`invocation` is the SDK's row, in the other database; `calling` is how far the
live process is inside `_invoke_physical`; `cost` is what the Provider has
charged, which the code learns from reports only. `Collect`, `StallOut`,
`StopReadOnly`, `Rehandoff`, `GiveUp`, `Verdict`, `EndMission`, `EndHierarchical`
and `LateImport` are the ways a turn ends; those made of several transactions take
as a parameter how many of them a crash lets happen. `Handoff` may be torn between
the two databases.

`writtenOff` collects the calls the code decides to let go of: it is the exact
list of exceptions to the property, and section 5 discusses it.

Restrictions: one deployment without prices and with one pool; the Assurance and
TaskGraph lanes, which settle through other readers, are left out, and so are a
second handoff of a call confirmed not started, attempt and tool-call counts, and
the await of the advisory cancel before a re-handoff. Tail budgets are left out: the
reservations that `create_service_intent` takes from a system hold, a critic tail or a
selection (commit_service.py:1036-1064), and `grow_system_worker_allowance`
(mission_tail_commits.py:152-211), which moves held tokens and leaves the accounts
alone. Of the verdicts, `accept_result` is modelled; `fail_result` settles without
asking `has_unknown_usage` and relies on `settle` to raise (commit_service.py:6035). A
lost or timed-out Attempt that is collected is closed unsettled while its process lives
on (event_handler.py:9298-9305); the model closes without settling only when the process
is cut off.

## 3. Runs

All bounds are constants (`Max...`) of the modules and appear in guards.

| Run | Instance | Question | Result |
| --- | --- | --- | --- |
| `continuations` | 2 kernels, 2 inputs, 2 lease and fence epochs, 3 versions, 2 claims of each input | are inputs answered once and in order, is a claimed input worked on or claimable, can an epoch be shared or a token revive? | holds |
| `pumps` | 2 kernels, five workloads one at a time, 1 to 3 faults, 2 slots and 2 tokens | are commands, deliveries, turns, signals and capacity handled in order, at most as often as claimed, and in the end? is `PumpsInv`, the invariant of the proof, true? | holds |
| `mission_budget` | an Attempt with 2 calls or a planner with 2 executors, both lanes, 1 slot, bound 2, charges 1 or 3 | is every charge on the books, is `BudgetInv`, the invariant of the proof, true, does the slot come back? | holds |
| `lifecycle_solo` | 1 kernel, authorization, 2 stalls, crash, fairness | are decisions and cancels consistent, is the Run driven, is a cancel carried out? | holds |
| `lifecycle_two` | 2 kernels, authorization, stall, late activation, crash, no suspension between adjacent transactions | is an ended Run changed when a kernel that lost it answers, is RunAuthority implemented? | holds |
| `lifecycle_wake` | 2 kernels, unknown calls, stall at any point, fairness | is a resolution lost, is a reconciled wait woken, is an ended Run changed? | holds |
| `effect_ledger` | 2 processes, 2 attempts | at most once, answered once | holds |
| `provider_calls` | 2 processes, 1 call, 2 handoffs, 1 takeover | served once, answered once, kept while live? | holds |
| `provider_budget` | 1 process that dies and starts again, 2 calls, a cap of 3 for reservations of 2, fairness | is the cap kept, is a handoff recovered by the start that comes after its lease is gone? | holds |
| `lifecycle_lost_cancel` | 1 kernel | is a cancel kept when a call is in flight? | violated |
| `mission_slot` | as `mission_budget`, one lane | does a call of uncertain outcome keep its slot? | violated |
| `effect_reopen` | 1 process, fairness | is a handed-off call that was not started reset? | violated |

Two kernels suffice for the interference the code can meet: a lease has one
holder, and every other process is a late one or a competing one. Three epochs
let a process lose the Run, see a successor and claim it again. A `ttl` of one
tick makes every order of expiry and renewal possible with the fewest states.
Two attempts are all the ledger permits (`rehandoff_count` is 0 or 1), and five
versions of the effect row are handoff, unknown, reset, second handoff and
answer; a longer history is covered by the proof. The six versions of a Provider
row are the same and the claim: no row can have more. In `provider_budget` the
process has one fence, so a second lease epoch is claimed but not driven under;
`provider_calls` has the takeover that drives on. That epoch, held by the
restarted process, is the lease of a successor which must not keep the old handoff;
the two calls make a pass of several rows, the second visited only after the first was
observed. The driver results are split between the lifecycle runs: unknown calls
with cancels have a violation of section 5 (`lifecycle_solo` has none), and
authorization with two kernels needs `MayPause = FALSE` (`lifecycle_two`), while
`lifecycle_wake` lets a lease lapse inside a section too. Crashes and late activations
together with unknown calls and two kernels are covered by the proofs.

In `continuations` the second input is what makes order a question, and two epochs
allow one takeover with the first kernel still at work; longer histories are
covered by the proof. In `pumps` a claim lapses at most as often as there are
faults, which is enough to have two workers on one row, one of them late, and a
third attempt; two attempts reach the retry limit. One of the callers of the
capacity weighs two tokens, so that it must wait although a slot is free. In
`mission_budget` a charge of 3 exceeds the bound of 2 (an overrun), a charge of 1
does not; the account of the Task admits both calls at their bounds and no more;
one slot is the pool at its limit.

No run checks deadlock: a Run that has ended, or that waits for a host which never
answers, stops for good, and bounded instances stop at their bounds.

### Fairness

`Fairness` of RunLifecycle assumes of the code: tasks that are ready run (the
asyncio loop is first-in first-out), the drain loop polls, a started process
recovers, drivers return (their provider and tool timeouts see to it) and a lease
nobody renews lapses. Strong fairness is used where the loop competes with other
tasks of the process for the same instant (`LoseLease`, `Retire`). Nothing is
assumed of the hosts, nor that heartbeats are in time. `EffectFairness` assumes
in addition that the host in the end confirms and authorizes; its property is
conditional on some process keeping the Run. `ProviderFairness` assumes that a
process which is started comes to list the rows and, if it is started over and over,
once lives long enough to visit them (the strong fairness; `reconcile_incomplete` runs
once per start, kernel.py:2015), that the host answers `observe`, and that provider
calls end. It does not assume that the host ever calls `Runtime.reconcile()`.

The pumps poll, so every claim, settlement and wake of a kernel that is up is
weakly fair; time passes, so claims and backoffs run out; a process that died is
started again; `SharedCapacity.recover` runs with every dispatch and every
reconciliation. Faults are finite: a host that fails for ever, or a claim that
lapses every time, is not supposed to be survived. `BudgetFairness` assumes that a
transport returns (it has a timeout, and the wait for a slot ends at the turn's
deadline), that the lease of a process that died lapses, and that the late
accounting runs `recover` in every cycle of the event loop. It assumes nothing of
Provider or host: outcomes may stay unknown for ever.

## 4. Proofs

All theorems are for any set of owners, inputs, calls, commands or children and any
values of the bounds; where a sum or a count is taken, the set is finite. Every
safety invariant and every action property that a passing run checks is the
conclusion of a theorem. The main inductive invariants (`AuthorityInv`, `EffectInv`,
`LifecycleInv`, `ProviderInv`, `PumpsInv`, `BudgetInv`) are invariants of runs too;
the strengthenings that a single theorem needs are defined beside its proof.

**RunAuthorityProofs.** `AuthorityInv` is inductive. That epochs are not shared
does not follow from itself: a kernel remembers epochs in three dictionaries
(held, claimed, retiring), so `LeaseTokensIssued` says every remembered epoch was
issued and the current one only to the owner in the row; `FenceTokensIssued` says
the same of fences; `FenceBehindLease` is what makes the wake path safe, which
computes the next lease epoch without reading the fence. From the invariant come
`StaleAuthority` and `Takeover`, via one lemma on what a step may do to the two
rows (`RowSteps`).

**RunLifecycleProofs.** Each step of the lifecycle is a step of RunAuthority or
leaves its variables alone, so `LifecycleSpec => Spec`, and the theorems above
hold of RuntimeKernel as modelled. `LifecycleInv` is inductive together with
`VersionBounded`: `NoLostResolution` (an open blocker is one whose call is
unresolved) needs to know that calls are recorded before they are waited for
(`CallsAccounted`) and that a kernel is in one synchronous section at a time
(`SectionSound`). Three further theorems have a hypothesis:

| Theorem | Hypothesis | Outside it |
| --- | --- | --- |
| `OpenDecision` | one kernel (`OneKernel`) | nothing is claimed |
| `EndedRunStays` | one kernel, or no driver that asks for an authorization, or no suspension between adjacent transactions (`~MayPause`) | the property fails: section 5 |
| `CancelStands` | one kernel and no call that ends unknown | `lifecycle_lost_cancel` is a violation |

With one kernel, `OneKernelFacts` says that a drive past its first look has a Run
that neither waits nor ended, and that every section is about the Run as it is;
`CancelFacts` adds that under `cancel_requested` the drive's token is cancelled or
its result already is.

**EffectLedgerProofs.** `EffectInv` is inductive: the row counts its handoffs
(`AttemptsAccounted`), a row that was read equals the table's row while the
versions agree (`SnapshotsPinned`, which is what justifies compare-and-swap by
version), and an executor's position agrees with what it read (`ExecutorsSound`).
At-most-once follows: a second handoff exists only after the first was confirmed
never to land. `LedgerIsOneShot` is the refinement of `OneShotEffect`.

**ProviderLedgerProofs.** `ProviderInv` is inductive beside `AuthorityInv`.
`RowsPinned` and the lemma `RowMoves` play the part of compare-and-swap by version
for many rows and two kinds of handler (`HandlersSound`). For the budget, the
liability of a Run is a sum over its calls, and it grows only at a claim, which is
refused while any charge is unknown; an answer, a receipt or a resolution replaces
the estimate by a charge that is no larger. Hence `LiabilityWithinCap` and, since
charges cover costs, `HardCap`. `LiveCall` (a call whose process holds the live
lease keeps its row) is inductive given the invariants: a lease that is live after
a step and is not new was live before it. `CallsOneShot` is the refinement of
`OneShotEffect`, call by call.

**ContinuationQueueProofs.** `QueueInv` is inductive: with the types, `Numbered`
(the inputs so far are those numbered 1 to n) and `ServedFromFront` (whatever is
claimed or answered has only settled inputs before it). The last one is its own
induction hypothesis once `IsHead` is spelt out, because settling an input never
unsettles one before it; it holds however often an input is claimed and by whom.
From it come the refinement of `FifoQueue` (`ContinuationsAreFifo`: an
acknowledgement answers the first unanswered input) and, with the lemma
`QueueStepIsAuthorityStep` (one step per action), `QueueImplementsAuthority`, so
that the authority theorems hold of kernels that serve inputs. `ClaimsWorked` needs two more facts, in `ClaimsInv`: a claim is
made under a lease that was issued (`ClaimsUnderLease`), so that a later lease never
makes an old claim live again, and the kernel of a live claim knows its lease and has
not lost it (`Worked`), so that it is the one that drives or gives up.

**SumTheorems.** The library defines a sum over a set by recursion over subsets,
and its induction theorems cannot be used here. The lemmas are proved by taking a
smallest set for which they fail (`SmallestSet`, from the well-foundedness of
strict inclusion among the subsets of a finite set): taking an element out,
changing one value, comparing two functions point by point, splitting the set in two,
and adding up part by part (`SumByParts`).

**KernelPumpsProofs.** `PumpsInv` is the conjunction of the invariants of the five
components, which share nothing but the kernels, the faults and the state of the
Run. The lemma `Frames` says that a step which leaves a component's variables alone
preserves its part; the actions of its own are taken one by one.

* *Commands*: numbers grow with acceptance and cancels come last (`StreamNumbered`); a
  command that had its turn has only settled ones before it (`ServedInTurn`);
  `StreamStep` is what a step may do to the stream. From it come `CommandOrder`,
  `OutcomesFinal`, and `CancelFinal`: once a cancel was applied, no start or continue
  is left that could take effect, and no command makes the Run active: what does is
  the wait that replaces `cancel_requested`.
* *Deliveries*: each call of the sink but the one that counts is paid for by a fault,
  those still to come included (`SinkCallsPaidFor`): a courier is late because of a
  fault, and the row's version tells it from the one that holds the claim. Hence
  `DeliveryOften`.
* *Turns*: a scribe settles a turn by what the host has answered
  (`ScribesHaveAnswers`), which gives `TurnsAccounted` (of `TurnsAreAccountedFor`,
  a part of `PumpsInv`).
* *Signals*: the signals that were told are those numbered 1 to `Len(told)`, and only
  the next one is claimed (`SignalsNumbered`); `SignalsInOrder`.
* *Capacity*: what a caller is at agrees with its entry and with the Provider ledger
  (`CallersMatchEntries`), so that whatever the Provider works on is held; the sums
  over the held entries stay within the pool because an admission adds one entry and
  is guarded by the sum; `CapacityKept`.

**MissionBudgetProofs.** `BudgetInv` is inductive, `NeverUndercounted` alone is far
from it: it compares an account with all that was spent under it. Its parts:
`RecordsAgree` (a report and an imported row give the cost of the call or nothing),
`UnreportedIsHeld` (a call that was sent and of which no cost was reported holds its
grant, and a settled grant holds what the call cost), `AskersSeeAll` (while a call
asks for a grant, no reported call of its turn is released, so that what `acquire`
adds up is complete; true because `acquire` begins with `recover`, and the variant
`AskUnrecovered` breaks it), `FreshTurns` (a turn that has not begun has nothing
reserved and no grants), `ReservationsCover` (an open reservation covers what its
calls may come to) and `AccountsCover` (every account of the chain has on its books
each open reservation and, for a closed one, its charges). Most actions touch the
grants, the records or the askers only, and go through three step shapes
(`GrantFrame`, `RecordFrame`, `AskFrame`); those that move tokens between a
reservation and its accounts are proved one by one. `NoUndercount` then adds up,
turn by turn. Calls in `writtenOff` are excepted throughout, as in the property itself.

Assumptions: those on the constants, each named in the module that declares them
and evaluated by TLC in the runs (`AuthorityConstants`, `LifecycleConstants`,
`EffectConstants`, `ProviderConstants`, `QueueConstants`, `PumpConstants`,
`CommandConstants`, `DeliveryConstants`, `MemoryConstants`, `ChildConstants`,
`CapacityConstants`, `WorkloadConstants`, `BudgetConstants`), and the hypotheses of
the three lifecycle theorems. Of the assumptions the ones that are not about types
are: sets that are summed or counted over are finite; a command is a start, a
continue or a cancel and not two of them; no estimate exceeds the pool
(shared_capacity.py:240 refuses such a call); what a Provider call costs, at the frozen prices, is at most its
estimate, which the host states as an upper bound (`estimate_upper_bound`).

Only model-checked: liveness, which needs fairness and ENABLED and is beyond the
prover (`RunningIsDriven`, `CancelIsCarriedOut`, `ResolvedWaitIsWoken`,
`LostHandoffIsRecovered`, `EveryCommandSettles`, `EveryDeliveryArrives`,
`EveryTurnSettles`, `EverySignalArrives`, `ToldParentIsDriven`, `CapacityComesBack`,
`NobodyWaitsInVain`, `SlotComesBack`).

## 5. Disagreements found

1. **A cancel is forgotten** (`lifecycle_lost_cancel`). The wait on a call that
   was in flight overwrites `cancel_requested`; the next cancel fails because the
   event exists.
2. **A handed-off call is not reset** (`effect_reopen`), against
   `docs/api/effects.md`.
3. **A call of uncertain outcome loses its slot** (`mission_slot`). The head of
   provider_budget_guard.py (7-8) says "An uncertain request keeps both its allowance
   and slot until actual SDK reconciliation, never a TTL guess." `recover` frees the
   slot when the lease of the handoff has lapsed (1059-1064), and both `recover` and
   `observe` when the SDK's row says `unknown` (1056-1058, 899-904). The comments at
   these places say that this is meant; `SlotComesBack` shows what it achieves, and
   the allowance is kept as the head says.

The following are in the models and have no run of their own; where a property
would fail because of one, it names the exception.

* `commit_decision` (uow.py:4389) sets the Run to waiting without a test of its state
  or of the authority. The lease is asked for a transaction earlier, when the driver's
  return is recorded. A process that is suspended between the two beyond its lease
  turns a Run that another kernel has completed back to waiting; with two kernels and
  `MayPause = TRUE`, `TerminalIsFinal` fails in this way.
* `CancelIsFinal` names one way in which a Run is active after its cancel was applied:
  the wait of finding 1. A second cancel *command* has an event id of its own
  (kernel.py:2404) and is recorded.
* A process that is restarted while the lease of a handoff of its predecessor is still
  live passes the row over (uow.py:7438) and does not come back to it: the call stays
  `handed_off`, and `invoke` conflicts (dispatch.py:610), until the next start or the
  host's `Runtime.reconcile()`. `LostHandoffIsRecovered` is about handoffs whose lease
  is gone while a process is yet to start.
* A Run in state `queued` gets no wake when its lease is lost (kernel.py:2974):
  `RunningIsDriven` speaks of running Runs.
* A lease that lapses between claim and `acquire` (`LateActivation`) leaves the
  lease in `_leases` without a fence or a heartbeat, and the drain loop then
  discards the wake that `recover` says it keeps (kernel.py:2148-2150, 2266). The
  runs about progress set `MaxLate = 0` for this reason.
* `_response_charge_for_record` charges the usage of a reconciled response whatever
  model produced it (`UsageCharge` in `RecordProviderReconciliation`), while
  `docs/api/provider-invocation-ledger.md` (36-37) trusts usage of the target's
  model only, as `_response_charge` does (`ResponseCharge`).
* A claimed invocation that gave up its place in the shared capacity, or whose
  process died before the handoff, cannot be resumed: its key is used up
  (shared_capacity.py:248), while `docs/api/provider-invocation-ledger.md` (17-18)
  calls a claimed row "safe to resume".
* `ClaimIsWorked` has two exceptions: a terminalisation that conflicts after the
  driver raised (kernel.py:3356-3365; it always does when the driver had acknowledged
  its input, since the claim is still passed on) and a restart under the old owner id while
  the lease is live. In both an input stays claimed under a live lease that nobody
  works under, against "a claimed input must never wait silently for recover()"
  (kernel.py:3333-3334).
* `ToldParentIsDriven` has the exceptions of its flag `lost`: the kernel that
  acknowledges a signal is not the one that holds the parent's lease and goes on
  (kernel.py:2671-2672, compare 2867-2875), the parent's drive is active without
  the signal, or a waiting parent's process dies (uow.py:7794-7803).
* A lost claim ends a pump: `DeliveryConflictError` leaves `_delivery_pump`
  (kernel.py:2555-2572), `UnitOfWorkConflict` leaves `_memory_pump` (2604-2625) and
  `_wake_drain` (2260-2277); only a restart brings them back.
* A delivery that was released is claimed first again (uow.py:3805-3810), so a sink
  that always fails keeps the later ones waiting. `EveryDeliveryArrives` holds
  because faults are finite.
* A cancel that is rejected after its last transient failure leaves
  `cancel_fence_seq` set: the Run takes no further commands.

Of the budget, all in `writtenOff`:

* The stop of a read-only leaf (event_handler.py:6472-6487) marks the Attempt lost
  without importing its usage. Calls that have ended hold no grant, so nothing is
  unknown and the reservation is settled without them; commit_service.py:2003-2005
  says of the same ledger "never before the turn's cost is known".
* A call answered without usage whose receipt comes after the result was
  collected: any `recover` settles its grant, and a verdict (commit_service.py:5372)
  or a stop before the next late-accounting pass finds nothing unknown and settles
  without the receipt.
* A hierarchical Mission releases the grants of unknown calls and settles what is
  known (`release_held_grants`, `settle_known`). That is deliberate (P2.3l), but
  `_resolve_provider_blocked_service` still says that the charge "keeps the
  reservation held, which is the honest count", `rehandoff_service_intent` that
  "the reservation is only settled when no charge is unknown", and the head of
  budgets.py that `settle` refuses to run.

Two details of the same code that no property depends on: late accounting takes a
report of zero tokens for a known zero (`_facts`), unlike `usage_facts` and the
guard, and refuses a re-handed turn for good when its first executor has grants.

## 6. Plan

Done: RunAuthority, RunLifecycle, EffectLedger, ProviderLedger, ContinuationQueue,
the pumps and MissionBudget, each with its runs and with theorems for every safety
property the runs check. Left, in order of importance:

1. The workflow engine: checkpoints under the workflow lease, children spawned by
   workflows, detached children.
2. The Assurance and TaskGraph lanes of the budget, and the Attempt state machine
   of the commit service around it.
3. The capacity of SharedCapacity as an abstract pool that both it and the slots of
   MissionBudget implement.

## 7. Not modelled

Wire formats, hashes, receipts and validation (identity conflicts are not
reachable from one caller with one intent), audit and observability writes,
SQLite itself (a transaction is atomic and durable), wall-clock skew between
processes. Direct calls of the shared capacity, which have no ledger row and are
never recovered. Of agent_orchestrator everything but the budget: task graph,
planning, verification, knowledge and artifacts compute over host documents and
model text under a single event loop, so that their correctness is a matter of
content and not of the order of steps; the exceptions (late results, heal,
action reconciliation) are candidates for the plan. The remaining components are
marked `not_modelled` in `PROJECT.json` with the reason.
