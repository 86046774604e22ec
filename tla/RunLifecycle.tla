---------------------------- MODULE RunLifecycle ----------------------------
(***************************************************************************)
(* The life of one Run in RuntimeKernel: activation, the drive task and    *)
(* the commit of its result, cancellation, authorization decisions,        *)
(* waits on calls of unknown outcome, wakes and startup recovery, over the *)
(* authority protocol of RunAuthority, whose specification it implements.  *)
(*                                                                         *)
(* Several kernel processes share the database.  Within a process the      *)
(* asyncio loop interleaves tasks only where a call really suspends, which *)
(* is inside the driver and while a task is joined; between processes      *)
(* every transaction may interleave.  So a kernel that is between two      *)
(* transactions of one synchronous section (not Free) takes no other step, *)
(* while the other kernels do.                                             *)
(*                                                                         *)
(* The Run is a root Run of a driver that takes no continuation input      *)
(* (ReAct without queued inputs).  The driver is known by its result.      *)
(***************************************************************************)
EXTENDS RunAuthority

CONSTANTS DriverResults,  \* which results the driver may return
          MaxAttempts,    \* bound: outbound calls that end unknown
          MaxStalls,      \* bound: leases that lapse under a late heartbeat
          MaxLate,        \* bound: leases that lapse between claim and acquire
          MaxCrashes,     \* bound: process crashes
          MayPause        \* a process may be suspended inside a synchronous
                          \* section for longer than its lease lasts

ASSUME LifecycleConstants ==
    /\ MayPause \in BOOLEAN
    /\ DriverResults \subseteq {"completed", "failed", "waiting", "unknown", "authorize"}
    /\ MaxAttempts \in Nat /\ MaxStalls \in Nat /\ MaxLate \in Nat /\ MaxCrashes \in Nat

VARIABLES task,      \* LiveRunIndex: the drive task of each kernel
          token,     \* kernel._cancels: "none", "clear" or "cancelled"
          pending,   \* kernel._pending_wakes
          waker,     \* a _wake_continuation task: "none", "new", "waited"
          canceller, \* a _cancel_run call: "none" or "joining"
          goal,      \* what a kernel does once activated: [kind, state, seen]
          boot,      \* the startup recover() is still to come
          decision,  \* decisions: the Run's tool authorization
          logged,    \* run_events has "<run>:cancel-requested"
          attempts,  \* ledger: outbound calls that went unknown
          resolved,  \* reconciliation_resolutions: the ones resolved
          blocker,   \* run_wait_blockers, by attempt
          stalls, late, crashes

localVars == <<task, token, pending, waker, canceller, goal, boot>>
durableVars == <<decision, logged, attempts, resolved, blocker>>
boundVars == <<stalls, late, crashes>>
lifecycleVars == <<authorityVars, localVars, durableVars, boundVars>>

NoTask == [at |-> "none", result |-> "none", seen |-> 0, attempt |-> 0, lease |-> 0]
NoGoal == [kind |-> "none", state |-> "none", seen |-> 0]
Attempts == 1..MaxAttempts

LifecycleInit ==
    /\ Init
    /\ task = [o \in Owners |-> NoTask]
    /\ token = [o \in Owners |-> "none"]
    /\ pending = [o \in Owners |-> FALSE]
    /\ waker = [o \in Owners |-> "none"]
    /\ canceller = [o \in Owners |-> "none"]
    /\ goal = [o \in Owners |-> NoGoal]
    /\ boot = [o \in Owners |-> TRUE]
    /\ decision = "none"
    /\ logged = FALSE
    /\ attempts = 0
    /\ resolved = {}
    /\ blocker = [k \in Attempts |-> "none"]
    /\ stalls = 0
    /\ late = 0
    /\ crashes = 0

-----------------------------------------------------------------------------

\* No synchronous section is in progress in the process of kernel o.
Free(o) ==
    /\ pc[o] = "idle"
    /\ goal[o] = NoGoal
    /\ task[o].at \notin {"commit", "finally"}

\* run_id in LiveRunIndex.active_run_ids().
Active(o) == task[o].at # "none"

\* claim_runtime_activation, or _activate before it, raises UnitOfWorkConflict.
ActivationRefused(o) ==
    \/ IsRetiring(o)
    \/ run.state \in Terminal
    \/ Live /\ lease.owner # o

\* The latest outbound call went unknown and is not reconciled.
LatestUnresolved == attempts > 0 /\ attempts \notin resolved

\* Faulty: a driver that is running does not see the cancellation.
CancelUnstartedTask(o) ==
    /\ UNCHANGED token
    /\ task' = [task EXCEPT ![o] = IF @.at = "ready" THEN NoTask ELSE @]

\* token.cancel() and LiveRunIndex.cancel: a task that has not started ends at
\* once, a running driver gets the cancellation at its await.
CancelTask(o) ==
    /\ token' = [token EXCEPT ![o] = IF @ = "none" THEN @ ELSE "cancelled"]
    /\ task' = [task EXCEPT ![o] = IF @.at = "ready" THEN NoTask ELSE @]

\* _schedule, when the Run was read in state s.
Schedule(o, s, hold) ==
    IF s \in Terminal
    THEN pending' = [pending EXCEPT ![o] = FALSE] /\ UNCHANGED task
    ELSE IF IsRetiring(o) \/ ~hold
    THEN pending' = [pending EXCEPT ![o] = TRUE] /\ UNCHANGED task
    ELSE /\ task' = [task EXCEPT ![o] = IF @.at = "none"
                                        THEN [NoTask EXCEPT !.at = "ready"] ELSE @]
         /\ pending' = [pending EXCEPT ![o] = FALSE]

-----------------------------------------------------------------------------
(* Activation and what follows it.                                         *)

\* The claim of an _activate made for kind.
ClaimFor(o, kind) ==
    /\ ClaimRuntimeActivation(o)
    /\ goal' = [goal EXCEPT ![o] = [kind |-> kind, state |-> run'.state, seen |-> run'.version]]

\* recover(), at startup and whenever the host reconciles.
Recover(o) ==
    /\ Free(o) /\ ~Active(o)
    /\ boot' = [boot EXCEPT ![o] = FALSE]
    /\ \/ /\ run.state \in {"created", "queued", "running", "cancel_requested"}
          /\ \/ ClaimFor(o, IF boot[o] THEN "startup" ELSE "recover") /\ UNCHANGED pending
             \/ /\ ActivationRefused(o)
                /\ pending' = [pending EXCEPT ![o] = TRUE]
                /\ UNCHANGED <<authorityVars, goal>>
       \/ /\ run.state \notin {"created", "queued", "running", "cancel_requested"}
          /\ UNCHANGED <<authorityVars, goal, pending>>
    /\ UNCHANGED <<task, token, waker, canceller, durableVars, boundVars>>

\* _wake_continuation up to its activation, or to joining a running drive, or to
\* scheduling one.
WakeContinuation(o) ==
    \/ /\ IsRetiring(o)
       /\ pending' = [pending EXCEPT ![o] = TRUE]
       /\ waker' = [waker EXCEPT ![o] = "none"]
       /\ UNCHANGED <<authorityVars, goal, task>>
    \/ /\ ~IsRetiring(o) /\ heldLease[o] = 0
       /\ waker' = [waker EXCEPT ![o] = "none"]
       /\ \/ ClaimFor(o, "wake") /\ UNCHANGED <<pending, task>>
          \/ /\ ActivationRefused(o)
             /\ pending' = [pending EXCEPT ![o] = TRUE]
             /\ UNCHANGED <<authorityVars, goal, task>>
    \/ /\ ~IsRetiring(o) /\ heldLease[o] # 0
       /\ IF Active(o)
          THEN /\ waker' = [waker EXCEPT ![o] = "waited"]
               /\ pending' = [pending EXCEPT ![o] = FALSE]
               /\ UNCHANGED task
          ELSE /\ waker' = [waker EXCEPT ![o] = "none"]
               /\ Schedule(o, run.state, TRUE)
       /\ UNCHANGED <<authorityVars, goal>>

\* The task that decide_authorization creates; once it has joined a drive it
\* gives up if a call of unknown outcome is open, and else wakes again.
WakeTask(o) ==
    /\ Free(o)
    /\ \/ /\ waker[o] = "new"
          /\ WakeContinuation(o)
       \/ /\ waker[o] = "waited" /\ ~Active(o)
          /\ waker' = [waker EXCEPT ![o] =
                         IF \E k \in Attempts : blocker[k] = "open" THEN "none" ELSE "new"]
          /\ UNCHANGED <<authorityVars, goal, pending, task>>
    /\ UNCHANGED <<token, canceller, boot, durableVars, boundVars>>

\* _wake_drain on a pending wake: dropped when the lease is held.
DrainPendingWake(o) ==
    /\ Free(o) /\ pending[o] /\ waker[o] = "none"
    /\ \/ /\ heldLease[o] # 0
          /\ pending' = [pending EXCEPT ![o] = FALSE]
          /\ UNCHANGED <<authorityVars, waker, goal, task>>
       \/ /\ heldLease[o] = 0 /\ ~Active(o)
          /\ WakeContinuation(o)
    /\ UNCHANGED <<token, canceller, boot, durableVars, boundVars>>

\* _drain_resolved_waits_once on one resolved blocker; it does not ask whether
\* the kernel is retiring an earlier lease.
DrainResolvedWait(o, k) ==
    /\ Free(o)
    /\ blocker[k] = "resolved"
    /\ ConsumeResolvedWait(o)
    /\ blocker' = [blocker EXCEPT ![k] = "consumed"]
    /\ goal' = [goal EXCEPT ![o] = [kind |-> "drain", state |-> run'.state, seen |-> run'.version]]
    /\ UNCHANGED <<task, token, pending, waker, canceller, boot,
                   decision, logged, attempts, resolved, boundVars>>

\* acquire after the claim; a token left from another epoch is replaced by
\* _activate and kept by the drain.
Acquired(o) ==
    /\ AcquireFence(o)
    /\ token' = [token EXCEPT ![o] =
          IF @ # "none" /\ (goal[o].kind = "drain" \/ heldLease[o] = claimed[o]) THEN @
          ELSE IF goal[o].kind # "drain" /\ goal[o].state = "cancel_requested"
          THEN "cancelled" ELSE "clear"]
    /\ UNCHANGED <<task, pending, waker, canceller, goal, boot, durableVars, boundVars>>

\* acquire refused: recovery and wakes are kept pending, a drain is given up, a
\* cancel raises to its caller.
AcquireRefused(o) ==
    /\ AcquireConflict(o)
    /\ goal' = [goal EXCEPT ![o] = NoGoal]
    /\ pending' = [pending EXCEPT ![o] = @ \/ goal[o].kind \in {"startup", "recover", "wake"}]
    /\ canceller' = [canceller EXCEPT ![o] = IF goal[o].kind = "cancel" THEN "none" ELSE @]
    /\ UNCHANGED <<task, token, waker, boot, durableVars, boundVars>>

\* Faulty: the Run is closed whatever became of it and of the lease.
CloseRunUnfenced(o, s, seen) ==
    /\ pc[o] = "idle"
    /\ SetRun(s)
    /\ UNCHANGED <<lease, fence, heldFence, kernelVars>>

\* The terminal transaction finds the Run as it was read and this kernel's authority.
CanClose(o, seen) == run.version = seen /\ run.state \notin Terminal /\ HasAuthority(o)

\* _terminalize of the Run as it was read: the terminal transaction, or its
\* conflict, which writes nothing.
CloseRun(o, s, seen) ==
    \/ run.version = seen /\ CommitRootTerminal(o, s)
    \/ ~CanClose(o, seen) /\ UNCHANGED authorityVars

\* The activation was for closing a cancelled Run.
ForCancel(g) ==
    g.kind = "cancel" \/ (g.kind \in {"startup", "recover"} /\ g.state = "cancel_requested")

\* After activation: schedule a drive, or close the cancelled Run; a conflict there
\* goes to the caller of the cancel or of reconcile(), and fails a startup.
Dispatch(o) ==
    /\ pc[o] = "idle" /\ goal[o] # NoGoal
    /\ goal' = [goal EXCEPT ![o] = NoGoal]
    /\ \/ /\ ForCancel(goal[o])
          /\ goal[o].kind = "startup" => CanClose(o, goal[o].seen)
          /\ CloseRun(o, "cancelled", goal[o].seen)
          /\ canceller' = [canceller EXCEPT ![o] =
                              IF goal[o].kind = "cancel" THEN "none" ELSE @]
          /\ UNCHANGED <<task, pending, waker>>
       \/ /\ ~ForCancel(goal[o])
          /\ IF goal[o].kind = "wake" /\ Active(o)
             THEN /\ waker' = [waker EXCEPT ![o] = "waited"]
                  /\ pending' = [pending EXCEPT ![o] = FALSE]
                  /\ UNCHANGED task
             ELSE /\ Schedule(o, run.state, heldLease[o] # 0)
                  /\ UNCHANGED waker
          /\ UNCHANGED <<authorityVars, canceller>>
    /\ UNCHANGED <<token, boot, durableVars, boundVars>>

\* The process of kernel o ends, and a new one starts under its owner id.
ProcessEnds(o) ==
    /\ Crash(o)
    /\ task' = [task EXCEPT ![o] = NoTask]
    /\ token' = [token EXCEPT ![o] = "none"]
    /\ pending' = [pending EXCEPT ![o] = FALSE]
    /\ waker' = [waker EXCEPT ![o] = "none"]
    /\ canceller' = [canceller EXCEPT ![o] = "none"]
    /\ goal' = [goal EXCEPT ![o] = NoGoal]
    /\ boot' = [boot EXCEPT ![o] = TRUE]
    /\ UNCHANGED durableVars

\* recover() meets a conflict when it closes a cancelled Run at startup: start()
\* fails, and the Runtime, being FAILED, can only be replaced.
StartupFails(o) ==
    /\ pc[o] = "idle" /\ goal[o].kind = "startup"
    /\ ForCancel(goal[o]) /\ ~CanClose(o, goal[o].seen)
    /\ ProcessEnds(o)
    /\ UNCHANGED boundVars

-----------------------------------------------------------------------------
(* The drive task.                                                         *)

\* _drive up to the driver call.  The preflight operation is recorded under the
\* lease; without the fence the lookup raises out of the task.
BeginDrive(o) ==
    /\ Free(o) /\ task[o].at = "ready"
    /\ task' = [task EXCEPT ![o] =
          IF run.state \in Terminal THEN NoTask
          ELSE IF ~RequireRuntimeLease(o, heldLease[o])
          THEN [@ EXCEPT !.at = "finally"]
          ELSE IF run.state = "cancel_requested"
          THEN [@ EXCEPT !.at = "commit", !.result = "cancelled", !.seen = run.version]
          ELSE IF run.state = "waiting" \/ heldFence[o] = NoFence
          THEN [@ EXCEPT !.at = "finally"]
          ELSE [@ EXCEPT !.at = IF token[o] = "cancelled" THEN "doomed" ELSE "driver",
                         !.attempt = IF LatestUnresolved THEN attempts ELSE 0,
                         !.lease = heldLease[o]]]
    /\ UNCHANGED <<authorityVars, token, pending, waker, canceller, goal, boot,
                   durableVars, boundVars>>

\* Faulty: the driver's return is not recorded under its lease.
ReturnAcceptedUnchecked(o, r) == TRUE

\* runtime_operation records the driver's return under the lease the drive began
\* with; only a driver that raised goes on to a commit without it.
ReturnAccepted(o, r) == RequireRuntimeLease(o, task[o].lease) \/ r = "failed"

\* The driver returns and, unless the record of it is refused, _drive reads the Run
\* again.  A cancelled driver returns only when its outbound call was in flight, the
\* call being recorded as unknown; a driver that found an unresolved call returns
\* that call.
DriverReturns(o, r) ==
    /\ Free(o) /\ task[o].at = "driver"
    /\ token[o] = "cancelled" => r = "unknown"
    /\ r = "authorize" => decision \in {"none", "open"}
    /\ LET again == task[o].attempt # 0 /\ task[o].attempt \notin resolved
           k     == IF again THEN task[o].attempt ELSE attempts + 1
       IN  /\ again => r = "unknown"
           /\ r = "unknown" => k \in Attempts
           /\ attempts' = IF r = "unknown" /\ ~again THEN k ELSE attempts
           /\ task' = [task EXCEPT ![o] =
                 [at |-> IF ReturnAccepted(o, r) THEN "commit" ELSE "finally", result |-> r,
                  seen |-> run.version, attempt |-> IF r = "unknown" THEN k ELSE 0,
                  lease |-> @.lease]]
    /\ UNCHANGED <<authorityVars, token, pending, waker, canceller, goal, boot,
                   decision, logged, resolved, blocker, boundVars>>

\* CancelledError leaves the driver: a cancel request is completed, a lost lease
\* ends the task.
DriverCancelled(o) ==
    /\ Free(o)
    /\ \/ task[o].at = "doomed"
       \/ task[o].at = "driver" /\ token[o] = "cancelled"
    /\ task' = [task EXCEPT ![o] =
          IF run.state = "cancel_requested"
          THEN [@ EXCEPT !.at = "commit", !.result = "cancelled", !.seen = run.version]
          ELSE [@ EXCEPT !.at = "finally"]]
    /\ UNCHANGED <<authorityVars, token, pending, waker, canceller, goal, boot,
                   durableVars, boundVars>>

\* commit_runtime_state(waiting), or its conflict.
CommitWaiting(o) ==
    /\ task[o].result = "waiting"
    /\ \/ run.version = task[o].seen /\ CommitRuntimeState(o)
       \/ /\ ~(/\ run.version = task[o].seen /\ run.state \notin Terminal
               /\ RequireRuntimeLease(o, heldLease[o]))
          /\ UNCHANGED authorityVars
    /\ UNCHANGED <<decision, blocker>>

\* Faulty: the wait does not look for a resolution that came first.
NewBlockerOpen(k) == "open"

\* The state of a new blocker on attempt k.
NewBlocker(k) == IF k \in resolved THEN "resolved" ELSE "open"

\* commit_runtime_wait_with_blocker: an existing blocker is replayed without a
\* write, a resolution that came first is linked at once.
CommitUnknownWait(o) ==
    LET k == task[o].attempt
        replay == blocker[k] # "none"
    IN  /\ task[o].result = "unknown"
        /\ \/ /\ run.version = task[o].seen /\ ~replay
              /\ CommitRuntimeState(o)
              /\ blocker' = [blocker EXCEPT ![k] = NewBlocker(k)]
           \/ /\ \/ replay
                 \/ run.version # task[o].seen
                 \/ run.state \in Terminal
                 \/ ~RequireRuntimeLease(o, heldLease[o])
              /\ UNCHANGED <<authorityVars, blocker>>
        /\ UNCHANGED decision

\* _commit_authorization_wait: the lease is not asked for.
CommitAuthorizationWait(o) ==
    /\ task[o].result = "authorize"
    /\ IF decision = "none" THEN CommitDecisionOpen /\ decision' = "open"
                            ELSE UNCHANGED <<authorityVars, decision>>
    /\ UNCHANGED blocker

\* _terminalize with the driver's result.
CommitTerminal(o) ==
    /\ task[o].result \in Terminal
    /\ CloseRun(o, task[o].result, task[o].seen)
    /\ UNCHANGED <<decision, blocker>>

\* The commit that ends a drive, whatever its outcome.
CommitDrive(o) ==
    /\ pc[o] = "idle" /\ task[o].at = "commit"
    /\ CommitWaiting(o) \/ CommitUnknownWait(o) \/ CommitAuthorizationWait(o) \/ CommitTerminal(o)
    /\ task' = [task EXCEPT ![o].at = "finally"]
    /\ UNCHANGED <<token, pending, waker, canceller, goal, boot, logged, attempts,
                   resolved, boundVars>>

\* The finally clause of _drive: a terminal Run's lease is released.
EndDrive(o) ==
    /\ pc[o] = "idle" /\ task[o].at = "finally"
    /\ task' = [task EXCEPT ![o] = NoTask]
    /\ IF run.state \in Terminal THEN BeginRelease(o) ELSE UNCHANGED authorityVars
    /\ UNCHANGED <<token, pending, waker, canceller, goal, boot, durableVars, boundVars>>

ReleaseLease(o) ==
    /\ ReleaseRuntimeLease(o)
    /\ token' = [token EXCEPT ![o] = "none"]
    /\ UNCHANGED <<task, pending, waker, canceller, goal, boot, durableVars, boundVars>>

-----------------------------------------------------------------------------
(* Heartbeats, cancellation, decisions, reconciliation.                    *)

Renew(o) ==
    /\ Free(o)
    /\ RenewLease(o)
    /\ UNCHANGED <<localVars, durableVars, boundVars>>

\* The heartbeat finds the lease lost and cancels the driver ...
LoseLease(o) ==
    /\ Free(o)
    /\ HeartbeatLost(o)
    /\ CancelTask(o)
    /\ UNCHANGED <<pending, waker, canceller, goal, boot, durableVars, boundVars>>

\* Faulty: no wake is left for a Run that is running.
RewokenWaits == {"waiting", "cancel_requested"}

\* Faulty: no wake is left for a Run that is being cancelled.
RewokenUncancelled == {"running", "waiting"}

\* The states in which the heartbeat leaves a wake for a Run it has lost.
Rewoken == {"running", "waiting", "cancel_requested"}

\* ... and when it has ended drops what it held and leaves a wake.
Retire(o) ==
    /\ Free(o) /\ ~Active(o)
    /\ RetireDone(o)
    /\ token' = [token EXCEPT ![o] =
                    IF heldLease[o] \in {0, retiring[o].lease} THEN "none" ELSE @]
    /\ pending' = [pending EXCEPT ![o] =
                      @ \/ run.state \in Rewoken]
    /\ UNCHANGED <<task, waker, canceller, goal, boot, durableVars, boundVars>>

\* Faulty: open decisions are left open by a cancel.
DecisionKept == decision

\* request_run_cancel closes an open decision.
DecisionClosed == IF decision = "open" THEN "cancelled" ELSE decision

\* _cancel_run: request_run_cancel closes open decisions and writes an event
\* whose identity allows it once per Run; then the task is cancelled.
CancelRun(o) ==
    /\ Free(o) /\ canceller[o] = "none"
    /\ \/ /\ run.state \in Terminal \cup {"cancel_requested"}
          /\ UNCHANGED <<authorityVars, decision, logged>>
       \/ /\ ~logged
          /\ RequestRunCancel
          /\ decision' = DecisionClosed
          /\ logged' = TRUE
    /\ CancelTask(o)
    /\ canceller' = [canceller EXCEPT ![o] = "joining"]
    /\ UNCHANGED <<pending, waker, goal, boot, attempts, resolved, blocker, boundVars>>

\* _cancel_run after the task has ended: a Run still cancel_requested is closed,
\* after activating it if no fence is held.
CancelJoined(o) ==
    /\ Free(o) /\ canceller[o] = "joining" /\ ~Active(o)
    /\ \/ /\ run.state = "cancel_requested" /\ heldFence[o] # NoFence
          /\ goal' = [goal EXCEPT ![o] =
                [kind |-> "cancel", state |-> run.state, seen |-> run.version]]
          /\ UNCHANGED <<authorityVars, canceller>>
       \/ /\ run.state = "cancel_requested" /\ heldFence[o] = NoFence
          /\ \/ ClaimFor(o, "cancel") /\ UNCHANGED canceller
             \/ /\ ActivationRefused(o)
                /\ canceller' = [canceller EXCEPT ![o] = "none"]
                /\ UNCHANGED <<authorityVars, goal>>
       \/ /\ run.state # "cancel_requested"
          /\ canceller' = [canceller EXCEPT ![o] = "none"]
          /\ UNCHANGED <<authorityVars, goal>>
    /\ UNCHANGED <<task, token, pending, waker, boot, durableVars, boundVars>>

\* decide_authorization at kernel o.
DecideAuthorization(o, allow) ==
    /\ Free(o)
    /\ decision = "open"
    /\ CommitDecisionResolved(IF allow THEN "queued" ELSE "failed")
    /\ decision' = IF allow THEN "allowed" ELSE "denied"
    /\ waker' = [waker EXCEPT ![o] = IF allow THEN "new" ELSE @]
    /\ UNCHANGED <<task, token, pending, canceller, goal, boot, logged, attempts,
                   resolved, blocker, boundVars>>

\* Faulty: the resolution is recorded and its blocker forgotten.
ReconcileUnlinked(k) ==
    /\ k <= attempts /\ k \notin resolved
    /\ resolved' = resolved \cup {k}
    /\ UNCHANGED <<authorityVars, localVars, decision, logged, attempts, blocker, boundVars>>

\* record_tool_reconciliation / record_provider_reconciliation for attempt k,
\* which also marks the blocker that waits for it.
Reconcile(k) ==
    /\ k <= attempts /\ k \notin resolved
    /\ resolved' = resolved \cup {k}
    /\ blocker' = [blocker EXCEPT ![k] = IF @ = "open" THEN "resolved" ELSE @]
    /\ UNCHANGED <<authorityVars, localVars, decision, logged, attempts, boundVars>>

CrashKernel(o) ==
    /\ crashes < MaxCrashes
    /\ crashes' = crashes + 1
    /\ ProcessEnds(o)
    /\ UNCHANGED <<stalls, late>>

\* A heartbeat renews the lease that is in the row.
Renewed == \E o \in Owners : heartbeat[o] /\ ~IsRetiring(o)
                             /\ RequireRuntimeLease(o, heldLease[o])

\* A process is between the claim of the lease in the row and its acquire.
Activating == \E o \in Owners : pc[o] \in {"acquire", "acquireWake"}
                                /\ RequireRuntimeLease(o, claimed[o])

\* The process that holds the lease in the row is not suspended inside a section.
HolderAtRest == MayPause \/ \A o \in Owners : lease.owner = o => Free(o)

\* The lease lapses although its holder is alive: the loop was late.
Stall ==
    /\ Renewed /\ ~Activating /\ HolderAtRest /\ stalls < MaxStalls
    /\ Tick
    /\ stalls' = stalls + 1
    /\ UNCHANGED <<localVars, durableVars, late, crashes>>

\* The lease lapses in the middle of an activation.
LateActivation ==
    /\ Activating /\ late < MaxLate
    /\ Tick
    /\ late' = late + 1
    /\ UNCHANGED <<localVars, durableVars, stalls, crashes>>

\* A lease nobody renews lapses.
Lapse ==
    /\ ~Renewed /\ ~Activating /\ HolderAtRest
    /\ Tick
    /\ UNCHANGED <<localVars, durableVars, boundVars>>

-----------------------------------------------------------------------------

\* The next transaction of a synchronous section.
SectionStep(o) ==
    \/ Acquired(o) \/ AcquireRefused(o) \/ Dispatch(o) \/ StartupFails(o)
    \/ CommitDrive(o) \/ EndDrive(o) \/ ReleaseLease(o)

\* The driver answers, or is cancelled.
DriverStep(o) == DriverCancelled(o) \/ \E r \in DriverResults : DriverReturns(o, r)

LifecycleNext ==
    \/ \E o \in Owners :
          \/ SectionStep(o) \/ DriverStep(o) \/ BeginDrive(o)
          \/ LoseLease(o) \/ Retire(o) \/ CancelJoined(o)
          \/ Recover(o) \/ WakeTask(o) \/ DrainPendingWake(o)
          \/ \E k \in Attempts : DrainResolvedWait(o, k)
          \/ Renew(o) \/ CancelRun(o) \/ CrashKernel(o)
          \/ \E allow \in BOOLEAN : DecideAuthorization(o, allow)
    \/ \E k \in Attempts : Reconcile(k)
    \/ Stall \/ LateActivation \/ Lapse

LifecycleSpec == LifecycleInit /\ [][LifecycleNext]_lifecycleVars

-----------------------------------------------------------------------------
(* Properties.                                                             *)

\* Type correctness of the tasks, the wakes and the durable records.
LifecycleTypeOK ==
    /\ TypeOK
    /\ task \in [Owners ->
          [at : {"none", "ready", "driver", "doomed", "commit", "finally"},
           result : {"none", "cancelled"} \cup DriverResults,
           seen : 0..MaxVersion, attempt : 0..MaxAttempts, lease : Nat]]
    /\ token \in [Owners -> {"none", "clear", "cancelled"}]
    /\ pending \in [Owners -> BOOLEAN]
    /\ waker \in [Owners -> {"none", "new", "waited"}]
    /\ canceller \in [Owners -> {"none", "joining"}]
    /\ goal \in [Owners -> [kind : {"none", "startup", "recover", "wake", "drain", "cancel"},
                            state : {"none"} \cup RunStates, seen : 0..MaxVersion]]
    /\ boot \in [Owners -> BOOLEAN]
    /\ decision \in {"none", "open", "allowed", "denied", "cancelled"}
    /\ logged \in BOOLEAN
    /\ attempts \in 0..MaxAttempts
    /\ resolved \subseteq Attempts
    /\ blocker \in [Attempts -> {"none", "open", "resolved", "consumed"}]
    /\ stalls \in 0..MaxStalls /\ late \in 0..MaxLate /\ crashes \in 0..MaxCrashes

\* A completed, failed or cancelled Run never changes again, whatever stale
\* drives, late cancels and wakes are still on their way (_drive: "the stale
\* queued wake must not revive the terminal Run").
TerminalIsFinal == [][run.state \in Terminal => run' = run]_lifecycleVars

\* A cancellation that was accepted is never taken back: the Run leaves
\* cancel_requested only by ending.
CancelIsNotForgotten ==
    [][run.state = "cancel_requested" => run'.state \in {"cancel_requested"} \cup Terminal
      ]_lifecycleVars

\* No wake is lost between a call's reconciliation and the wait on it, in either
\* order: an open blocker is one whose call is unresolved, and a consumed one was
\* resolved.
NoLostResolution ==
    \A k \in Attempts :
        /\ blocker[k] = "open" => k \notin resolved
        /\ blocker[k] \in {"resolved", "consumed"} => k \in resolved

\* A call is recorded before it is waited for or resolved.
CallsAccounted ==
    /\ \A k \in Attempts : blocker[k] # "none" \/ k \in resolved => k <= attempts
    /\ \A o \in Owners : task[o].attempt <= attempts

\* Of the calls that share a process at most one is inside a section without
\* suspension points, and the section that is left open knows how it goes on.
SectionsSound ==
    \A o \in Owners :
        /\ pc[o] \in {"acquire", "acquireWake"} => goal[o] # NoGoal
        /\ pc[o] = "acquireWake" => goal[o].kind = "drain"
        /\ pc[o] = "release" => goal[o] = NoGoal
        /\ task[o].at \in {"commit", "finally"} => pc[o] = "idle" /\ goal[o] = NoGoal
        /\ task[o].at = "commit" => task[o].result # "none"
        /\ task[o].at = "commit" /\ task[o].result = "unknown" => task[o].attempt # 0
        /\ goal[o].kind = "cancel" => canceller[o] = "joining"

\* The invariant of the lifecycle.
LifecycleInv ==
    /\ LifecycleTypeOK
    /\ NoLostResolution
    /\ CallsAccounted
    /\ SectionsSound

\* An open decision is one the Run waits for, so that answering it is possible:
\* decide_authorization turns a decision away unless the Run is waiting.
OpenDecisionIsAwaited == decision = "open" => run.state = "waiting"

\* The asyncio loop is first-in first-out, so a task that keeps becoming ready
\* runs: strong fairness for what waits for the loop, weak for the rest of a
\* synchronous section.  Drivers return, which their provider and tool timeouts
\* see to; the drain loop polls; a process that starts recovers; a lease nobody
\* renews lapses.  Nothing is assumed of the hosts (reconciliation, decisions,
\* cancels) nor of heartbeats being in time.
Fairness ==
    /\ \A o \in Owners :
          /\ WF_lifecycleVars(SectionStep(o))
          /\ WF_lifecycleVars(DriverStep(o))
          /\ WF_lifecycleVars(BeginDrive(o))
          /\ SF_lifecycleVars(LoseLease(o))
          /\ SF_lifecycleVars(Retire(o))
          /\ WF_lifecycleVars(CancelJoined(o))
          /\ WF_lifecycleVars(WakeTask(o))
          /\ WF_lifecycleVars(DrainPendingWake(o))
          /\ WF_lifecycleVars(\E k \in Attempts : DrainResolvedWait(o, k))
          /\ WF_lifecycleVars(boot[o] /\ Recover(o))
    /\ WF_lifecycleVars(Lapse)

FairLifecycleSpec == LifecycleSpec /\ Fairness

\* A wait whose call has been reconciled is woken, by either kernel and through a
\* lapsed lease, or the Run has left it otherwise.
ResolvedWaitIsWoken ==
    \A k \in Attempts :
        k \in resolved /\ blocker[k] # "none" /\ run.state = "waiting" ~>
            blocker[k] = "consumed" \/ run.state # "waiting"

\* A Run that is running, or was never started, is driven until it waits, ends or
\* is cancelled, whichever process dies or loses its lease on the way.
RunningIsDriven ==
    run.state \in {"created", "running"} ~> run.state \notin {"created", "running"}

\* A requested cancellation is carried out.
CancelIsCarriedOut == run.state = "cancel_requested" ~> run.state \in Terminal

=============================================================================
