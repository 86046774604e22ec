------------------------- MODULE RunLifecycleProofs -------------------------
(***************************************************************************)
(* The kernels, with their drive tasks, wakes, cancellations and restarts, *)
(* change the Run, the lease and the fence only as RunAuthority says; so   *)
(* what is proved of the authority protocol holds of every lifecycle.      *)
(***************************************************************************)
EXTENDS RunLifecycle, RunAuthorityProofs, TLAPS

\* The steps of one kernel as the authority protocol sees them.
AuthorityStepOf(o) == KernelStep(o) \/ Crash(o) \/ UNCHANGED authorityVars

\* Closing a Run is the terminal transaction, or its conflict.
LEMMA CloseRunStep ==
    ASSUME NEW o \in Owners, NEW s \in Terminal, NEW seen, CloseRun(o, s, seen)
    PROVE  AuthorityStepOf(o)
BY DEF CloseRun, AuthorityStepOf, KernelStep

\* Activations, whoever asks for one, are claims.
LEMMA ActivationStep ==
    ASSUME NEW o \in Owners,
           \/ Recover(o) \/ WakeTask(o) \/ DrainPendingWake(o) \/ CancelJoined(o)
           \/ \E k \in Attempts : DrainResolvedWait(o, k)
    PROVE  AuthorityStepOf(o)
<1>1. CASE Recover(o)
  BY <1>1 DEF Recover, ClaimFor, AuthorityStepOf, KernelStep
<1>2. ASSUME WakeContinuation(o) PROVE AuthorityStepOf(o)
  BY <1>2 DEF WakeContinuation, ClaimFor, AuthorityStepOf, KernelStep
<1>3. CASE WakeTask(o) \/ DrainPendingWake(o)
  BY <1>2, <1>3 DEF WakeTask, DrainPendingWake, AuthorityStepOf
<1>4. CASE CancelJoined(o)
  BY <1>4 DEF CancelJoined, ClaimFor, AuthorityStepOf, KernelStep
<1>5. CASE \E k \in Attempts : DrainResolvedWait(o, k)
  BY <1>5 DEF DrainResolvedWait, AuthorityStepOf, KernelStep
<1> QED BY <1>1, <1>3, <1>4, <1>5

\* The transactions of a section without suspension points.
LEMMA SectionAuthority ==
    ASSUME NEW o \in Owners, SectionStep(o)
    PROVE  AuthorityStepOf(o) \/ CommitDecisionOpen
<1>1. CASE Acquired(o) \/ AcquireRefused(o) \/ ReleaseLease(o) \/ StartupFails(o)
  BY <1>1 DEF Acquired, AcquireRefused, ReleaseLease, StartupFails, ProcessEnds, AuthorityStepOf, KernelStep
<1>2. CASE Dispatch(o)
  <2>1. "cancelled" \in Terminal
    BY DEF Terminal
  <2>2. CloseRun(o, "cancelled", goal[o].seen) => AuthorityStepOf(o)
    BY <2>1, CloseRunStep
  <2> QED BY <1>2, <2>2 DEF Dispatch, AuthorityStepOf
<1>3. CASE CommitDrive(o)
  <2>1. CASE CommitWaiting(o) \/ CommitUnknownWait(o)
    BY <2>1 DEF CommitWaiting, CommitUnknownWait, AuthorityStepOf, KernelStep
  <2>2. CASE CommitAuthorizationWait(o)
    BY <2>2 DEF CommitAuthorizationWait, AuthorityStepOf
  <2>3. CASE CommitTerminal(o)
    BY <2>3, CloseRunStep DEF CommitTerminal
  <2> QED BY <1>3, <2>1, <2>2, <2>3 DEF CommitDrive
<1>4. CASE EndDrive(o)
  BY <1>4 DEF EndDrive, AuthorityStepOf, KernelStep
<1> QED BY <1>1, <1>2, <1>3, <1>4 DEF SectionStep

\* Every step of the lifecycle is a step of the authority protocol or leaves its
\* variables alone.
LEMMA LifecycleStep == [LifecycleNext]_lifecycleVars => [Next]_authorityVars
<1> SUFFICES ASSUME [LifecycleNext]_lifecycleVars PROVE [Next]_authorityVars
  OBVIOUS
<1>a. ASSUME NEW o \in Owners, AuthorityStepOf(o) PROVE [Next]_authorityVars
  BY <1>a DEF AuthorityStepOf, Next
<1>b. CommitDecisionOpen => Next
  BY DEF Next
<1>1. ASSUME NEW o \in Owners, SectionStep(o) PROVE [Next]_authorityVars
  BY <1>1, <1>a, <1>b, SectionAuthority
<1>2. ASSUME NEW o \in Owners, DriverStep(o) \/ BeginDrive(o)
      PROVE  [Next]_authorityVars
  BY <1>2 DEF DriverStep, DriverCancelled, DriverReturns, BeginDrive
<1>3. ASSUME NEW o \in Owners,
             LoseLease(o) \/ Retire(o) \/ Renew(o) \/ CrashKernel(o)
      PROVE  [Next]_authorityVars
  <2>1. AuthorityStepOf(o)
    BY <1>3 DEF LoseLease, Retire, Renew, CrashKernel, ProcessEnds, AuthorityStepOf, KernelStep
  <2> QED BY <1>a, <2>1
<1>4. ASSUME NEW o \in Owners,
             \/ Recover(o) \/ WakeTask(o) \/ DrainPendingWake(o) \/ CancelJoined(o)
             \/ \E k \in Attempts : DrainResolvedWait(o, k)
      PROVE  [Next]_authorityVars
  BY <1>4, <1>a, ActivationStep
<1>5. ASSUME NEW o \in Owners, CancelRun(o) PROVE [Next]_authorityVars
  BY <1>5 DEF CancelRun, Next
<1>6. ASSUME NEW o \in Owners, NEW allow \in BOOLEAN, DecideAuthorization(o, allow)
      PROVE  [Next]_authorityVars
  BY <1>6 DEF DecideAuthorization, Next
<1>7. CASE Stall \/ LateActivation \/ Lapse
  BY <1>7 DEF Stall, LateActivation, Lapse, Next
<1>8. CASE \E k \in Attempts : Reconcile(k)
  BY <1>8 DEF Reconcile
<1>9. CASE UNCHANGED lifecycleVars
  BY <1>9 DEF lifecycleVars
<1> QED BY <1>1, <1>2, <1>3, <1>4, <1>5, <1>6, <1>7, <1>8, <1>9 DEF LifecycleNext

\* The lifecycle implements the authority protocol: no drive, wake, cancellation
\* or recovery of RuntimeKernel touches the Run, the lease or the fence otherwise.
THEOREM LifecycleImplementsAuthority == LifecycleSpec => Spec
<1>1. LifecycleInit => Init
  BY DEF LifecycleInit
<1> QED BY <1>1, LifecycleStep, PTL DEF LifecycleSpec, Spec

-----------------------------------------------------------------------------
(* The invariant of the lifecycle.                                         *)

TaskRows == [at : {"none", "ready", "driver", "doomed", "commit", "finally"},
             result : {"none", "cancelled"} \cup DriverResults,
             seen : 0..MaxVersion, attempt : 0..MaxAttempts, lease : Nat]
GoalRows == [kind : {"none", "startup", "recover", "wake", "drain", "cancel"},
             state : {"none"} \cup RunStates, seen : 0..MaxVersion]

\* The types of what a kernel's tasks remember.
LocalTypes ==
    /\ task \in [Owners -> TaskRows]
    /\ token \in [Owners -> {"none", "clear", "cancelled"}]
    /\ pending \in [Owners -> BOOLEAN]
    /\ waker \in [Owners -> {"none", "new", "waited"}]
    /\ canceller \in [Owners -> {"none", "joining"}]
    /\ goal \in [Owners -> GoalRows]
    /\ boot \in [Owners -> BOOLEAN]

\* The types of the durable records, with how much they can count.
DurableTypes ==
    /\ decision \in {"none", "open", "allowed", "denied", "cancelled"}
    /\ logged \in BOOLEAN
    /\ attempts \in 0..MaxAttempts
    /\ resolved \subseteq Attempts
    /\ blocker \in [Attempts -> {"none", "open", "resolved", "consumed"}]

BoundTypes == stalls \in 0..MaxStalls /\ late \in 0..MaxLate /\ crashes \in 0..MaxCrashes

\* The Run's version stays within the bound that SetRun keeps.
VersionBounded == run.version <= MaxVersion

\* The sections of one kernel.
SectionSound(o) ==
    /\ pc[o] \in {"acquire", "acquireWake"} => goal[o] # NoGoal
    /\ pc[o] = "acquireWake" => goal[o].kind = "drain"
    /\ pc[o] = "release" => goal[o] = NoGoal
    /\ task[o].at \in {"commit", "finally"} => pc[o] = "idle" /\ goal[o] = NoGoal
    /\ task[o].at = "commit" => task[o].result # "none"
    /\ task[o].at = "commit" /\ task[o].result = "unknown" => task[o].attempt # 0
    /\ goal[o].kind = "cancel" => canceller[o] = "joining"

\* The inductive invariant.
LifecycleIInv ==
    /\ TypeOK /\ VersionBounded /\ LocalTypes /\ DurableTypes /\ BoundTypes
    /\ NoLostResolution /\ CallsAccounted
    /\ \A o \in Owners : SectionSound(o)

\* It contains the invariant that is checked.
LEMMA LifecycleIInvMeaning == LifecycleIInv <=> LifecycleInv /\ VersionBounded
<1>1. LifecycleTypeOK <=> TypeOK /\ LocalTypes /\ DurableTypes /\ BoundTypes
  BY DEF LifecycleTypeOK, LocalTypes, DurableTypes, BoundTypes, TaskRows, GoalRows
<1>2. SectionsSound <=> \A o \in Owners : SectionSound(o)
  BY DEF SectionsSound, SectionSound
<1> QED BY <1>1, <1>2 DEF LifecycleIInv, LifecycleInv

\* The first state.
LEMMA LifecycleIInvInit == LifecycleInit => LifecycleIInv
<1> SUFFICES ASSUME LifecycleInit PROVE LifecycleIInv
  OBVIOUS
<1> USE LifecycleConstants, AuthorityConstants
<1>1. TypeOK
  BY AuthorityInit DEF LifecycleInit, AuthorityInv
<1>2. VersionBounded
  BY DEF LifecycleInit, Init, VersionBounded
<1>3. NoTask \in TaskRows /\ NoGoal \in GoalRows
  BY DEF NoTask, NoGoal, TaskRows, GoalRows
<1>4. LocalTypes
  BY <1>3 DEF LifecycleInit, LocalTypes
<1>5. DurableTypes /\ BoundTypes
  <2>1. logged \in BOOLEAN
    BY Zenon DEF LifecycleInit
  <2>2. decision \in {"none", "open", "allowed", "denied", "cancelled"} /\ resolved \subseteq Attempts
    BY DEF LifecycleInit
  <2>3. blocker \in [Attempts -> {"none", "open", "resolved", "consumed"}]
    BY DEF LifecycleInit
  <2>4. attempts \in 0..MaxAttempts /\ stalls \in 0..MaxStalls /\ late \in 0..MaxLate
        /\ crashes \in 0..MaxCrashes
    BY DEF LifecycleInit
  <2> QED BY <2>1, <2>2, <2>3, <2>4 DEF DurableTypes, BoundTypes
<1>6. NoLostResolution /\ CallsAccounted
  BY DEF LifecycleInit, NoLostResolution, CallsAccounted, NoTask
<1>7. \A o \in Owners : SectionSound(o)
  BY DEF LifecycleInit, Init, SectionSound, NoTask, NoGoal
<1> QED BY <1>1, <1>2, <1>4, <1>5, <1>6, <1>7 DEF LifecycleIInv

\* The version counts up to its bound.
LEMMA VersionStep ==
    ASSUME TypeOK, VersionBounded, [Next]_authorityVars
    PROVE  VersionBounded'
<1>0. run.version \in Nat /\ MaxVersion \in Nat
  BY AuthorityConstants DEF TypeOK
<1>1. run' = run \/ \E s : SetRun(s)
  BY DEF Next, KernelStep, ClaimRuntimeActivation, ConsumeResolvedWait, AcquireFence, AcquireConflict,
         RenewLease, HeartbeatLost, RetireDone, AbandonRunAuthority, BeginRelease,
         ReleaseRuntimeLease, CommitRootTerminal, CommitRuntimeState, Crash, Tick, RequestRunCancel,
         CommitDecisionOpen, CommitDecisionResolved, authorityVars
<1> QED BY <1>0, <1>1 DEF SetRun, VersionBounded

\* What a step of o may do to its own tasks: the types are kept, the other kernels
\* are left alone, and its sections stay sound.
LocalStep(o) ==
    /\ LocalTypes'
    /\ \A p \in Owners \ {o} : /\ pc'[p] = pc[p] /\ goal'[p] = goal[p]
                               /\ task'[p] = task[p] /\ canceller'[p] = canceller[p]
    /\ SectionSound(o)'

LEMMA LocalStepSound ==
    ASSUME \A p \in Owners : SectionSound(p), NEW o \in Owners, LocalStep(o)
    PROVE  LocalTypes' /\ \A p \in Owners : SectionSound(p)'
BY DEF LocalStep, SectionSound

\* Goals that are set with the state of the Run as it is.
LEMMA GoalOf ==
    ASSUME TypeOK', VersionBounded', NEW kind \in {"startup", "recover", "wake", "drain", "cancel"}
    PROVE  /\ [kind |-> kind, state |-> run'.state, seen |-> run'.version] \in GoalRows
           /\ [kind |-> kind, state |-> run'.state, seen |-> run'.version] # NoGoal
<1>1. run'.state \in RunStates /\ run'.version \in 0..MaxVersion
  BY AuthorityConstants DEF TypeOK, VersionBounded
<1> QED BY <1>1 DEF GoalRows, NoGoal

\* What every lemma about a step begins from.
Before ==
    /\ LifecycleIInv
    /\ TypeOK' /\ VersionBounded'

\* The rows that the tasks are set to.
LEMMA TaskRowFacts ==
    /\ NoTask \in TaskRows /\ NoGoal \in GoalRows
    /\ NoTask.at = "none" /\ NoGoal.kind = "none"
    /\ [NoTask EXCEPT !.at = "ready"] \in TaskRows
    /\ [NoTask EXCEPT !.at = "ready"].at = "ready"
BY LifecycleConstants, AuthorityConstants DEF NoTask, NoGoal, TaskRows, GoalRows

\* _schedule starts a drive only where there is none.
LEMMA ScheduleStep ==
    ASSUME LocalTypes, NEW o \in Owners, NEW s, NEW hold \in BOOLEAN, Schedule(o, s, hold)
    PROVE  /\ task' \in [Owners -> TaskRows] /\ pending' \in [Owners -> BOOLEAN]
           /\ \A p \in Owners \ {o} : task'[p] = task[p]
           /\ task'[o] = task[o] \/ task'[o].at = "ready"
<1>1. pending' \in [Owners -> BOOLEAN]
  <2>1. pending' = [pending EXCEPT ![o] = FALSE] \/ pending' = [pending EXCEPT ![o] = TRUE]
    BY DEF Schedule
  <2> QED BY <2>1, Zenon DEF LocalTypes
<1>2. \/ task' = task
      \/ task' = [task EXCEPT ![o] = IF @.at = "none" THEN [NoTask EXCEPT !.at = "ready"] ELSE @]
  BY DEF Schedule
<1>3. task \in [Owners -> TaskRows]
  BY DEF LocalTypes
<1> QED BY <1>1, <1>2, <1>3, TaskRowFacts

\* A task that is cancelled is as it was or gone.
LEMMA CancelTaskStep ==
    ASSUME LocalTypes, NEW o \in Owners, CancelTask(o)
    PROVE  /\ task' \in [Owners -> TaskRows] /\ token' \in [Owners -> {"none", "clear", "cancelled"}]
           /\ \A p \in Owners \ {o} : task'[p] = task[p]
           /\ task'[o] = task[o] \/ task'[o].at = "none"
<1>1. task \in [Owners -> TaskRows] /\ token \in [Owners -> {"none", "clear", "cancelled"}]
  BY DEF LocalTypes
<1>2. token' \in [Owners -> {"none", "clear", "cancelled"}]
  BY <1>1 DEF CancelTask
<1>3. task' = [task EXCEPT ![o] = IF @.at = "ready" THEN NoTask ELSE @]
  BY DEF CancelTask
<1> QED BY <1>1, <1>2, <1>3, TaskRowFacts

\* The claim of an activation opens a section.
LEMMA ClaimForStep ==
    ASSUME Before, NEW o \in Owners, NEW kind \in {"startup", "recover", "wake", "cancel"}, ClaimFor(o, kind)
    PROVE  /\ goal' \in [Owners -> GoalRows] /\ goal'[o] # NoGoal /\ goal'[o].kind = kind
           /\ pc[o] = "idle" /\ pc'[o] = "acquire"
           /\ \A p \in Owners \ {o} : pc'[p] = pc[p] /\ goal'[p] = goal[p]
<1>1. goal' = [goal EXCEPT ![o] = [kind |-> kind, state |-> run'.state, seen |-> run'.version]]
  BY DEF ClaimFor
<1>2. pc[o] = "idle" /\ pc' = [pc EXCEPT ![o] = "acquire"]
  BY DEF ClaimFor, ClaimRuntimeActivation
<1>3. goal \in [Owners -> GoalRows] /\ pc \in [Owners -> {"idle", "acquire", "acquireWake", "release"}]
  BY DEF Before, LifecycleIInv, LocalTypes, TypeOK
<1>4. [kind |-> kind, state |-> run'.state, seen |-> run'.version] \in GoalRows \ {NoGoal}
  BY GoalOf DEF Before
<1>5. \A p \in Owners \ {o} : pc'[p] = pc[p] /\ goal'[p] = goal[p]
  BY <1>1, <1>2, <1>3
<1>6. pc'[o] = "acquire" /\ goal'[o] = [kind |-> kind, state |-> run'.state, seen |-> run'.version]
  BY <1>1, <1>2, <1>3
<1>7. goal' \in [Owners -> GoalRows]
  BY <1>1, <1>3, <1>4
<1> QED BY <1>2, <1>4, <1>5, <1>6, <1>7

\* recover.
LEMMA RecoverStep ==
    ASSUME Before, NEW o \in Owners, Recover(o)
    PROVE  LocalStep(o)
<1>t. LocalTypes /\ SectionSound(o)
  BY DEF Before, LifecycleIInv
<1>f. Free(o) /\ task' = task /\ UNCHANGED <<token, waker, canceller>>
      /\ boot' = [boot EXCEPT ![o] = FALSE]
  BY DEF Recover
<1>b. boot' \in [Owners -> BOOLEAN]
  BY <1>f, <1>t, Zenon DEF LocalTypes
<1>1. ASSUME NEW kind \in {"startup", "recover"}, ClaimFor(o, kind), UNCHANGED pending
      PROVE  LocalStep(o)
  <2>1. LocalTypes'
    BY <1>1, <1>b, <1>f, <1>t, ClaimForStep DEF LocalTypes
  <2>2. SectionSound(o)'
    BY <1>1, <1>f, <1>t, ClaimForStep DEF SectionSound, Free
  <2> QED BY <1>1, <1>f, <2>1, <2>2, ClaimForStep DEF LocalStep
<1>2. CASE pending' = [pending EXCEPT ![o] = TRUE] /\ UNCHANGED <<authorityVars, goal>>
  <2>0. pending' \in [Owners -> BOOLEAN]
    BY <1>2, <1>t, Zenon DEF LocalTypes
  <2> QED BY <1>2, <1>b, <1>f, <1>t, <2>0 DEF LocalTypes, LocalStep, SectionSound, authorityVars
<1>3. CASE UNCHANGED <<authorityVars, goal, pending>>
  BY <1>3, <1>b, <1>f, <1>t DEF LocalTypes, LocalStep, SectionSound, authorityVars
<1> QED BY <1>1, <1>2, <1>3 DEF Recover

\* _wake_continuation.
LEMMA WakeContinuationStep ==
    ASSUME Before, NEW o \in Owners, Free(o), WakeContinuation(o),
           UNCHANGED <<token, canceller, boot>>
    PROVE  LocalStep(o)
<1>t. LocalTypes /\ SectionSound(o)
  BY DEF Before, LifecycleIInv
<1>w. waker' \in [Owners -> {"none", "new", "waited"}]
  BY <1>t DEF WakeContinuation, LocalTypes
<1>p. ASSUME pending' = [pending EXCEPT ![o] = TRUE] \/ pending' = [pending EXCEPT ![o] = FALSE]
      PROVE  pending' \in [Owners -> BOOLEAN]
  BY <1>p, <1>t, Zenon DEF LocalTypes
<1>1. CASE ClaimFor(o, "wake") /\ UNCHANGED <<pending, task>>
  <2>1. LocalTypes'
    BY <1>1, <1>w, <1>t, ClaimForStep DEF LocalTypes
  <2>2. SectionSound(o)'
    BY <1>1, <1>t, ClaimForStep DEF SectionSound, Free
  <2> QED BY <1>1, <2>1, <2>2, ClaimForStep DEF LocalStep
<1>2. CASE /\ pending' = [pending EXCEPT ![o] = TRUE] \/ pending' = [pending EXCEPT ![o] = FALSE]
           /\ UNCHANGED <<authorityVars, goal, task>>
  BY <1>2, <1>p, <1>w, <1>t DEF LocalTypes, LocalStep, SectionSound, authorityVars
<1>3. CASE Schedule(o, run.state, TRUE) /\ UNCHANGED <<authorityVars, goal>>
  <2>1. LocalTypes'
    BY <1>3, <1>w, <1>t, ScheduleStep DEF LocalTypes
  <2>2. SectionSound(o)'
    BY <1>3, <1>t, ScheduleStep DEF SectionSound, Free, authorityVars
  <2> QED BY <1>3, <1>t, <2>1, <2>2, ScheduleStep DEF LocalStep, authorityVars
<1> QED BY <1>1, <1>2, <1>3 DEF WakeContinuation

\* The wakes.
LEMMA WakeStep ==
    ASSUME Before, NEW o \in Owners, WakeTask(o) \/ DrainPendingWake(o)
    PROVE  LocalStep(o)
<1>t. LocalTypes /\ SectionSound(o)
  BY DEF Before, LifecycleIInv
<1>f. Free(o) /\ UNCHANGED <<token, canceller, boot>>
  BY DEF WakeTask, DrainPendingWake
<1>1. CASE WakeContinuation(o)
  BY <1>1, <1>f, WakeContinuationStep
<1>2. CASE /\ UNCHANGED <<authorityVars, goal, pending, task>>
           /\ waker' = [waker EXCEPT ![o] =
                         IF \E k \in Attempts : blocker[k] = "open" THEN "none" ELSE "new"]
  <2>1. waker' \in [Owners -> {"none", "new", "waited"}]
    BY <1>2, <1>t DEF LocalTypes
  <2> QED BY <1>2, <1>f, <1>t, <2>1 DEF LocalTypes, LocalStep, SectionSound, authorityVars
<1>3. CASE /\ UNCHANGED <<authorityVars, waker, goal, task>>
           /\ pending' = [pending EXCEPT ![o] = FALSE]
  <2>1. pending' \in [Owners -> BOOLEAN]
    BY <1>3, <1>t, Zenon DEF LocalTypes
  <2> QED BY <1>3, <1>f, <1>t, <2>1 DEF LocalTypes, LocalStep, SectionSound, authorityVars
<1> QED BY <1>1, <1>2, <1>3 DEF WakeTask, DrainPendingWake

\* The drain of a resolved wait.
LEMMA DrainStep ==
    ASSUME Before, NEW o \in Owners, NEW k \in Attempts, DrainResolvedWait(o, k)
    PROVE  LocalStep(o)
<1>t. LocalTypes /\ SectionSound(o)
  BY DEF Before, LifecycleIInv
<1>1. /\ Free(o) /\ UNCHANGED <<task, token, pending, waker, canceller, boot>>
      /\ goal' = [goal EXCEPT ![o] = [kind |-> "drain", state |-> run'.state, seen |-> run'.version]]
      /\ pc' = [pc EXCEPT ![o] = "acquireWake"]
  BY DEF DrainResolvedWait, ConsumeResolvedWait
<1>2. [kind |-> "drain", state |-> run'.state, seen |-> run'.version] \in GoalRows \ {NoGoal}
  BY GoalOf DEF Before
<1>3. pc \in [Owners -> {"idle", "acquire", "acquireWake", "release"}] /\ goal \in [Owners -> GoalRows]
  BY DEF Before, LifecycleIInv, TypeOK, LocalTypes
<1>4. goal' \in [Owners -> GoalRows] /\ goal'[o] # NoGoal /\ goal'[o].kind = "drain"
  BY <1>1, <1>2, <1>3
<1>5. pc'[o] = "acquireWake" /\ \A p \in Owners \ {o} : pc'[p] = pc[p] /\ goal'[p] = goal[p]
  BY <1>1, <1>3
<1>6. LocalTypes'
  BY <1>1, <1>4, <1>t DEF LocalTypes
<1>7. SectionSound(o)'
  BY <1>1, <1>4, <1>5, <1>t DEF SectionSound, Free
<1> QED BY <1>1, <1>5, <1>6, <1>7 DEF LocalStep

\* The end of an activation.
LEMMA AcquiredStep ==
    ASSUME Before, NEW o \in Owners, Acquired(o) \/ AcquireRefused(o)
    PROVE  LocalStep(o)
<1>t. LocalTypes /\ SectionSound(o)
  BY DEF Before, LifecycleIInv
<1>p. pc \in [Owners -> {"idle", "acquire", "acquireWake", "release"}]
  BY DEF Before, LifecycleIInv, TypeOK
<1>q. pc[o] \in {"acquire", "acquireWake"} /\ pc' = [pc EXCEPT ![o] = "idle"]
  BY DEF Acquired, AcquireRefused, AcquireFence, AcquireConflict
<1>r. pc'[o] = "idle" /\ \A p \in Owners \ {o} : pc'[p] = pc[p]
  BY <1>p, <1>q
<1>n. task[o].at \notin {"commit", "finally"}
  BY <1>q, <1>t DEF SectionSound
<1>1. CASE Acquired(o)
  <2>1. token' \in [Owners -> {"none", "clear", "cancelled"}]
    BY <1>1, <1>t DEF Acquired, LocalTypes
  <2>2. UNCHANGED <<task, pending, waker, canceller, goal, boot>>
    BY <1>1 DEF Acquired
  <2> QED BY <1>n, <1>r, <1>t, <2>1, <2>2 DEF LocalTypes, LocalStep, SectionSound
<1>2. CASE AcquireRefused(o)
  <2>1. goal' = [goal EXCEPT ![o] = NoGoal] /\ UNCHANGED <<task, token, waker, boot>>
    BY <1>2 DEF AcquireRefused
  <2>2. pending' \in [Owners -> BOOLEAN]
    <3>1. pending' = [pending EXCEPT ![o] = @ \/ goal[o].kind \in {"startup", "recover", "wake"}]
      BY <1>2 DEF AcquireRefused
    <3> QED BY <1>t, <3>1, Zenon DEF LocalTypes
  <2>3. canceller' \in [Owners -> {"none", "joining"}] /\ \A p \in Owners \ {o} : canceller'[p] = canceller[p]
    BY <1>2, <1>t DEF AcquireRefused, LocalTypes
  <2>4. goal' \in [Owners -> GoalRows] /\ goal'[o] = NoGoal
        /\ \A p \in Owners \ {o} : goal'[p] = goal[p]
    BY <1>t, <2>1, TaskRowFacts DEF LocalTypes
  <2>5. LocalTypes'
    BY <1>t, <2>1, <2>2, <2>3, <2>4 DEF LocalTypes
  <2>6. SectionSound(o)'
    BY <1>n, <1>r, <2>1, <2>4, TaskRowFacts DEF SectionSound
  <2> QED BY <1>r, <2>1, <2>3, <2>4, <2>5, <2>6 DEF LocalStep
<1> QED BY <1>1, <1>2

\* Closing the Run leaves the kernel where it is.
LEMMA CloseRunKeeps ==
    ASSUME NEW o, NEW s, NEW seen, CloseRun(o, s, seen)
    PROVE  pc' = pc
BY DEF CloseRun, CommitRootTerminal, kernelVars, authorityVars

\* What is done with an activation.
LEMMA DispatchStep ==
    ASSUME Before, NEW o \in Owners, Dispatch(o)
    PROVE  LocalStep(o)
<1>t. LocalTypes /\ SectionSound(o)
  BY DEF Before, LifecycleIInv
<1>1. /\ pc[o] = "idle" /\ goal[o] # NoGoal /\ goal' = [goal EXCEPT ![o] = NoGoal]
      /\ UNCHANGED <<token, boot>>
  BY DEF Dispatch
<1>2. goal' \in [Owners -> GoalRows] /\ goal'[o] = NoGoal
      /\ \A p \in Owners \ {o} : goal'[p] = goal[p]
  BY <1>t, <1>1, TaskRowFacts DEF LocalTypes
<1>n. task[o].at \notin {"commit", "finally"}
  BY <1>1, <1>t DEF SectionSound
<1>3. CASE /\ CloseRun(o, "cancelled", goal[o].seen)
           /\ canceller' = [canceller EXCEPT ![o] = IF goal[o].kind = "cancel" THEN "none" ELSE @]
           /\ UNCHANGED <<task, pending, waker>>
  <2>1. pc' = pc
    BY <1>3, CloseRunKeeps
  <2>2. canceller' \in [Owners -> {"none", "joining"}] /\ \A p \in Owners \ {o} : canceller'[p] = canceller[p]
    BY <1>3, <1>t DEF LocalTypes
  <2>3. LocalTypes'
    BY <1>1, <1>2, <1>3, <1>t, <2>2 DEF LocalTypes
  <2>4. SectionSound(o)'
    BY <1>1, <1>2, <1>3, <1>n, <2>1, TaskRowFacts DEF SectionSound
  <2> QED BY <1>2, <1>3, <2>1, <2>2, <2>3, <2>4 DEF LocalStep
<1>4. CASE /\ IF goal[o].kind = "wake" /\ Active(o)
              THEN /\ waker' = [waker EXCEPT ![o] = "waited"]
                   /\ pending' = [pending EXCEPT ![o] = FALSE]
                   /\ UNCHANGED task
              ELSE /\ Schedule(o, run.state, heldLease[o] # 0)
                   /\ UNCHANGED waker
           /\ UNCHANGED <<authorityVars, canceller>>
  <2>0. pc' = pc /\ canceller' = canceller
    BY <1>4 DEF authorityVars
  <2>1. waker' \in [Owners -> {"none", "new", "waited"}]
    BY <1>4, <1>t DEF LocalTypes
  <2>2. /\ task' \in [Owners -> TaskRows] /\ pending' \in [Owners -> BOOLEAN]
        /\ \A p \in Owners \ {o} : task'[p] = task[p]
        /\ task'[o] = task[o] \/ task'[o].at = "ready"
    <3>1. CASE goal[o].kind = "wake" /\ Active(o)
      <4>1. pending' = [pending EXCEPT ![o] = FALSE] /\ task' = task
        BY <1>4, <3>1
      <4>2. pending' \in [Owners -> BOOLEAN]
        BY <1>t, <4>1, Zenon DEF LocalTypes
      <4> QED BY <1>t, <4>1, <4>2 DEF LocalTypes
    <3>2. CASE ~(goal[o].kind = "wake" /\ Active(o))
      <4>1. Schedule(o, run.state, heldLease[o] # 0)
        BY <1>4, <3>2
      <4>2. (heldLease[o] # 0) \in BOOLEAN
        OBVIOUS
      <4> QED BY <1>t, <4>1, <4>2, ScheduleStep
    <3> QED BY <3>1, <3>2
  <2>3. LocalTypes'
    BY <1>1, <1>2, <1>t, <2>0, <2>1, <2>2 DEF LocalTypes
  <2>4. SectionSound(o)'
    BY <1>1, <1>2, <1>n, <2>0, <2>2, TaskRowFacts DEF SectionSound
  <2> QED BY <1>2, <2>0, <2>2, <2>3, <2>4 DEF LocalStep
<1> QED BY <1>3, <1>4 DEF Dispatch

\* A step that only moves the drive task of o, outside of any other section.
LEMMA TaskMoves ==
    ASSUME Before, NEW o \in Owners, NEW t \in TaskRows, task' = [task EXCEPT ![o] = t],
           pc' = pc, pc[o] = "idle", goal[o] = NoGoal,
           UNCHANGED <<token, pending, waker, canceller, goal, boot>>,
           t.at = "commit" => t.result # "none" /\ (t.result = "unknown" => t.attempt # 0)
    PROVE  LocalStep(o)
<1>t. LocalTypes /\ SectionSound(o)
  BY DEF Before, LifecycleIInv
<1>1. task' \in [Owners -> TaskRows] /\ task'[o] = t /\ \A p \in Owners \ {o} : task'[p] = task[p]
  BY <1>t DEF LocalTypes
<1>2. LocalTypes'
  BY <1>1, <1>t DEF LocalTypes
<1>3. SectionSound(o)'
  BY <1>1, <1>t, TaskRowFacts DEF SectionSound
<1> QED BY <1>1, <1>2, <1>3 DEF LocalStep

\* The drive task when the driver has returned r, for call k.
Returned(o, r, k) ==
    [at |-> IF ReturnAccepted(o, r) THEN "commit" ELSE "finally", result |-> r,
     seen |-> run.version, attempt |-> IF r = "unknown" THEN k ELSE 0, lease |-> task[o].lease]

LEMMA ReturnedRow ==
    ASSUME NEW o, task[o] \in TaskRows, NEW r \in DriverResults, run.version \in 0..MaxVersion,
           NEW k, (IF r = "unknown" THEN k ELSE 0) \in 0..MaxAttempts
    PROVE  /\ Returned(o, r, k) \in TaskRows
           /\ Returned(o, r, k).at = IF ReturnAccepted(o, r) THEN "commit" ELSE "finally"
           /\ Returned(o, r, k).result = r
           /\ Returned(o, r, k).attempt = IF r = "unknown" THEN k ELSE 0
           /\ Returned(o, r, k).lease = task[o].lease
<1>1. task[o].lease \in Nat
  BY DEF TaskRows
<1>2. (IF ReturnAccepted(o, r) THEN "commit" ELSE "finally") \in {"commit", "finally"}
  OBVIOUS
<1> QED BY <1>1, <1>2 DEF Returned, TaskRows

\* The drive task up to its commit.
LEMMA DriveTaskStep ==
    ASSUME Before, NEW o \in Owners,
           BeginDrive(o) \/ DriverCancelled(o) \/ \E r \in DriverResults : DriverReturns(o, r)
    PROVE  LocalStep(o)
<1>t. /\ LocalTypes /\ SectionSound(o) /\ task[o] \in TaskRows /\ attempts \in 0..MaxAttempts
      /\ run.version \in 0..MaxVersion
  BY AuthorityConstants
     DEF Before, LifecycleIInv, LocalTypes, DurableTypes, TypeOK, VersionBounded
<1>f. pc' = pc /\ pc[o] = "idle" /\ goal[o] = NoGoal
      /\ UNCHANGED <<token, pending, waker, canceller, goal, boot>>
  BY DEF BeginDrive, DriverCancelled, DriverReturns, Free, authorityVars
<1> DEFINE Cancelled == [task[o] EXCEPT !.at = "commit", !.result = "cancelled", !.seen = run.version]
           Over == [task[o] EXCEPT !.at = "finally"]
<1>a. Cancelled \in TaskRows /\ Cancelled.result = "cancelled"
  BY <1>t DEF TaskRows
<1>b. Over \in TaskRows /\ Over.at = "finally"
  BY <1>t DEF TaskRows
<1>1. CASE BeginDrive(o)
  <2> DEFINE Begun == [task[o] EXCEPT !.at = IF token[o] = "cancelled" THEN "doomed" ELSE "driver",
                                      !.attempt = IF LatestUnresolved THEN attempts ELSE 0,
                                      !.lease = heldLease[o]]
             Next_ == IF run.state \in Terminal THEN NoTask
                      ELSE IF ~RequireRuntimeLease(o, heldLease[o]) THEN Over
                      ELSE IF run.state = "cancel_requested" THEN Cancelled
                      ELSE IF run.state = "waiting" \/ heldFence[o] = NoFence
                      THEN Over ELSE Begun
  <2>1. task' = [task EXCEPT ![o] = Next_]
    BY <1>1 DEF BeginDrive
  <2>2. Begun \in TaskRows /\ Begun.at \in {"doomed", "driver"}
    <3>1. \A a \in {"doomed", "driver"}, k \in 0..MaxAttempts, e \in Nat :
              [task[o] EXCEPT !.at = a, !.attempt = k, !.lease = e] \in TaskRows
      BY <1>t DEF TaskRows
    <3>2. (IF LatestUnresolved THEN attempts ELSE 0) \in 0..MaxAttempts
      BY <1>t, LifecycleConstants
    <3>3. (IF token[o] = "cancelled" THEN "doomed" ELSE "driver") \in {"doomed", "driver"}
      OBVIOUS
    <3>4. heldLease[o] \in Nat
      BY DEF Before, LifecycleIInv, TypeOK
    <3>5. Begun \in TaskRows
      BY <3>1, <3>2, <3>3, <3>4
    <3>6. Begun.at \in {"doomed", "driver"}
      BY <1>t DEF TaskRows
    <3> QED BY <3>5, <3>6
  <2> HIDE DEF Begun, Cancelled, Over
  <2>3. Next_ \in {NoTask, Cancelled, Over, Begun}
    BY DEF Terminal
  <2> HIDE DEF Next_
  <2>4. Next_ \in TaskRows
        /\ (Next_.at = "commit" => Next_.result # "none" /\ (Next_.result = "unknown" => Next_.attempt # 0))
    BY <1>a, <1>b, <2>2, <2>3, TaskRowFacts
  <2> QED BY <1>f, <2>1, <2>4, TaskMoves
<1>2. CASE DriverCancelled(o)
  <2> DEFINE Next_ == IF run.state = "cancel_requested" THEN Cancelled ELSE Over
  <2>1. task' = [task EXCEPT ![o] = Next_]
    BY <1>2 DEF DriverCancelled
  <2> HIDE DEF Cancelled, Over
  <2>2. Next_ \in TaskRows
        /\ (Next_.at = "commit" => Next_.result # "none" /\ (Next_.result = "unknown" => Next_.attempt # 0))
    BY <1>a, <1>b
  <2> QED BY <1>f, <2>1, <2>2, TaskMoves
<1>3. ASSUME NEW r \in DriverResults, DriverReturns(o, r) PROVE LocalStep(o)
  <2>1. PICK k : /\ r = "unknown" => k \in Attempts
                 /\ task' = [task EXCEPT ![o] = Returned(o, r, k)]
    BY <1>3 DEF DriverReturns, Returned
  <2>2. (IF r = "unknown" THEN k ELSE 0) \in 0..MaxAttempts
    BY <2>1, LifecycleConstants DEF Attempts
  <2>3. Returned(o, r, k) \in TaskRows /\ Returned(o, r, k).result = r
        /\ Returned(o, r, k).attempt = IF r = "unknown" THEN k ELSE 0
    BY <1>t, <2>2, ReturnedRow
  <2>4. r # "none" /\ (r = "unknown" => k # 0)
    BY <2>1, LifecycleConstants DEF Attempts
  <2> QED BY <1>f, <2>1, <2>3, <2>4, TaskMoves
<1> QED BY <1>1, <1>2, <1>3

\* The commit and the end of a drive.
LEMMA CommitStep ==
    ASSUME Before, NEW o \in Owners, CommitDrive(o)
    PROVE  LocalStep(o)
<1>t. LocalTypes /\ SectionSound(o) /\ task[o] \in TaskRows
  BY DEF Before, LifecycleIInv, LocalTypes
<1>1. /\ pc[o] = "idle" /\ task[o].at = "commit" /\ task' = [task EXCEPT ![o].at = "finally"]
      /\ UNCHANGED <<token, pending, waker, canceller, goal, boot>>
  BY DEF CommitDrive
<1>2. goal[o] = NoGoal
  BY <1>1, <1>t DEF SectionSound
<1>3. pc' = pc
  <2>1. ASSUME CommitTerminal(o) PROVE pc' = pc
    BY <2>1, CloseRunKeeps DEF CommitTerminal
  <2>2. ASSUME CommitWaiting(o) \/ CommitUnknownWait(o) \/ CommitAuthorizationWait(o)
        PROVE  pc' = pc
    BY <2>2 DEF CommitWaiting, CommitUnknownWait, CommitAuthorizationWait, CommitRuntimeState,
       CommitDecisionOpen, kernelVars, authorityVars
  <2> QED BY <2>1, <2>2 DEF CommitDrive
<1> DEFINE t == [task[o] EXCEPT !.at = "finally"]
<1>4. t \in TaskRows /\ t.at = "finally" /\ task' = [task EXCEPT ![o] = t]
  BY <1>1, <1>t DEF TaskRows
<1> HIDE DEF t
<1> QED BY <1>1, <1>2, <1>3, <1>4, TaskMoves

LEMMA EndDriveStep ==
    ASSUME Before, NEW o \in Owners, EndDrive(o)
    PROVE  LocalStep(o)
<1>t. /\ LocalTypes /\ SectionSound(o)
      /\ pc \in [Owners -> {"idle", "acquire", "acquireWake", "release"}]
  BY DEF Before, LifecycleIInv, LocalTypes, TypeOK
<1>1. /\ pc[o] = "idle" /\ task[o].at = "finally" /\ task' = [task EXCEPT ![o] = NoTask]
      /\ UNCHANGED <<token, pending, waker, canceller, goal, boot>>
      /\ pc' = pc \/ pc' = [pc EXCEPT ![o] = "release"]
  BY DEF EndDrive, BeginRelease, authorityVars
<1>2. goal[o] = NoGoal
  BY <1>1, <1>t DEF SectionSound
<1>3. task' \in [Owners -> TaskRows] /\ task'[o] = NoTask /\ \A p \in Owners \ {o} : task'[p] = task[p]
  BY <1>1, <1>t, TaskRowFacts DEF LocalTypes
<1>4. pc'[o] \in {"idle", "release"} /\ \A p \in Owners \ {o} : pc'[p] = pc[p]
  BY <1>1, <1>t
<1>5. LocalTypes'
  BY <1>1, <1>3, <1>t DEF LocalTypes
<1>6. SectionSound(o)'
  BY <1>1, <1>2, <1>3, <1>4, TaskRowFacts DEF SectionSound
<1> QED BY <1>1, <1>3, <1>4, <1>5, <1>6 DEF LocalStep

\* The lease is released, or its holder dies.
LEMMA ReleaseStep ==
    ASSUME Before, NEW o \in Owners, ReleaseLease(o)
    PROVE  LocalStep(o)
<1>t. /\ LocalTypes /\ SectionSound(o)
      /\ pc \in [Owners -> {"idle", "acquire", "acquireWake", "release"}]
  BY DEF Before, LifecycleIInv, LocalTypes, TypeOK
<1>1. /\ pc[o] = "release" /\ pc' = [pc EXCEPT ![o] = "idle"] /\ token' = [token EXCEPT ![o] = "none"]
      /\ UNCHANGED <<task, pending, waker, canceller, goal, boot>>
  BY DEF ReleaseLease, ReleaseRuntimeLease
<1>2. LocalTypes'
  BY <1>1, <1>t DEF LocalTypes
<1>3. pc'[o] = "idle" /\ \A p \in Owners \ {o} : pc'[p] = pc[p]
  BY <1>1, <1>t
<1>4. SectionSound(o)'
  BY <1>1, <1>3, <1>t DEF SectionSound
<1> QED BY <1>1, <1>2, <1>3, <1>4 DEF LocalStep

LEMMA CrashStep ==
    ASSUME Before, NEW o \in Owners, CrashKernel(o) \/ StartupFails(o)
    PROVE  LocalStep(o)
<1>t. /\ LocalTypes /\ pc \in [Owners -> {"idle", "acquire", "acquireWake", "release"}]
  BY DEF Before, LifecycleIInv, LocalTypes, TypeOK
<1>1. /\ pc' = [pc EXCEPT ![o] = "idle"] /\ task' = [task EXCEPT ![o] = NoTask]
      /\ token' = [token EXCEPT ![o] = "none"] /\ pending' = [pending EXCEPT ![o] = FALSE]
      /\ waker' = [waker EXCEPT ![o] = "none"] /\ canceller' = [canceller EXCEPT ![o] = "none"]
      /\ goal' = [goal EXCEPT ![o] = NoGoal] /\ boot' = [boot EXCEPT ![o] = TRUE]
  BY DEF CrashKernel, StartupFails, ProcessEnds, Crash
<1>2. pending' \in [Owners -> BOOLEAN] /\ boot' \in [Owners -> BOOLEAN]
  BY <1>1, <1>t, Zenon DEF LocalTypes
<1>3. /\ task' \in [Owners -> TaskRows] /\ goal' \in [Owners -> GoalRows]
      /\ task'[o] = NoTask /\ goal'[o] = NoGoal
      /\ \A p \in Owners \ {o} : task'[p] = task[p] /\ goal'[p] = goal[p]
  BY <1>1, <1>t, TaskRowFacts DEF LocalTypes
<1>4. /\ pc'[o] = "idle"
      /\ \A p \in Owners \ {o} : pc'[p] = pc[p] /\ canceller'[p] = canceller[p]
  BY <1>1, <1>t DEF LocalTypes
<1>5. LocalTypes'
  BY <1>1, <1>2, <1>3, <1>t DEF LocalTypes
<1>6. SectionSound(o)'
  BY <1>3, <1>4, TaskRowFacts DEF SectionSound
<1> QED BY <1>3, <1>4, <1>5, <1>6 DEF LocalStep

\* Heartbeats.
LEMMA HeartbeatStep ==
    ASSUME Before, NEW o \in Owners, Renew(o) \/ LoseLease(o) \/ Retire(o)
    PROVE  LocalStep(o)
<1>t. LocalTypes /\ SectionSound(o)
  BY DEF Before, LifecycleIInv
<1>f. Free(o) /\ pc' = pc /\ UNCHANGED <<waker, canceller, goal, boot>>
  BY DEF Renew, LoseLease, Retire, RenewLease, HeartbeatLost, RetireDone, localVars
<1>1. CASE Renew(o)
  <2>1. UNCHANGED <<task, token, pending>>
    BY <1>1 DEF Renew, localVars
  <2> QED BY <1>f, <1>t, <2>1 DEF LocalStep, LocalTypes, SectionSound
<1>2. CASE LoseLease(o)
  <2>1. CancelTask(o) /\ pending' = pending
    BY <1>2 DEF LoseLease
  <2>2. LocalTypes'
    BY <1>f, <1>t, <2>1, CancelTaskStep DEF LocalTypes
  <2>3. SectionSound(o)'
    BY <1>f, <1>t, <2>1, CancelTaskStep DEF SectionSound
  <2> QED BY <1>f, <1>t, <2>1, <2>2, <2>3, CancelTaskStep DEF LocalStep
<1>3. CASE Retire(o)
  <2>1. task' = task /\ token' \in [Owners -> {"none", "clear", "cancelled"}]
    BY <1>3, <1>t DEF Retire, LocalTypes
  <2>2. pending' \in [Owners -> BOOLEAN]
    <3>1. pending' = [pending EXCEPT ![o] = @ \/ run.state \in Rewoken]
      BY <1>3 DEF Retire
    <3> QED BY <1>t, <3>1, Zenon DEF LocalTypes
  <2> QED BY <1>f, <1>t, <2>1, <2>2 DEF LocalStep, LocalTypes, SectionSound
<1> QED BY <1>1, <1>2, <1>3

\* Cancellations and decisions.
LEMMA CancelStep ==
    ASSUME Before, NEW o \in Owners, CancelRun(o)
    PROVE  LocalStep(o)
<1>t. LocalTypes /\ SectionSound(o)
  BY DEF Before, LifecycleIInv
<1>1. /\ Free(o) /\ pc' = pc /\ CancelTask(o) /\ canceller' = [canceller EXCEPT ![o] = "joining"]
      /\ UNCHANGED <<pending, waker, goal, boot>>
  BY DEF CancelRun, RequestRunCancel, kernelVars, authorityVars
<1>2. /\ canceller' \in [Owners -> {"none", "joining"}] /\ canceller'[o] = "joining"
      /\ \A p \in Owners \ {o} : canceller'[p] = canceller[p]
  BY <1>1, <1>t DEF LocalTypes
<1>3. LocalTypes'
  BY <1>1, <1>2, <1>t, CancelTaskStep DEF LocalTypes
<1>4. SectionSound(o)'
  BY <1>1, <1>2, <1>t, CancelTaskStep DEF SectionSound
<1> QED BY <1>1, <1>2, <1>3, <1>4, <1>t, CancelTaskStep DEF LocalStep

LEMMA CancelJoinedStep ==
    ASSUME Before, NEW o \in Owners, CancelJoined(o)
    PROVE  LocalStep(o)
<1>t. LocalTypes /\ SectionSound(o)
  BY DEF Before, LifecycleIInv
<1>f. Free(o) /\ canceller[o] = "joining" /\ UNCHANGED <<task, token, pending, waker, boot>>
  BY DEF CancelJoined
<1>1. CASE /\ goal' = [goal EXCEPT ![o] =
                [kind |-> "cancel", state |-> run.state, seen |-> run.version]]
           /\ UNCHANGED <<authorityVars, canceller>>
  <2>1. run' = run /\ pc' = pc /\ canceller' = canceller
    BY <1>1 DEF authorityVars
  <2>2. [kind |-> "cancel", state |-> run.state, seen |-> run.version] \in GoalRows
    BY <2>1, GoalOf DEF Before
  <2>3. /\ goal' \in [Owners -> GoalRows]
        /\ goal'[o] = [kind |-> "cancel", state |-> run.state, seen |-> run.version]
        /\ \A p \in Owners \ {o} : goal'[p] = goal[p]
    BY <1>1, <1>t, <2>2 DEF LocalTypes
  <2>4. LocalTypes'
    BY <1>f, <1>t, <2>1, <2>3 DEF LocalTypes
  <2>5. SectionSound(o)'
    BY <1>f, <1>t, <2>1, <2>3 DEF SectionSound, Free
  <2> QED BY <1>f, <2>1, <2>3, <2>4, <2>5 DEF LocalStep
<1>2. CASE ClaimFor(o, "cancel") /\ UNCHANGED canceller
  <2>1. LocalTypes'
    BY <1>2, <1>f, <1>t, ClaimForStep DEF LocalTypes
  <2>2. SectionSound(o)'
    BY <1>2, <1>f, <1>t, ClaimForStep DEF SectionSound, Free
  <2> QED BY <1>2, <1>f, <2>1, <2>2, ClaimForStep DEF LocalStep
<1>3. CASE canceller' = [canceller EXCEPT ![o] = "none"] /\ UNCHANGED <<authorityVars, goal>>
  <2>1. pc' = pc /\ goal' = goal /\ goal[o] = NoGoal
    BY <1>3, <1>f DEF authorityVars, Free
  <2>2. /\ canceller' \in [Owners -> {"none", "joining"}]
        /\ \A p \in Owners \ {o} : canceller'[p] = canceller[p]
    BY <1>3, <1>t DEF LocalTypes
  <2>3. LocalTypes'
    BY <1>f, <1>t, <2>1, <2>2 DEF LocalTypes
  <2>4. SectionSound(o)'
    BY <1>f, <1>t, <2>1, TaskRowFacts DEF SectionSound
  <2> QED BY <1>f, <2>1, <2>2, <2>3, <2>4 DEF LocalStep
<1> QED BY <1>1, <1>2, <1>3 DEF CancelJoined

LEMMA DecideStep ==
    ASSUME Before, NEW o \in Owners, NEW allow \in BOOLEAN, DecideAuthorization(o, allow)
    PROVE  LocalStep(o)
<1>t. LocalTypes /\ SectionSound(o)
  BY DEF Before, LifecycleIInv
<1>1. /\ pc' = pc /\ waker' = [waker EXCEPT ![o] = IF allow THEN "new" ELSE @]
      /\ UNCHANGED <<task, token, pending, canceller, goal, boot>>
  BY DEF DecideAuthorization, CommitDecisionResolved, kernelVars
<1>2. waker' \in [Owners -> {"none", "new", "waited"}]
  BY <1>1, <1>t DEF LocalTypes
<1> QED BY <1>1, <1>2, <1>t DEF LocalStep, LocalTypes, SectionSound

\* Every step of a kernel.
KernelLifeStep(o) ==
    \/ SectionStep(o) \/ DriverStep(o) \/ BeginDrive(o)
    \/ LoseLease(o) \/ Retire(o) \/ CancelJoined(o)
    \/ Recover(o) \/ WakeTask(o) \/ DrainPendingWake(o)
    \/ \E k \in Attempts : DrainResolvedWait(o, k)
    \/ Renew(o) \/ CancelRun(o) \/ CrashKernel(o)
    \/ \E allow \in BOOLEAN : DecideAuthorization(o, allow)

\* The steps that belong to no kernel.
WorldStep == (\E k \in Attempts : Reconcile(k)) \/ Stall \/ LateActivation \/ Lapse

LEMMA KernelLifeLocal ==
    ASSUME Before, NEW o \in Owners, KernelLifeStep(o)
    PROVE  LocalStep(o)
<1>1. CASE SectionStep(o)
  BY <1>1, AcquiredStep, DispatchStep, CrashStep, CommitStep, EndDriveStep, ReleaseStep DEF SectionStep
<1>2. CASE DriverStep(o) \/ BeginDrive(o)
  BY <1>2, DriveTaskStep DEF DriverStep
<1>3. CASE LoseLease(o) \/ Retire(o) \/ Renew(o)
  BY <1>3, HeartbeatStep
<1>4. CASE CancelJoined(o) \/ CancelRun(o) \/ CrashKernel(o) \/ Recover(o)
  BY <1>4, CancelJoinedStep, CancelStep, CrashStep, RecoverStep
<1>5. CASE WakeTask(o) \/ DrainPendingWake(o)
  BY <1>5, WakeStep
<1>6. CASE \E k \in Attempts : DrainResolvedWait(o, k)
  BY <1>6, DrainStep
<1>7. CASE \E allow \in BOOLEAN : DecideAuthorization(o, allow)
  BY <1>7, DecideStep
<1> QED BY <1>1, <1>2, <1>3, <1>4, <1>5, <1>6, <1>7 DEF KernelLifeStep

\* The other steps leave the kernels' tasks alone.
LEMMA WorldLocal ==
    ASSUME Before, WorldStep \/ UNCHANGED lifecycleVars
    PROVE  LocalTypes' /\ \A o \in Owners : SectionSound(o)'
<1>1. UNCHANGED localVars /\ pc' = pc
  BY DEF WorldStep, Reconcile, Stall, LateActivation, Lapse, Tick, lifecycleVars, authorityVars
<1> QED BY <1>1 DEF Before, LifecycleIInv, localVars, LocalTypes, SectionSound

\* Steps that give no drive another call to wait for.
AttemptsKept == \A o \in Owners : task'[o].attempt \in {0, task[o].attempt}

\* Only the driver that begins, or returns, learns of a call.
LEMMA AttemptsKeptBy ==
    ASSUME LifecycleIInv, NEW o \in Owners, KernelLifeStep(o), ~BeginDrive(o),
           ~\E r \in DriverResults : DriverReturns(o, r)
    PROVE  AttemptsKept
<1>t. task \in [Owners -> TaskRows] /\ task[o] \in TaskRows
  BY DEF LifecycleIInv, LocalTypes
<1>n. NoTask.attempt = 0 /\ [NoTask EXCEPT !.at = "ready"].attempt = 0
  BY DEF NoTask
<1>a. ASSUME NEW u, task' = [task EXCEPT ![o] = u], u.attempt \in {0, task[o].attempt}
      PROVE  AttemptsKept
  BY <1>a, <1>t DEF AttemptsKept
<1>b. ASSUME task' = task PROVE AttemptsKept
  BY <1>b DEF AttemptsKept
<1>s. ASSUME NEW s, NEW hold, Schedule(o, s, hold) PROVE AttemptsKept
  BY <1>a, <1>b, <1>n, <1>s DEF Schedule
<1>c. ASSUME CancelTask(o) PROVE AttemptsKept
  BY <1>a, <1>c, <1>n DEF CancelTask
<1>1. CASE SectionStep(o)
  <2>1. CASE Acquired(o) \/ AcquireRefused(o) \/ ReleaseLease(o)
    BY <1>b, <2>1 DEF Acquired, AcquireRefused, ReleaseLease
  <2>2. CASE Dispatch(o)
    BY <1>b, <1>s, <2>2 DEF Dispatch
  <2>3. CASE CommitDrive(o)
    <3>1. task' = [task EXCEPT ![o].at = "finally"]
      BY <2>3 DEF CommitDrive
    <3> QED BY <1>t, <3>1 DEF AttemptsKept, TaskRows
  <2>4. CASE EndDrive(o) \/ StartupFails(o)
    BY <1>a, <1>n, <2>4 DEF EndDrive, StartupFails, ProcessEnds
  <2> QED BY <1>1, <2>1, <2>2, <2>3, <2>4 DEF SectionStep
<1>2. CASE DriverCancelled(o)
  <2> DEFINE u == IF run.state = "cancel_requested"
                  THEN [task[o] EXCEPT !.at = "commit", !.result = "cancelled", !.seen = run.version]
                  ELSE [task[o] EXCEPT !.at = "finally"]
  <2>1. task' = [task EXCEPT ![o] = u]
    BY <1>2 DEF DriverCancelled
  <2>2. u.attempt = task[o].attempt
    BY <1>t DEF TaskRows
  <2> HIDE DEF u
  <2> QED BY <1>a, <2>1, <2>2
<1>3. CASE LoseLease(o) \/ CancelRun(o)
  BY <1>3, <1>c DEF LoseLease, CancelRun
<1>4. CASE \/ Retire(o) \/ CancelJoined(o) \/ Recover(o) \/ Renew(o)
           \/ (\E k \in Attempts : DrainResolvedWait(o, k))
           \/ \E allow \in BOOLEAN : DecideAuthorization(o, allow)
  BY <1>4, <1>b DEF Retire, CancelJoined, Recover, Renew, DrainResolvedWait, DecideAuthorization,
                    localVars
<1>5. CASE WakeTask(o) \/ DrainPendingWake(o)
  BY <1>5, <1>b, <1>s DEF WakeTask, DrainPendingWake, WakeContinuation
<1>6. CASE CrashKernel(o)
  BY <1>6, <1>a, <1>n DEF CrashKernel, ProcessEnds
<1> QED BY <1>1, <1>2, <1>3, <1>4, <1>5, <1>6 DEF KernelLifeStep, DriverStep

\* The records of the calls: no resolution is lost and no call is unaccounted for.
Records == DurableTypes /\ NoLostResolution /\ CallsAccounted

\* Steps that leave the calls' records alone.
LEMMA RecordsKept ==
    ASSUME Records, AttemptsKept, UNCHANGED <<attempts, resolved, blocker>>, LocalTypes,
           decision' \in {"none", "open", "allowed", "denied", "cancelled"}, logged' \in BOOLEAN
    PROVE  Records'
<1>1. DurableTypes' /\ NoLostResolution'
  BY DEF Records, DurableTypes, NoLostResolution
<1>2. attempts \in Nat /\ \A o \in Owners : task[o].attempt \in Nat
  BY DEF Records, DurableTypes, LocalTypes, TaskRows
<1>3. CallsAccounted'
  BY <1>2 DEF Records, CallsAccounted, AttemptsKept
<1> QED BY <1>1, <1>3 DEF Records

\* A step of a kernel keeps the records.
LEMMA KernelRecords ==
    ASSUME LifecycleIInv, NEW o \in Owners, KernelLifeStep(o)
    PROVE  Records'
<1>t. /\ Records /\ LocalTypes /\ task[o] \in TaskRows /\ SectionSound(o)
      /\ attempts \in 0..MaxAttempts /\ task \in [Owners -> TaskRows] /\ DurableTypes
      /\ \A p \in Owners : task[p].attempt \in Nat /\ task[p].attempt <= attempts
  BY DEF LifecycleIInv, Records, LocalTypes, DurableTypes, TaskRows, CallsAccounted
<1>1. CASE BeginDrive(o)
  <2>1. UNCHANGED <<decision, logged, attempts, resolved, blocker>>
    BY <1>1 DEF BeginDrive, durableVars
  <2> DEFINE Cancelled == [task[o] EXCEPT !.at = "commit", !.result = "cancelled", !.seen = run.version]
             Over == [task[o] EXCEPT !.at = "finally"]
             Begun == [task[o] EXCEPT !.at = IF token[o] = "cancelled" THEN "doomed" ELSE "driver",
                                      !.attempt = IF LatestUnresolved THEN attempts ELSE 0,
                                      !.lease = heldLease[o]]
             Goes == IF run.state \in Terminal THEN NoTask
                     ELSE IF ~RequireRuntimeLease(o, heldLease[o]) THEN Over
                     ELSE IF run.state = "cancel_requested" THEN Cancelled
                     ELSE IF run.state = "waiting" \/ heldFence[o] = NoFence
                     THEN Over ELSE Begun
  <2>2. task' = [task EXCEPT ![o] = Goes]
    BY <1>1 DEF BeginDrive
  <2>3. /\ NoTask.attempt = 0 /\ Cancelled.attempt = task[o].attempt
        /\ Over.attempt = task[o].attempt /\ Begun.attempt \in {0, attempts}
    BY <1>t DEF NoTask, TaskRows
  <2> HIDE DEF Cancelled, Over, Begun
  <2>4. Goes \in {NoTask, Cancelled, Over, Begun}
    BY DEF Terminal
  <2> HIDE DEF Goes
  <2>5. Goes.attempt \in {0, task[o].attempt, attempts}
    BY <2>3, <2>4
  <2>6. \A p \in Owners : task'[p].attempt <= attempts
    BY <1>t, <2>2, <2>5
  <2> QED BY <1>t, <2>1, <2>6 DEF Records, DurableTypes, NoLostResolution, CallsAccounted
<1>2. ASSUME NEW r \in DriverResults, DriverReturns(o, r) PROVE Records'
  <2> DEFINE again == task[o].attempt # 0 /\ task[o].attempt \notin resolved
             k     == IF again THEN task[o].attempt ELSE attempts + 1
  <2>1. /\ r = "unknown" => k \in Attempts
        /\ attempts' = IF r = "unknown" /\ ~again THEN k ELSE attempts
        /\ task' = [task EXCEPT ![o] = Returned(o, r, k)]
        /\ UNCHANGED <<decision, logged, resolved, blocker>>
    BY <1>2 DEF DriverReturns, Returned
  <2>2. attempts' \in 0..MaxAttempts /\ attempts' >= attempts
    BY <1>t, <2>1 DEF Attempts
  <2>3. \A p \in Owners : task'[p].attempt <= attempts'
    <3>1. \A p \in Owners \ {o} : task'[p] = task[p]
      BY <1>t, <2>1
    <3>2. task'[o].attempt = IF r = "unknown" THEN k ELSE 0
      BY <1>t, <2>1 DEF Returned
    <3>3. (IF r = "unknown" THEN k ELSE 0) <= attempts'
      BY <1>t, <2>1, <2>2
    <3> HIDE DEF k
    <3> QED BY <1>t, <2>2, <3>1, <3>2, <3>3
  <2> HIDE DEF k, again
  <2> QED BY <1>t, <2>1, <2>2, <2>3 DEF Records, DurableTypes, NoLostResolution, CallsAccounted, Attempts
<1>3. ASSUME ~BeginDrive(o), ~\E r \in DriverResults : DriverReturns(o, r) PROVE Records'
  <2>a. AttemptsKept
    BY <1>3, AttemptsKeptBy
  <2>1. CASE CommitDrive(o)
    <3>1. UNCHANGED <<logged, attempts, resolved>>
      BY <2>1 DEF CommitDrive
    <3>2. decision' \in {"none", "open", "allowed", "denied", "cancelled"}
      BY <1>t, <2>1 DEF CommitDrive, CommitWaiting, CommitUnknownWait, CommitAuthorizationWait,
                        CommitTerminal, DurableTypes
    <3>3. ASSUME blocker' = blocker PROVE Records'
      BY <1>t, <2>a, <3>1, <3>2, <3>3, RecordsKept DEF DurableTypes
    <3>4. ASSUME NEW k, k = task[o].attempt, task[o].result = "unknown",
                 blocker' = [blocker EXCEPT ![k] = NewBlocker(k)]
          PROVE  Records'
      <4>1. task[o].at = "commit"
        BY <2>1 DEF CommitDrive
      <4>2. k \in Attempts /\ k <= attempts
        BY <1>t, <3>4, <4>1 DEF SectionSound, Attempts, TaskRows
      <4>3. DurableTypes'
        BY <1>t, <3>1, <3>2, <3>4 DEF DurableTypes, NewBlocker
      <4>4. NoLostResolution'
        BY <1>t, <3>1, <3>4 DEF Records, NoLostResolution, NewBlocker, DurableTypes
      <4>5. \A j \in Attempts : blocker'[j] # "none" \/ j \in resolved => j <= attempts
        BY <1>t, <3>4, <4>2 DEF Records, CallsAccounted, DurableTypes
      <4>6. CallsAccounted'
        BY <1>t, <2>a, <3>1, <4>5 DEF CallsAccounted, AttemptsKept
      <4> QED BY <4>3, <4>4, <4>6 DEF Records
    <3>5. blocker' = blocker \/ /\ task[o].result = "unknown"
                                /\ blocker' = [blocker EXCEPT ![task[o].attempt] = NewBlocker(task[o].attempt)]
      BY <2>1 DEF CommitDrive, CommitWaiting, CommitUnknownWait, CommitAuthorizationWait, CommitTerminal
    <3> QED BY <3>3, <3>4, <3>5
  <2>2. ASSUME NEW k \in Attempts, DrainResolvedWait(o, k) PROVE Records'
    <3>1. /\ blocker[k] = "resolved" /\ blocker' = [blocker EXCEPT ![k] = "consumed"]
          /\ UNCHANGED <<decision, logged, attempts, resolved>>
      BY <2>2 DEF DrainResolvedWait
    <3>2. DurableTypes' /\ NoLostResolution'
      BY <1>t, <3>1 DEF Records, DurableTypes, NoLostResolution
    <3>3. CallsAccounted'
      BY <1>t, <2>a, <3>1 DEF Records, DurableTypes, CallsAccounted, AttemptsKept
    <3> QED BY <3>2, <3>3 DEF Records
  <2>3. CASE CancelRun(o)
    <3>1. UNCHANGED <<attempts, resolved, blocker>>
      BY <2>3 DEF CancelRun
    <3>2. decision' \in {"none", "open", "allowed", "denied", "cancelled"}
      BY <1>t, <2>3 DEF CancelRun, DecisionClosed, DurableTypes
    <3>3. logged' \in BOOLEAN
      <4>1. logged' = logged \/ logged' = TRUE
        BY <2>3 DEF CancelRun
      <4> QED BY <1>t, <4>1, Zenon DEF DurableTypes
    <3> QED BY <1>t, <2>a, <3>1, <3>2, <3>3, RecordsKept
  <2>4. ASSUME NEW allow \in BOOLEAN, DecideAuthorization(o, allow) PROVE Records'
    <3>1. UNCHANGED <<logged, attempts, resolved, blocker>>
          /\ decision' \in {"none", "open", "allowed", "denied", "cancelled"}
      BY <2>4 DEF DecideAuthorization
    <3> QED BY <1>t, <2>a, <3>1, RecordsKept DEF DurableTypes
  <2>5. CASE \/ Acquired(o) \/ AcquireRefused(o) \/ Dispatch(o) \/ EndDrive(o) \/ ReleaseLease(o)
             \/ DriverCancelled(o) \/ LoseLease(o) \/ Retire(o) \/ CancelJoined(o) \/ Recover(o)
             \/ WakeTask(o) \/ DrainPendingWake(o) \/ Renew(o) \/ CrashKernel(o) \/ StartupFails(o)
    <3>1. UNCHANGED durableVars
      BY <2>5 DEF Acquired, AcquireRefused, Dispatch, EndDrive, ReleaseLease, DriverCancelled,
         LoseLease, Retire, CancelJoined, Recover, WakeTask, DrainPendingWake, Renew, CrashKernel,
         StartupFails, ProcessEnds
    <3> QED BY <1>t, <2>a, <3>1, RecordsKept DEF durableVars, DurableTypes
  <2> QED BY <1>3, <2>1, <2>2, <2>3, <2>4, <2>5 DEF KernelLifeStep, SectionStep, DriverStep
<1> QED BY <1>1, <1>2, <1>3

\* The steps of the world keep the records: a reconciliation marks the blocker that
\* waits for it.
LEMMA WorldRecords ==
    ASSUME LifecycleIInv, WorldStep \/ UNCHANGED lifecycleVars
    PROVE  Records'
<1>t. Records /\ LocalTypes /\ DurableTypes
  BY DEF LifecycleIInv, Records
<1>a. AttemptsKept
  BY DEF WorldStep, Reconcile, Stall, LateActivation, Lapse, lifecycleVars, localVars, AttemptsKept
<1>1. ASSUME NEW k \in Attempts, Reconcile(k) PROVE Records'
  <2>1. /\ k <= attempts /\ resolved' = resolved \cup {k}
        /\ blocker' = [blocker EXCEPT ![k] = IF @ = "open" THEN "resolved" ELSE @]
        /\ UNCHANGED <<decision, logged, attempts>>
    BY <1>1 DEF Reconcile
  <2>2. DurableTypes'
    BY <1>t, <2>1 DEF DurableTypes
  <2>3. NoLostResolution'
    BY <1>t, <2>1 DEF Records, NoLostResolution, DurableTypes
  <2>4. task' = task
    BY <1>1 DEF Reconcile, localVars
  <2>5. CallsAccounted'
    BY <1>t, <2>1, <2>4 DEF Records, CallsAccounted, DurableTypes
  <2> QED BY <2>2, <2>3, <2>5 DEF Records
<1>2. CASE Stall \/ LateActivation \/ Lapse \/ UNCHANGED lifecycleVars
  <2>1. UNCHANGED durableVars
    BY <1>2 DEF Stall, LateActivation, Lapse, lifecycleVars
  <2> QED BY <1>a, <1>t, <2>1, RecordsKept DEF durableVars, DurableTypes
<1> QED BY <1>1, <1>2 DEF WorldStep

\* The counters stay within their bounds.
LEMMA BoundsStep ==
    ASSUME BoundTypes, [LifecycleNext]_lifecycleVars
    PROVE  BoundTypes'
<1>1. \/ UNCHANGED boundVars
      \/ stalls < MaxStalls /\ stalls' = stalls + 1 /\ UNCHANGED <<late, crashes>>
      \/ late < MaxLate /\ late' = late + 1 /\ UNCHANGED <<stalls, crashes>>
      \/ crashes < MaxCrashes /\ crashes' = crashes + 1 /\ UNCHANGED <<stalls, late>>
  <2>1. ASSUME NEW o \in Owners, SectionStep(o) \/ DriverStep(o) \/ BeginDrive(o)
        PROVE  UNCHANGED boundVars
    BY <2>1 DEF SectionStep, DriverStep, Acquired, AcquireRefused, Dispatch, CommitDrive,
       EndDrive, ReleaseLease, StartupFails, DriverCancelled, DriverReturns, BeginDrive, boundVars
  <2>2. ASSUME NEW o \in Owners, \/ LoseLease(o) \/ Retire(o) \/ CancelJoined(o) \/ Recover(o)
                                 \/ WakeTask(o) \/ DrainPendingWake(o) \/ Renew(o) \/ CancelRun(o)
        PROVE  UNCHANGED boundVars
    BY <2>2 DEF LoseLease, Retire, CancelJoined, Recover, WakeTask, DrainPendingWake, Renew,
                CancelRun, boundVars
  <2>3. ASSUME NEW o \in Owners, \/ \E k \in Attempts : DrainResolvedWait(o, k)
                                 \/ \E allow \in BOOLEAN : DecideAuthorization(o, allow)
        PROVE  UNCHANGED boundVars
    BY <2>3 DEF DrainResolvedWait, DecideAuthorization, boundVars
  <2>4. ASSUME (\E k \in Attempts : Reconcile(k)) \/ Lapse \/ UNCHANGED lifecycleVars
        PROVE  UNCHANGED boundVars
    BY <2>4 DEF Reconcile, Lapse, lifecycleVars, boundVars
  <2>5. Stall => stalls < MaxStalls /\ stalls' = stalls + 1 /\ UNCHANGED <<late, crashes>>
    BY DEF Stall
  <2>6. LateActivation => late < MaxLate /\ late' = late + 1 /\ UNCHANGED <<stalls, crashes>>
    BY DEF LateActivation
  <2>7. ASSUME NEW o \in Owners, CrashKernel(o)
        PROVE  crashes < MaxCrashes /\ crashes' = crashes + 1 /\ UNCHANGED <<stalls, late>>
    BY <2>7 DEF CrashKernel
  <2> QED BY <2>1, <2>2, <2>3, <2>4, <2>5, <2>6, <2>7 DEF LifecycleNext
<1> QED BY <1>1, LifecycleConstants DEF BoundTypes, boundVars

\* The invariant is inductive.
LEMMA LifecycleIInvStep ==
    LifecycleIInv /\ [LifecycleNext]_lifecycleVars => LifecycleIInv'
<1> SUFFICES ASSUME LifecycleIInv, [LifecycleNext]_lifecycleVars PROVE LifecycleIInv'
  OBVIOUS
<1>1. TypeOK' /\ VersionBounded'
  BY LifecycleStep, TypeStep, VersionStep DEF LifecycleIInv
<1>2. Before
  BY <1>1 DEF Before
<1>3. (\E o \in Owners : KernelLifeStep(o)) \/ WorldStep \/ UNCHANGED lifecycleVars
  BY DEF LifecycleNext, KernelLifeStep, WorldStep
<1>4. LocalTypes' /\ \A o \in Owners : SectionSound(o)'
  <2>1. \A o \in Owners : SectionSound(o)
    BY DEF LifecycleIInv
  <2> QED BY <1>2, <1>3, <2>1, KernelLifeLocal, LocalStepSound, WorldLocal
<1>5. Records'
  BY <1>3, KernelRecords, WorldRecords
<1>6. BoundTypes'
  BY BoundsStep DEF LifecycleIInv
<1> QED BY <1>1, <1>4, <1>5, <1>6 DEF LifecycleIInv, Records

\* No resolution of a call of unknown outcome is lost to the wait on it, every call
\* is recorded before it is waited for, and the synchronous sections of a kernel do
\* not overlap, through any interleaving of kernels, late leases and crashes.
THEOREM LifecycleInvariant == LifecycleSpec => []LifecycleInv
<1>1. LifecycleIInv => LifecycleInv
  BY LifecycleIInvMeaning
<1> QED BY <1>1, LifecycleIInvInit, LifecycleIInvStep, PTL DEF LifecycleSpec

-----------------------------------------------------------------------------
(* One kernel.                                                             *)

\* One process drives the Run.
OneKernel == \E o : Owners = {o}

\* A drive past its first look at the Run has a Run that neither waits nor ended.
DriveFacts(o) ==
    task[o].at \in {"driver", "doomed", "commit"} => run.state \notin Terminal \cup {"waiting"}

\* A section is about the Run as it is, and one that will close a cancelled Run was
\* begun without a drive.
GoalFacts(o) ==
    /\ goal[o] # NoGoal => goal[o].state = run.state
    /\ goal[o].kind = "cancel" => goal[o].state = "cancel_requested"
    /\ ForCancel(goal[o]) => task[o].at = "none"

\* The Run is blocked on call k.
BlockedOn(k) == blocker[k] \in {"open", "resolved"}

\* A Run that is blocked on a call has stopped, is blocked on no other call and on
\* no decision.
BlockFacts(o) ==
    \A k \in Attempts : BlockedOn(k) =>
        /\ run.state \notin {"created", "queued", "running"} /\ decision # "open"
        /\ task[o].at \notin {"driver", "doomed"}
        /\ task[o].at = "commit" => task[o].result = "cancelled"
        /\ \A j \in Attempts : BlockedOn(j) => j = k

OneKernelFacts(o) == DriveFacts(o) /\ GoalFacts(o) /\ BlockFacts(o) /\ OpenDecisionIsAwaited

\* What a step of the only kernel does.
OneKernelStep(o) == OneKernelFacts(o)' /\ (run.state \in Terminal => run' = run)


\* A step that leaves the Run, its decision and its blockers alone, and moves no
\* drive to the driver or to a commit.
LEMMA QuietStep ==
    ASSUME NEW o \in Owners, OneKernelFacts(o), run' = run, UNCHANGED <<decision, blocker>>,
           goal'[o] = goal[o] \/ goal'[o] = NoGoal,
           \/ task'[o] = task[o]
           \/ task'[o].at = "none"
           \/ task'[o].at \in {"ready", "finally"} /\ goal'[o] = NoGoal
    PROVE  OneKernelStep(o)
<1>0. NoGoal.kind = "none" /\ ~ForCancel(NoGoal)
  BY DEF NoGoal, ForCancel
<1>1. DriveFacts(o)' /\ OpenDecisionIsAwaited'
  BY DEF OneKernelFacts, DriveFacts, OpenDecisionIsAwaited
<1>2. \A k \in Attempts : blocker'[k] = blocker[k]
  OBVIOUS
<1>3. BlockFacts(o)'
  BY DEF OneKernelFacts, BlockFacts, BlockedOn
<1>4. CASE goal'[o] = NoGoal
  BY <1>0, <1>1, <1>3, <1>4 DEF OneKernelStep, OneKernelFacts, GoalFacts
<1>5. CASE goal'[o] = goal[o] /\ goal[o] # NoGoal
  <2>1. task'[o] = task[o] \/ task'[o].at = "none"
    BY <1>5
  <2>2. GoalFacts(o)'
    BY <1>5, <2>1 DEF OneKernelFacts, GoalFacts, ForCancel
  <2> QED BY <1>1, <1>3, <2>2 DEF OneKernelStep, OneKernelFacts
<1> QED BY <1>4, <1>5

\* The claim of an activation.
LEMMA ClaimForOne ==
    ASSUME Before, NEW o \in Owners, OneKernelFacts(o), Free(o),
           NEW kind \in {"startup", "recover", "wake", "cancel"}, ClaimFor(o, kind),
           UNCHANGED <<decision, blocker, task>>,
           kind \in {"startup", "recover", "cancel"} => task[o].at = "none",
           kind = "cancel" => run.state = "cancel_requested"
    PROVE  OneKernelStep(o)
<1>1. /\ run.state \notin Terminal
      /\ run' = run \/ (run.state \in {"created", "queued"} /\ run'.state = "running")
  <2>1. /\ run.state \notin Terminal
        /\ run' = run \/ (run.state \in {"created", "queued"} /\ SetRun("running"))
    BY DEF ClaimFor, ClaimRuntimeActivation
  <2> QED BY <2>1 DEF SetRun
<1>2. goal'[o] = [kind |-> kind, state |-> run'.state, seen |-> run'.version]
  BY DEF ClaimFor, Before, LifecycleIInv, LocalTypes
<1>3. DriveFacts(o)' /\ OpenDecisionIsAwaited'
  BY <1>1 DEF OneKernelFacts, DriveFacts, OpenDecisionIsAwaited, Terminal
<1>4. BlockFacts(o)'
  BY <1>1 DEF OneKernelFacts, BlockFacts, BlockedOn
<1>5. GoalFacts(o)'
  BY <1>1, <1>2 DEF GoalFacts, ForCancel
<1> QED BY <1>1, <1>3, <1>4, <1>5 DEF OneKernelStep, OneKernelFacts

\* Closing the Run, outside of a driver: it was not waiting.
LEMMA CloseRunOne ==
    ASSUME NEW o \in Owners, OneKernelFacts(o), NEW s \in Terminal, NEW seen, CloseRun(o, s, seen),
           UNCHANGED <<decision, blocker>>, run.state # "waiting",
           goal'[o] = NoGoal, task'[o].at \in {"none", "finally"}
    PROVE  OneKernelStep(o)
<1>0. NoGoal.kind = "none" /\ ~ForCancel(NoGoal)
  BY DEF NoGoal, ForCancel
<1>1. run' = run \/ (run.state \notin Terminal /\ run'.state = s)
  <2>1. run' = run \/ (run.state \notin Terminal /\ SetRun(s))
    BY DEF CloseRun, CommitRootTerminal, authorityVars
  <2> QED BY <2>1 DEF SetRun
<1>2. OpenDecisionIsAwaited'
  BY DEF OneKernelFacts, OpenDecisionIsAwaited
<1>3. BlockFacts(o)'
  BY <1>1 DEF OneKernelFacts, BlockFacts, BlockedOn, Terminal
<1> QED BY <1>0, <1>1, <1>2, <1>3 DEF OneKernelStep, OneKernelFacts, DriveFacts, GoalFacts

\* The synchronous sections.
LEMMA SectionOne ==
    ASSUME Before, NEW o \in Owners, OneKernelFacts(o), SectionStep(o), LocalStep(o)
    PROVE  OneKernelStep(o)
<1>t. LocalTypes /\ SectionSound(o) /\ Records
  BY DEF Before, LifecycleIInv, Records
<1>n. NoTask.at = "none" /\ ~ForCancel(NoGoal) /\ "cancelled" \in Terminal
  BY DEF NoTask, NoGoal, ForCancel, Terminal
<1>1. CASE Acquired(o)
  <2>1. run' = run /\ UNCHANGED <<decision, blocker, goal, task>>
    BY <1>1 DEF Acquired, AcquireFence, durableVars
  <2> QED BY <2>1, QuietStep
<1>2. CASE AcquireRefused(o)
  <2>1. run' = run /\ UNCHANGED <<decision, blocker, task>> /\ goal'[o] = NoGoal
    BY <1>2, <1>t DEF AcquireRefused, AcquireConflict, durableVars, LocalTypes
  <2> QED BY <2>1, QuietStep
<1>3. CASE ReleaseLease(o)
  <2>1. run' = run /\ UNCHANGED <<decision, blocker, goal, task>>
    BY <1>3 DEF ReleaseLease, ReleaseRuntimeLease, durableVars
  <2> QED BY <2>1, QuietStep
<1>4. CASE EndDrive(o)
  <2>1. run' = run /\ UNCHANGED <<decision, blocker, goal>> /\ task'[o] = NoTask
    BY <1>4, <1>t DEF EndDrive, BeginRelease, durableVars, authorityVars, LocalTypes
  <2> QED BY <1>n, <2>1, QuietStep
<1>5. CASE Dispatch(o)
  <2>1. goal'[o] = NoGoal /\ UNCHANGED <<decision, blocker>> /\ goal[o] # NoGoal
    BY <1>5, <1>t DEF Dispatch, durableVars, LocalTypes
  <2>2. CASE ForCancel(goal[o]) /\ CloseRun(o, "cancelled", goal[o].seen) /\ UNCHANGED task
    <3>1. run.state = "cancel_requested" /\ task[o].at = "none"
      BY <2>1, <2>2 DEF OneKernelFacts, GoalFacts, ForCancel
    <3> QED BY <1>n, <2>1, <2>2, <3>1, CloseRunOne
  <2>3. CASE ~ForCancel(goal[o]) /\ UNCHANGED authorityVars
    <3>1. task'[o] = task[o] \/ task'[o].at = "ready"
      <4>1. task' = task \/ Schedule(o, run.state, heldLease[o] # 0)
        BY <1>5, <2>3 DEF Dispatch
      <4>2. (heldLease[o] # 0) \in BOOLEAN
        OBVIOUS
      <4> QED BY <1>t, <4>1, <4>2, ScheduleStep
    <3>2. run' = run
      BY <2>3 DEF authorityVars
    <3> QED BY <2>1, <3>1, <3>2, QuietStep
  <2> QED BY <1>5, <2>2, <2>3 DEF Dispatch
<1>6. CASE CommitDrive(o)
  <2>1. /\ task[o].at = "commit" /\ goal' = goal /\ attempts' = attempts /\ resolved' = resolved
        /\ task' = [task EXCEPT ![o].at = "finally"]
    BY <1>6 DEF CommitDrive
  <2>2. goal[o] = NoGoal /\ task'[o].at = "finally"
    BY <1>t, <2>1 DEF SectionSound, LocalTypes, TaskRows
  <2>3. run.state \notin Terminal \cup {"waiting"}
    BY <2>1 DEF OneKernelFacts, DriveFacts
  <2>4. CASE CommitTerminal(o)
    BY <2>1, <2>2, <2>3, <2>4, CloseRunOne DEF CommitTerminal
  <2>q. ASSUME run' = run, UNCHANGED <<decision, blocker>> PROVE OneKernelStep(o)
    BY <2>1, <2>2, <2>q, QuietStep
  <2>5. ASSUME run'.state = "waiting", decision' = decision \/ decision' = "open",
               \/ blocker' = blocker
               \/ /\ task[o].result = "unknown" /\ decision' = decision
                  /\ blocker' = [blocker EXCEPT ![task[o].attempt] = NewBlocker(task[o].attempt)],
               task[o].result # "cancelled"
        PROVE  OneKernelStep(o)
    <3>1. \A k \in Attempts : ~BlockedOn(k)
      BY <2>1, <2>5 DEF OneKernelFacts, BlockFacts
    <3>2. decision # "open"
      BY <2>3 DEF OneKernelFacts, OpenDecisionIsAwaited
    <3>3. BlockFacts(o)'
      <4>1. CASE blocker' = blocker
        BY <3>1, <4>1 DEF BlockFacts, BlockedOn
      <4>2. CASE /\ decision' = decision
                 /\ blocker' = [blocker EXCEPT ![task[o].attempt] = NewBlocker(task[o].attempt)]
        <5>1. \A k \in Attempts : k # task[o].attempt => ~BlockedOn(k)'
          BY <1>t, <3>1, <4>2 DEF BlockedOn, Records, DurableTypes
        <5> QED BY <2>2, <2>5, <3>2, <4>2, <5>1 DEF BlockFacts
      <4> QED BY <2>5, <4>1, <4>2
    <3> QED BY <1>n, <2>1, <2>2, <2>3, <2>5, <3>3
            DEF OneKernelStep, OneKernelFacts, DriveFacts, GoalFacts, OpenDecisionIsAwaited, NoGoal
  <2>6. CASE CommitWaiting(o) \/ CommitUnknownWait(o) \/ CommitAuthorizationWait(o)
    <3>1. task[o].result # "cancelled"
      BY <2>6 DEF CommitWaiting, CommitUnknownWait, CommitAuthorizationWait
    <3>2. \/ run' = run /\ UNCHANGED <<decision, blocker>>
          \/ /\ run'.state = "waiting" /\ (decision' = decision \/ decision' = "open")
             /\ \/ blocker' = blocker
                \/ /\ task[o].result = "unknown" /\ decision' = decision
                   /\ blocker' = [blocker EXCEPT ![task[o].attempt] = NewBlocker(task[o].attempt)]
      BY <2>6 DEF CommitWaiting, CommitUnknownWait, CommitAuthorizationWait, CommitRuntimeState,
         CommitDecisionOpen, SetRun, authorityVars
    <3> QED BY <2>5, <2>q, <3>1, <3>2
  <2> QED BY <1>6, <2>4, <2>6 DEF CommitDrive
<1>7. CASE StartupFails(o)
  <2>1. run' = run /\ UNCHANGED <<decision, blocker>> /\ goal'[o] = NoGoal /\ task'[o] = NoTask
    BY <1>7, <1>t DEF StartupFails, ProcessEnds, Crash, durableVars, LocalTypes
  <2> QED BY <1>n, <2>1, QuietStep
<1> QED BY <1>1, <1>2, <1>3, <1>4, <1>5, <1>6, <1>7 DEF SectionStep

\* The drive task up to its commit.
LEMMA DriveOne ==
    ASSUME Before, NEW o \in Owners, OneKernelFacts(o), DriverStep(o) \/ BeginDrive(o)
    PROVE  OneKernelStep(o)
<1>t. LocalTypes /\ task[o] \in TaskRows /\ goal[o] = NoGoal /\ ~ForCancel(NoGoal)
      /\ NoGoal.kind = "none"
  BY DEF Before, LifecycleIInv, LocalTypes, DriverStep, BeginDrive, DriverCancelled, DriverReturns,
         Free, ForCancel, NoGoal
<1>k. run' = run /\ UNCHANGED <<decision, blocker, goal>>
  BY DEF DriverStep, BeginDrive, DriverCancelled, DriverReturns, durableVars, authorityVars
<1>a. ASSUME NEW u \in TaskRows, task' = [task EXCEPT ![o] = u],
             u.at \in {"driver", "doomed", "commit"} => run.state \notin Terminal \cup {"waiting"},
             \A k \in Attempts : BlockedOn(k) =>
                 u.at \notin {"driver", "doomed"} /\ (u.at = "commit" => u.result = "cancelled")
      PROVE  OneKernelStep(o)
  <2>1. task'[o] = u
    BY <1>t, <1>a DEF LocalTypes
  <2>2. BlockFacts(o)'
    BY <1>a, <1>k, <2>1 DEF OneKernelFacts, BlockFacts, BlockedOn
  <2>3. DriveFacts(o)' /\ GoalFacts(o)' /\ OpenDecisionIsAwaited'
    BY <1>a, <1>k, <1>t, <2>1 DEF OneKernelFacts, DriveFacts, GoalFacts, OpenDecisionIsAwaited
  <2> QED BY <1>k, <2>2, <2>3 DEF OneKernelStep, OneKernelFacts
<1>v. run.version \in 0..MaxVersion /\ attempts \in 0..MaxAttempts
  BY AuthorityConstants DEF Before, LifecycleIInv, TypeOK, VersionBounded, DurableTypes
<1> DEFINE Cancelled == [task[o] EXCEPT !.at = "commit", !.result = "cancelled", !.seen = run.version]
           Over == [task[o] EXCEPT !.at = "finally"]
<1>b. Cancelled \in TaskRows /\ Cancelled.result = "cancelled" /\ Cancelled.at = "commit"
  BY <1>t, <1>v DEF TaskRows
<1>c. Over \in TaskRows /\ Over.at = "finally"
  BY <1>t DEF TaskRows
<1>1. CASE BeginDrive(o)
  <2> DEFINE Begun == [task[o] EXCEPT !.at = IF token[o] = "cancelled" THEN "doomed" ELSE "driver",
                                      !.attempt = IF LatestUnresolved THEN attempts ELSE 0,
                                      !.lease = heldLease[o]]
             Goes == IF run.state \in Terminal THEN NoTask
                     ELSE IF ~RequireRuntimeLease(o, heldLease[o]) THEN Over
                     ELSE IF run.state = "cancel_requested" THEN Cancelled
                     ELSE IF run.state = "waiting" \/ heldFence[o] = NoFence
                     THEN Over ELSE Begun
  <2>1. task' = [task EXCEPT ![o] = Goes]
    BY <1>1 DEF BeginDrive
  <2>2. Begun \in TaskRows
    <3>1. \A s \in {"doomed", "driver"}, k \in 0..MaxAttempts, e \in Nat :
              [task[o] EXCEPT !.at = s, !.attempt = k, !.lease = e] \in TaskRows
      BY <1>t DEF TaskRows
    <3>2. (IF LatestUnresolved THEN attempts ELSE 0) \in 0..MaxAttempts
      BY <1>v, LifecycleConstants
    <3>3. (IF token[o] = "cancelled" THEN "doomed" ELSE "driver") \in {"doomed", "driver"}
      OBVIOUS
    <3>4. heldLease[o] \in Nat
      BY DEF Before, LifecycleIInv, TypeOK
    <3> QED BY <3>1, <3>2, <3>3, <3>4
  <2> HIDE DEF Begun, Cancelled, Over
  <2>3. \/ Goes = NoTask
        \/ Goes = Cancelled /\ run.state = "cancel_requested"
        \/ Goes = Over
        \/ Goes = Begun /\ run.state \notin Terminal \cup {"waiting", "cancel_requested"}
    BY DEF Terminal
  <2> HIDE DEF Goes
  <2>4. Goes \in TaskRows
    BY <1>b, <1>c, <2>2, <2>3, TaskRowFacts
  <2>5. run.state \in RunStates
    BY DEF Before, LifecycleIInv, TypeOK
  <2>6. ASSUME NEW k \in Attempts, BlockedOn(k)
        PROVE  Goes.at \notin {"driver", "doomed"} /\ (Goes.at = "commit" => Goes.result = "cancelled")
    <3>1. Goes # Begun \/ run.state \in Terminal \cup {"waiting", "cancel_requested"}
      BY <2>5, <2>6 DEF OneKernelFacts, BlockFacts, RunStates
    <3>2. Goes \in {NoTask, Cancelled, Over}
      BY <2>3, <3>1
    <3> QED BY <1>b, <1>c, <3>2, TaskRowFacts
  <2>7. Goes.at \in {"driver", "doomed", "commit"} => run.state \notin Terminal \cup {"waiting"}
    BY <1>c, <2>3, TaskRowFacts DEF Terminal
  <2> QED BY <1>a, <2>1, <2>4, <2>6, <2>7
<1>2. CASE DriverCancelled(o)
  <2>0. task[o].at \in {"driver", "doomed"} /\ run.state \notin Terminal \cup {"waiting"}
    BY <1>2 DEF DriverCancelled, OneKernelFacts, DriveFacts
  <2>1. \A k \in Attempts : ~BlockedOn(k)
    BY <2>0 DEF OneKernelFacts, BlockFacts
  <2>2. task' = [task EXCEPT ![o] = Cancelled] \/ task' = [task EXCEPT ![o] = Over]
    BY <1>2 DEF DriverCancelled
  <2> HIDE DEF Cancelled, Over
  <2> QED BY <1>a, <1>b, <1>c, <2>0, <2>1, <2>2
<1>3. ASSUME NEW r \in DriverResults, DriverReturns(o, r) PROVE OneKernelStep(o)
  <2>0. task[o].at = "driver" /\ run.state \notin Terminal \cup {"waiting"}
    BY <1>3 DEF DriverReturns, OneKernelFacts, DriveFacts
  <2>1. \A k \in Attempts : ~BlockedOn(k)
    BY <2>0 DEF OneKernelFacts, BlockFacts
  <2>2. PICK k : /\ r = "unknown" => k \in Attempts
                 /\ task' = [task EXCEPT ![o] = Returned(o, r, k)]
    BY <1>3 DEF DriverReturns, Returned
  <2>3. (IF r = "unknown" THEN k ELSE 0) \in 0..MaxAttempts
    BY <2>2, LifecycleConstants DEF Attempts
  <2>4. Returned(o, r, k) \in TaskRows
    BY <1>t, <1>v, <2>3, ReturnedRow
  <2> QED BY <1>a, <2>0, <2>1, <2>2, <2>4
<1> QED BY <1>1, <1>2, <1>3 DEF DriverStep


\* Heartbeats, restarts, cancellations, decisions and wakes.
LEMMA OtherOne ==
    ASSUME Before, NEW o \in Owners, OneKernelFacts(o), KernelLifeStep(o), ~SectionStep(o),
           ~DriverStep(o), ~BeginDrive(o)
    PROVE  OneKernelStep(o)
<1>t. LocalTypes /\ Records /\ SectionSound(o)
  BY DEF Before, LifecycleIInv, Records
<1>n. NoTask.at = "none" /\ ~ForCancel(NoGoal) /\ NoGoal.kind = "none"
  BY DEF NoTask, NoGoal, ForCancel
<1>c. ASSUME CancelTask(o) PROVE task'[o] = task[o] \/ task'[o].at = "none"
  BY <1>c, <1>t, CancelTaskStep
<1>1. CASE Renew(o) \/ Retire(o)
  <2>1. run' = run /\ UNCHANGED <<decision, blocker, goal, task>>
    BY <1>1 DEF Renew, RenewLease, Retire, RetireDone, durableVars, localVars
  <2> QED BY <2>1, QuietStep
<1>2. CASE LoseLease(o)
  <2>1. run' = run /\ UNCHANGED <<decision, blocker, goal>> /\ CancelTask(o)
    BY <1>2 DEF LoseLease, HeartbeatLost, durableVars
  <2> QED BY <1>c, <2>1, QuietStep
<1>3. CASE CrashKernel(o)
  <2>1. run' = run /\ UNCHANGED <<decision, blocker>> /\ task'[o] = NoTask /\ goal'[o] = NoGoal
    BY <1>3, <1>t DEF CrashKernel, ProcessEnds, Crash, durableVars, LocalTypes
  <2> QED BY <1>n, <2>1, QuietStep
<1>4. CASE Recover(o)
  <2>1. Free(o) /\ task[o].at = "none" /\ UNCHANGED <<decision, blocker, task>>
    BY <1>4 DEF Recover, Active, durableVars
  <2>2. CASE ClaimFor(o, "startup") \/ ClaimFor(o, "recover")
    BY <2>1, <2>2, ClaimForOne
  <2>3. CASE UNCHANGED <<authorityVars, goal>>
    <3>1. run' = run /\ goal' = goal
      BY <2>3 DEF authorityVars
    <3> QED BY <2>1, <3>1, QuietStep
  <2> QED BY <1>4, <2>2, <2>3 DEF Recover
<1>5. CASE CancelJoined(o)
  <2>1. Free(o) /\ task[o].at = "none" /\ UNCHANGED <<decision, blocker, task>> /\ goal[o] = NoGoal
    BY <1>5 DEF CancelJoined, Active, Free, durableVars
  <2>2. CASE run.state = "cancel_requested" /\ ClaimFor(o, "cancel")
    BY <2>1, <2>2, ClaimForOne
  <2>3. CASE UNCHANGED <<authorityVars, goal>>
    <3>1. run' = run /\ goal' = goal
      BY <2>3 DEF authorityVars
    <3> QED BY <2>1, <3>1, QuietStep
  <2>4. CASE /\ run.state = "cancel_requested" /\ UNCHANGED authorityVars
             /\ goal' = [goal EXCEPT ![o] =
                   [kind |-> "cancel", state |-> run.state, seen |-> run.version]]
    <3>1. /\ goal'[o] = [kind |-> "cancel", state |-> run.state, seen |-> run.version]
          /\ run' = run
      BY <1>t, <2>4 DEF LocalTypes, authorityVars
    <3>2. DriveFacts(o)' /\ BlockFacts(o)' /\ OpenDecisionIsAwaited'
      BY <2>1, <3>1 DEF OneKernelFacts, DriveFacts, BlockFacts, BlockedOn, OpenDecisionIsAwaited
    <3>3. GoalFacts(o)'
      BY <2>1, <2>4, <3>1 DEF GoalFacts
    <3> QED BY <3>1, <3>2, <3>3 DEF OneKernelStep, OneKernelFacts
  <2> QED BY <1>5, <2>2, <2>3, <2>4 DEF CancelJoined
<1>6. CASE CancelRun(o)
  <2>1. Free(o) /\ CancelTask(o) /\ UNCHANGED <<goal, blocker>> /\ goal[o] = NoGoal
    BY <1>6 DEF CancelRun, Free
  <2>2. CASE UNCHANGED <<authorityVars, decision, logged>>
    <3>1. run' = run /\ decision' = decision
      BY <2>2 DEF authorityVars
    <3> QED BY <1>c, <2>1, <3>1, QuietStep
  <2>3. CASE RequestRunCancel /\ decision' = DecisionClosed
    <3>1. run.state \notin Terminal /\ run'.state = "cancel_requested"
      BY <2>3 DEF RequestRunCancel, SetRun
    <3>2. decision' # "open"
      BY <2>3 DEF DecisionClosed
    <3>3. task'[o].at \notin {"driver", "doomed", "commit"} \/ task'[o] = task[o]
      BY <1>c, <2>1
    <3>4. BlockFacts(o)'
      BY <2>1, <3>1, <3>2, <3>3 DEF OneKernelFacts, BlockFacts, BlockedOn
    <3>5. DriveFacts(o)' /\ GoalFacts(o)' /\ OpenDecisionIsAwaited'
      BY <1>n, <2>1, <3>1, <3>2, <3>3 DEF DriveFacts, GoalFacts, OpenDecisionIsAwaited, Terminal
    <3> QED BY <3>1, <3>4, <3>5 DEF OneKernelStep, OneKernelFacts
  <2> QED BY <1>6, <2>2, <2>3 DEF CancelRun
<1>7. ASSUME NEW allow \in BOOLEAN, DecideAuthorization(o, allow) PROVE OneKernelStep(o)
  <2>1. /\ decision = "open" /\ decision' # "open" /\ UNCHANGED <<task, goal, blocker>>
        /\ goal[o] = NoGoal /\ run.state = "waiting"
    BY <1>7 DEF DecideAuthorization, CommitDecisionResolved, Free
  <2>2. \A k \in Attempts : ~BlockedOn(k)
    BY <2>1 DEF OneKernelFacts, BlockFacts
  <2>3. task[o].at \notin {"driver", "doomed", "commit"}
    BY <2>1 DEF OneKernelFacts, DriveFacts
  <2>4. DriveFacts(o)' /\ GoalFacts(o)' /\ BlockFacts(o)' /\ OpenDecisionIsAwaited'
    BY <1>n, <2>1, <2>2, <2>3 DEF DriveFacts, GoalFacts, BlockFacts, BlockedOn, OpenDecisionIsAwaited
  <2>5. run.state \notin Terminal
    BY <2>1 DEF Terminal
  <2> QED BY <2>4, <2>5 DEF OneKernelStep, OneKernelFacts
<1>8. ASSUME NEW k \in Attempts, DrainResolvedWait(o, k) PROVE OneKernelStep(o)
  <2>1. /\ blocker[k] = "resolved" /\ blocker' = [blocker EXCEPT ![k] = "consumed"]
        /\ UNCHANGED <<task, decision>> /\ run.state = "waiting"
        /\ goal' = [goal EXCEPT ![o] = [kind |-> "drain", state |-> run'.state, seen |-> run'.version]]
    BY <1>8 DEF DrainResolvedWait, ConsumeResolvedWait
  <2>r. run'.state = "running"
    BY <1>8 DEF DrainResolvedWait, ConsumeResolvedWait, SetRun
  <2>2. BlockedOn(k) /\ decision # "open" /\ \A j \in Attempts : BlockedOn(j) => j = k
    BY <2>1 DEF OneKernelFacts, BlockFacts, BlockedOn
  <2>3. \A j \in Attempts : ~BlockedOn(j)'
    BY <1>t, <2>1, <2>2 DEF BlockedOn, Records, DurableTypes
  <2>4. goal'[o] = [kind |-> "drain", state |-> run'.state, seen |-> run'.version]
    BY <1>t, <2>1 DEF LocalTypes
  <2>5. GoalFacts(o)'
    BY <2>4 DEF GoalFacts, ForCancel
  <2>6. DriveFacts(o)' /\ BlockFacts(o)' /\ OpenDecisionIsAwaited'
    BY <2>1, <2>r, <2>2, <2>3 DEF DriveFacts, BlockFacts, OpenDecisionIsAwaited, Terminal
  <2>7. run.state \notin Terminal
    BY <2>1 DEF Terminal
  <2> QED BY <2>5, <2>6, <2>7 DEF OneKernelStep, OneKernelFacts
<1>9. CASE WakeTask(o) \/ DrainPendingWake(o)
  <2>1. Free(o) /\ UNCHANGED <<decision, blocker>> /\ goal[o] = NoGoal
    BY <1>9 DEF WakeTask, DrainPendingWake, durableVars, Free
  <2>2. CASE ClaimFor(o, "wake") /\ UNCHANGED task
    BY <2>1, <2>2, ClaimForOne
  <2>3. CASE UNCHANGED <<authorityVars, goal, task>>
    <3>1. run' = run /\ goal' = goal
      BY <2>3 DEF authorityVars
    <3> QED BY <2>1, <2>3, <3>1, QuietStep
  <2>4. CASE Schedule(o, run.state, TRUE) /\ UNCHANGED <<authorityVars, goal>>
    <3>1. run' = run /\ goal' = goal
      BY <2>4 DEF authorityVars
    <3>2. task'[o] = task[o] \/ task'[o].at = "ready"
      BY <1>t, <2>4, ScheduleStep
    <3> QED BY <2>1, <3>1, <3>2, QuietStep
  <2> QED BY <1>9, <2>2, <2>3, <2>4 DEF WakeTask, DrainPendingWake, WakeContinuation
<1> QED BY <1>1, <1>2, <1>3, <1>4, <1>5, <1>6, <1>7, <1>8, <1>9 DEF KernelLifeStep

\* The steps of the world: time passes, and calls are reconciled.
LEMMA WorldOne ==
    ASSUME LifecycleIInv, NEW o \in Owners, OneKernelFacts(o), WorldStep \/ UNCHANGED lifecycleVars
    PROVE  OneKernelStep(o)
<1>1. run' = run /\ decision' = decision /\ task' = task /\ goal' = goal
  BY DEF WorldStep, Reconcile, Stall, LateActivation, Lapse, Tick, localVars, durableVars,
         lifecycleVars, authorityVars
<1>2. \A k \in Attempts : BlockedOn(k)' <=> BlockedOn(k)
  <2>1. CASE blocker' = blocker
    BY <2>1 DEF BlockedOn
  <2>2. ASSUME NEW k \in Attempts, Reconcile(k) PROVE \A j \in Attempts : BlockedOn(j)' <=> BlockedOn(j)
    BY <2>2 DEF Reconcile, BlockedOn, LifecycleIInv, DurableTypes
  <2>3. (\E k \in Attempts : Reconcile(k)) \/ blocker' = blocker
    BY DEF WorldStep, Stall, LateActivation, Lapse, durableVars, lifecycleVars
  <2> QED BY <2>1, <2>2, <2>3
<1> QED BY <1>1, <1>2 DEF OneKernelStep, OneKernelFacts, DriveFacts, GoalFacts, BlockFacts,
                           OpenDecisionIsAwaited

\* The inductive invariant of one kernel.
OneKernelInv == OneKernel /\ LifecycleIInv /\ \A o \in Owners : OneKernelFacts(o)

LEMMA OneKernelInit == OneKernel /\ LifecycleInit => OneKernelInv
BY LifecycleIInvInit
   DEF OneKernelInv, LifecycleInit, Init, OneKernelFacts, DriveFacts, GoalFacts, BlockFacts, BlockedOn,
       OpenDecisionIsAwaited, NoTask, NoGoal, ForCancel, Terminal

LEMMA OneKernelNext ==
    ASSUME OneKernelInv, [LifecycleNext]_lifecycleVars
    PROVE  OneKernelInv' /\ (run.state \in Terminal => run' = run)
<1>1. LifecycleIInv'
  BY LifecycleIInvStep DEF OneKernelInv
<1>2. Before
  BY <1>1 DEF Before, LifecycleIInv, OneKernelInv
<1>3. ASSUME NEW o \in Owners PROVE OneKernelStep(o)
  <2>1. OneKernelFacts(o) /\ LifecycleIInv
    BY DEF OneKernelInv
  <2>2. ASSUME NEW p \in Owners, KernelLifeStep(p) PROVE OneKernelStep(o)
    <3>1. p = o
      BY DEF OneKernelInv, OneKernel
    <3>2. LocalStep(o)
      BY <1>2, <2>2, <3>1, KernelLifeLocal
    <3> QED BY <1>2, <2>1, <2>2, <3>1, <3>2, SectionOne, DriveOne, OtherOne
  <2>3. (\E p \in Owners : KernelLifeStep(p)) \/ WorldStep \/ UNCHANGED lifecycleVars
    BY DEF LifecycleNext, KernelLifeStep, WorldStep
  <2> QED BY <2>1, <2>2, <2>3, WorldOne
<1>4. OneKernelInv'
  BY <1>1, <1>3 DEF OneKernelInv, OneKernelStep, OneKernel
<1>5. \E o : o \in Owners
  BY DEF OneKernelInv, OneKernel
<1> QED BY <1>3, <1>4, <1>5 DEF OneKernelStep

\* With one kernel an open decision is one the Run waits for: no wake, cancellation
\* or late result of the kernel's own takes the Run out of the wait and leaves the
\* decision open.
THEOREM OpenDecision == OneKernel => (LifecycleSpec => []OpenDecisionIsAwaited)
<1>1. OneKernelInv => OpenDecisionIsAwaited
  BY DEF OneKernelInv, OneKernel, OneKernelFacts
<1>2. OneKernelInv /\ [LifecycleNext]_lifecycleVars => OneKernelInv'
  BY OneKernelNext
<1> QED BY <1>1, <1>2, OneKernelInit, PTL DEF LifecycleSpec


-----------------------------------------------------------------------------
(* What has ended stays ended.                                             *)

\* A kernel writes the row of a Run that has ended only to open a decision.
LEMMA EndedKept ==
    ASSUME NEW o \in Owners, AuthorityStepOf(o), run.state \in Terminal
    PROVE  run' = run
BY DEF AuthorityStepOf, KernelStep, ClaimRuntimeActivation, ConsumeResolvedWait, AcquireFence,
       AcquireConflict, RenewLease, HeartbeatLost, RetireDone, AbandonRunAuthority, BeginRelease,
       ReleaseRuntimeLease, CommitRootTerminal, CommitRuntimeState, Crash, Terminal, authorityVars

\* No step but the opening of a decision writes the row of a Run that has ended.
LEMMA EndedUnlessDecision ==
    ASSUME [LifecycleNext]_lifecycleVars, run.state \in Terminal,
           ~\E o \in Owners : CommitDrive(o) /\ CommitAuthorizationWait(o)
    PROVE  run' = run
<1>t. run.state \notin {"waiting"}
  BY DEF Terminal
<1>1. ASSUME NEW o \in Owners, SectionStep(o) PROVE run' = run
  <2>1. ASSUME CommitDrive(o) PROVE AuthorityStepOf(o)
    <3>2. ~CommitAuthorizationWait(o)
      BY <2>1
    <3>3. CASE CommitWaiting(o) \/ CommitUnknownWait(o)
      BY <3>3 DEF CommitWaiting, CommitUnknownWait, AuthorityStepOf, KernelStep
    <3>4. CASE CommitTerminal(o)
      BY <3>4, CloseRunStep DEF CommitTerminal
    <3> QED BY <2>1, <3>2, <3>3, <3>4 DEF CommitDrive
  <2>2. ASSUME ~CommitDrive(o) PROVE AuthorityStepOf(o)
    <3>1. "cancelled" \in Terminal
      BY DEF Terminal
    <3>2. CloseRun(o, "cancelled", goal[o].seen) => AuthorityStepOf(o)
      BY <3>1, CloseRunStep
    <3> QED BY <1>1, <2>2, <3>2 DEF SectionStep, Dispatch, Acquired, AcquireRefused, ReleaseLease,
               StartupFails, ProcessEnds, EndDrive, AuthorityStepOf, KernelStep
  <2> QED BY <2>1, <2>2, EndedKept
<1>2. ASSUME NEW o \in Owners, DriverStep(o) \/ BeginDrive(o) PROVE run' = run
  BY <1>2 DEF DriverStep, DriverCancelled, DriverReturns, BeginDrive, authorityVars
<1>3. ASSUME NEW o \in Owners, LoseLease(o) \/ Retire(o) \/ Renew(o) \/ CrashKernel(o)
      PROVE  run' = run
  <2>1. AuthorityStepOf(o)
    BY <1>3 DEF LoseLease, Retire, Renew, CrashKernel, ProcessEnds, AuthorityStepOf, KernelStep
  <2> QED BY <2>1, EndedKept
<1>4. ASSUME NEW o \in Owners,
             \/ Recover(o) \/ WakeTask(o) \/ DrainPendingWake(o) \/ CancelJoined(o)
             \/ \E k \in Attempts : DrainResolvedWait(o, k)
      PROVE  run' = run
  BY <1>4, EndedKept, ActivationStep
<1>5. ASSUME NEW o \in Owners, CancelRun(o) PROVE run' = run
  BY <1>5 DEF CancelRun, RequestRunCancel, authorityVars
<1>6. ASSUME NEW o \in Owners, NEW allow \in BOOLEAN, DecideAuthorization(o, allow) PROVE run' = run
  BY <1>6, <1>t DEF DecideAuthorization, CommitDecisionResolved
<1>7. ASSUME WorldStep \/ UNCHANGED lifecycleVars PROVE run' = run
  BY <1>7 DEF WorldStep, Stall, LateActivation, Lapse, Reconcile, Tick, lifecycleVars, authorityVars
<1> QED BY <1>1, <1>2, <1>3, <1>4, <1>5, <1>6, <1>7 DEF LifecycleNext, WorldStep

\* A lifecycle in which no driver asks for an authorization.
NoDecisions == "authorize" \notin DriverResults /\ LifecycleIInv

LEMMA EndedStep ==
    ASSUME NoDecisions, [LifecycleNext]_lifecycleVars, run.state \in Terminal
    PROVE  run' = run
<1>1. ASSUME NEW o \in Owners PROVE ~CommitAuthorizationWait(o)
  <2>1. task[o].result \in {"none", "cancelled"} \cup DriverResults
    BY DEF NoDecisions, LifecycleIInv, LocalTypes, TaskRows
  <2> QED BY <2>1 DEF CommitAuthorizationWait, NoDecisions
<1> QED BY <1>1, EndedUnlessDecision

\* The states from which no decision can revive the Run, being neither ended nor left to wait.
Driven == run.state \notin Terminal \cup {"waiting"}

\* A drive that still has the lease it began with has a Run that is driven, and an
\* authorization is asked for only by a drive that has it.
PunctualFacts(o) ==
    /\ task[o].lease <= lease.epoch
    /\ task[o].at \in {"driver", "doomed", "commit"} /\ RequireRuntimeLease(o, task[o].lease) => Driven
    /\ task[o].at = "commit" /\ task[o].result = "authorize" => RequireRuntimeLease(o, task[o].lease)
    /\ ForCancel(goal[o]) => task[o].at = "none"

\* What the kernel's own steps do, other than those of a driver: they end the drive or
\* leave it and the Run it is driven for.
OwnStep(o) ==
    /\ \/ task'[o].at \in {"none", "ready", "finally"} /\ task'[o].lease \in {0, task[o].lease}
       \/ /\ task'[o] = task[o] /\ task[o].at # "commit"
          /\ run' = run \/ run'.state \in {"running", "cancel_requested"} \/ run.state = "waiting"
    /\ ForCancel(goal'[o]) => task'[o].at = "none"

\* The claim of an activation starts a Run or leaves it as it is.
LEMMA ClaimForRun ==
    ASSUME NEW o, NEW kind, ClaimFor(o, kind)
    PROVE  run' = run \/ run'.state = "running"
<1>1. run' = run \/ SetRun("running")
  BY DEF ClaimFor, ClaimRuntimeActivation
<1> QED BY <1>1 DEF SetRun

LEMMA SectionOwn ==
    ASSUME Before, NEW o \in Owners, PunctualFacts(o), SectionStep(o)
    PROVE  OwnStep(o)
<1>t. LocalTypes /\ SectionSound(o) /\ task[o] \in TaskRows
  BY DEF Before, LifecycleIInv, LocalTypes
<1>n. /\ ~ForCancel(NoGoal) /\ NoTask.at = "none" /\ NoTask.lease = 0
      /\ [NoTask EXCEPT !.at = "ready"].at = "ready" /\ [NoTask EXCEPT !.at = "ready"].lease = 0
  BY DEF NoGoal, NoTask, ForCancel
<1>1. CASE Acquired(o) \/ AcquireRefused(o)
  <2>1. run' = run /\ task' = task /\ pc[o] \in {"acquire", "acquireWake"}
        /\ (goal'[o] = goal[o] \/ goal'[o] = NoGoal)
    BY <1>1, <1>t DEF Acquired, AcquireRefused, AcquireFence, AcquireConflict, LocalTypes
  <2>2. task[o].at # "commit"
    BY <1>t, <2>1 DEF SectionSound
  <2> QED BY <1>n, <2>1, <2>2 DEF OwnStep, PunctualFacts
<1>2. CASE ReleaseLease(o)
  <2>1. run' = run /\ task' = task /\ pc[o] = "release" /\ goal' = goal
    BY <1>2 DEF ReleaseLease, ReleaseRuntimeLease
  <2>2. task[o].at # "commit"
    BY <1>t, <2>1 DEF SectionSound
  <2> QED BY <2>1, <2>2 DEF OwnStep, PunctualFacts
<1>3. CASE EndDrive(o) \/ StartupFails(o)
  <2>1. task'[o] = NoTask
    BY <1>3, <1>t DEF EndDrive, StartupFails, ProcessEnds, LocalTypes
  <2> QED BY <1>n, <2>1 DEF OwnStep
<1>4. CASE CommitDrive(o)
  <2>1. task[o].at = "commit" /\ goal' = goal /\ task' = [task EXCEPT ![o].at = "finally"]
    BY <1>4 DEF CommitDrive
  <2>2. task'[o].at = "finally" /\ task'[o].lease = task[o].lease
    BY <1>t, <2>1 DEF LocalTypes, TaskRows
  <2>3. goal[o] = NoGoal
    BY <1>t, <2>1 DEF SectionSound
  <2> QED BY <1>n, <2>1, <2>2, <2>3 DEF OwnStep
<1>5. CASE Dispatch(o)
  <2>1. goal'[o] = NoGoal /\ goal[o] # NoGoal
    BY <1>5, <1>t DEF Dispatch, LocalTypes
  <2>2. task[o].at # "commit"
    BY <1>t, <2>1 DEF SectionSound
  <2>3. CASE ForCancel(goal[o]) /\ UNCHANGED task
    BY <1>n, <1>t, <2>1, <2>3 DEF OwnStep, PunctualFacts
  <2>4. CASE ~ForCancel(goal[o]) /\ UNCHANGED authorityVars
    <3>1. task' = task \/ Schedule(o, run.state, heldLease[o] # 0)
      BY <1>5, <2>4 DEF Dispatch
    <3>2. task'[o] = task[o] \/ task'[o] = [NoTask EXCEPT !.at = "ready"]
      BY <1>t, <3>1 DEF Schedule, LocalTypes
    <3>3. run' = run
      BY <2>4 DEF authorityVars
    <3> QED BY <1>n, <2>1, <2>2, <3>2, <3>3 DEF OwnStep
  <2> QED BY <1>5, <2>3, <2>4 DEF Dispatch
<1> QED BY <1>1, <1>2, <1>3, <1>4, <1>5 DEF SectionStep

LEMMA KernelOwn ==
    ASSUME Before, NEW o \in Owners, PunctualFacts(o), KernelLifeStep(o),
           ~DriverStep(o), ~BeginDrive(o)
    PROVE  OwnStep(o)
<1>t. LocalTypes /\ SectionSound(o) /\ task[o] \in TaskRows
  BY DEF Before, LifecycleIInv, LocalTypes
<1>n. /\ ~ForCancel(NoGoal) /\ NoTask.at = "none" /\ NoTask.lease = 0
      /\ [NoTask EXCEPT !.at = "ready"].at = "ready" /\ [NoTask EXCEPT !.at = "ready"].lease = 0
  BY DEF NoGoal, NoTask, ForCancel
<1>c. ASSUME CancelTask(o) PROVE task'[o] = task[o] \/ task'[o] = NoTask
  BY <1>c, <1>t DEF CancelTask, LocalTypes
<1>1. CASE CrashKernel(o)
  <2>1. task'[o] = NoTask
    BY <1>1, <1>t DEF CrashKernel, ProcessEnds, LocalTypes
  <2> QED BY <1>n, <2>1 DEF OwnStep
<1>2. CASE Renew(o) \/ Retire(o)
  <2>1. Free(o) /\ run' = run /\ UNCHANGED <<task, goal>>
    BY <1>2 DEF Renew, RenewLease, Retire, RetireDone, localVars
  <2> QED BY <2>1 DEF OwnStep, PunctualFacts, Free
<1>3. CASE LoseLease(o) \/ CancelRun(o)
  <2>1. Free(o) /\ goal' = goal /\ CancelTask(o) /\ (run' = run \/ SetRun("cancel_requested"))
    BY <1>3 DEF LoseLease, HeartbeatLost, CancelRun, RequestRunCancel, authorityVars
  <2>2. run' = run \/ run'.state = "cancel_requested"
    BY <2>1 DEF SetRun
  <2>3. goal'[o] = NoGoal /\ task[o].at # "commit"
    BY <2>1 DEF Free
  <2> QED BY <1>c, <1>n, <2>1, <2>2, <2>3 DEF OwnStep
<1>4. CASE Recover(o) \/ CancelJoined(o)
  <2>1. task' = task /\ task[o].at = "none"
    BY <1>4 DEF Recover, CancelJoined, Active
  <2> QED BY <2>1, <1>t DEF OwnStep
<1>5. CASE WakeTask(o) \/ DrainPendingWake(o)
  <2>1. Free(o)
    BY <1>5 DEF WakeTask, DrainPendingWake
  <2>2. goal[o] = NoGoal /\ task[o].at # "commit"
    BY <2>1 DEF Free
  <2>3. CASE ClaimFor(o, "wake") /\ UNCHANGED task
    <3>1. goal'[o].kind = "wake"
      BY <2>3, ClaimForStep
    <3>2. ~ForCancel(goal'[o])
      BY <3>1 DEF ForCancel
    <3> QED BY <2>2, <2>3, <3>2, ClaimForRun DEF OwnStep
  <2>4. CASE UNCHANGED <<authorityVars, goal, task>>
    BY <1>n, <2>2, <2>4 DEF OwnStep, authorityVars
  <2>5. CASE Schedule(o, run.state, TRUE) /\ UNCHANGED <<authorityVars, goal>>
    <3>1. task'[o] = task[o] \/ task'[o] = [NoTask EXCEPT !.at = "ready"]
      BY <1>t, <2>5 DEF Schedule, LocalTypes
    <3> QED BY <1>n, <2>2, <2>5, <3>1 DEF OwnStep, authorityVars
  <2> QED BY <1>5, <2>3, <2>4, <2>5 DEF WakeTask, DrainPendingWake, WakeContinuation
<1>6. ASSUME NEW k \in Attempts, DrainResolvedWait(o, k) PROVE OwnStep(o)
  <2>1. Free(o) /\ task' = task /\ run.state = "waiting"
    BY <1>6 DEF DrainResolvedWait, ConsumeResolvedWait
  <2>2. goal'[o].kind = "drain"
    BY <1>6, <1>t DEF DrainResolvedWait, LocalTypes
  <2> QED BY <2>1, <2>2 DEF OwnStep, Free, ForCancel
<1>7. ASSUME NEW allow \in BOOLEAN, DecideAuthorization(o, allow) PROVE OwnStep(o)
  <2>1. Free(o) /\ task' = task /\ goal' = goal /\ run.state = "waiting"
    BY <1>7 DEF DecideAuthorization, CommitDecisionResolved
  <2> QED BY <2>1 DEF OwnStep, Free, PunctualFacts
<1> QED BY <1>1, <1>2, <1>3, <1>4, <1>5, <1>6, <1>7, SectionOwn DEF KernelLifeStep


\* No step gives a lease back that has been lost.
LEMMA LeaseNotRegained ==
    ASSUME AuthorityInv, [Next]_authorityVars
    PROVE  /\ lease.epoch <= lease'.epoch
           /\ \A o \in Owners, e \in Nat :
                  e <= lease.epoch /\ RequireRuntimeLease(o, e)' => RequireRuntimeLease(o, e)
<1>1. lease.epoch \in Nat /\ lease'.epoch \in Nat
  BY TypeStep DEF AuthorityInv, TypeOK
<1> QED BY <1>1, RowSteps DEF RequireRuntimeLease, Live

\* What one kernel does to the Run and the lease of another one that holds it: nothing,
\* save starting or cancelling the Run.
LEMMA OthersStep ==
    ASSUME LifecycleIInv, NEW o \in Owners, NEW p \in Owners, p # o, PunctualFacts(p),
           KernelLifeStep(p), NEW e, RequireRuntimeLease(o, e), Driven
    PROVE  lease' = lease /\ Driven'
<1>t. lease.owner = o /\ Live /\ ~RequireRuntimeLease(p, heldLease[p])
      /\ run.state # "waiting" /\ run.state \notin Terminal
  BY DEF RequireRuntimeLease, Driven
<1>k. ASSUME KernelStep(p) PROVE lease' = lease /\ (run' = run \/ run'.state = "running")
  BY <1>k, <1>t DEF KernelStep, ClaimRuntimeActivation, ConsumeResolvedWait, AcquireFence,
     AcquireConflict, RenewLease, HeartbeatLost, RetireDone, AbandonRunAuthority, BeginRelease,
     ReleaseRuntimeLease, CommitRootTerminal, CommitRuntimeState, HasAuthority, SetRun, kernelVars
<1>a. ASSUME AuthorityStepOf(p) PROVE lease' = lease /\ Driven'
  <2>1. lease' = lease /\ (run' = run \/ run'.state = "running")
    BY <1>a, <1>k DEF AuthorityStepOf, Crash, authorityVars
  <2> QED BY <1>t, <2>1 DEF Driven, Terminal
<1>1. CASE SectionStep(p)
  <2>1. ~CommitAuthorizationWait(p) \/ ~CommitDrive(p)
    <3>1. ~RequireRuntimeLease(p, task[p].lease)
      BY <1>t DEF RequireRuntimeLease
    <3> QED BY <3>1 DEF PunctualFacts, CommitAuthorizationWait, CommitDrive
  <2>2. ASSUME CommitDrive(p) PROVE AuthorityStepOf(p)
    <3>1. CASE CommitWaiting(p) \/ CommitUnknownWait(p)
      BY <3>1 DEF CommitWaiting, CommitUnknownWait, AuthorityStepOf, KernelStep
    <3>2. CASE CommitTerminal(p)
      BY <3>2, CloseRunStep DEF CommitTerminal
    <3> QED BY <2>1, <2>2, <3>1, <3>2 DEF CommitDrive
  <2>3. ASSUME ~CommitDrive(p) PROVE AuthorityStepOf(p)
    <3>1. "cancelled" \in Terminal
      BY DEF Terminal
    <3>2. CloseRun(p, "cancelled", goal[p].seen) => AuthorityStepOf(p)
      BY <3>1, CloseRunStep
    <3> QED BY <1>1, <2>3, <3>2 DEF SectionStep, Dispatch, Acquired, AcquireRefused, ReleaseLease,
               StartupFails, ProcessEnds, EndDrive, AuthorityStepOf, KernelStep
  <2> QED BY <1>a, <2>2, <2>3
<1>2. CASE DriverStep(p) \/ BeginDrive(p)
  <2>1. UNCHANGED authorityVars
    BY <1>2 DEF DriverStep, DriverCancelled, DriverReturns, BeginDrive
  <2> QED BY <1>a, <2>1 DEF AuthorityStepOf
<1>3. CASE LoseLease(p) \/ Retire(p) \/ Renew(p) \/ CrashKernel(p)
  <2>1. AuthorityStepOf(p)
    BY <1>3 DEF LoseLease, Retire, Renew, CrashKernel, ProcessEnds, AuthorityStepOf, KernelStep
  <2> QED BY <1>a, <2>1
<1>4. CASE \/ Recover(p) \/ WakeTask(p) \/ DrainPendingWake(p) \/ CancelJoined(p)
           \/ \E k \in Attempts : DrainResolvedWait(p, k)
  BY <1>4, <1>a, ActivationStep
<1>5. CASE CancelRun(p)
  <2>1. lease' = lease /\ (run' = run \/ run'.state = "cancel_requested")
    BY <1>5 DEF CancelRun, RequestRunCancel, SetRun, authorityVars
  <2> QED BY <1>t, <2>1 DEF Driven, Terminal
<1>6. ASSUME NEW allow \in BOOLEAN, DecideAuthorization(p, allow) PROVE FALSE
  BY <1>6, <1>t DEF DecideAuthorization, CommitDecisionResolved
<1> QED BY <1>1, <1>2, <1>3, <1>4, <1>5, <1>6 DEF KernelLifeStep

\* Time passes; the lease of a process inside a section stays.
LEMMA WorldPunctual ==
    ASSUME ~MayPause, LifecycleIInv, NEW o \in Owners, PunctualFacts(o), AuthorityInv,
           WorldStep \/ UNCHANGED lifecycleVars
    PROVE  PunctualFacts(o)'
<1>s. SectionSound(o)
  BY DEF LifecycleIInv
<1>1. UNCHANGED <<run, task, goal, pc>> /\ lease'.epoch = lease.epoch /\ lease'.owner = lease.owner
  BY DEF WorldStep, Reconcile, Stall, LateActivation, Lapse, Tick, localVars, durableVars,
         lifecycleVars, authorityVars, AuthorityInv, TypeOK
<1>2. RequireRuntimeLease(o, task[o].lease)' => RequireRuntimeLease(o, task[o].lease)
  <2>1. Live' => Live
    BY DEF WorldStep, Reconcile, Stall, LateActivation, Lapse, Tick, lifecycleVars, authorityVars, Live
  <2> QED BY <1>1, <2>1 DEF RequireRuntimeLease
<1>3. ASSUME task[o].at = "commit", RequireRuntimeLease(o, task[o].lease)
      PROVE  RequireRuntimeLease(o, task[o].lease)'
  <2>1. lease.owner = o /\ ~Free(o) /\ pc[o] = "idle"
    BY <1>3, <1>s DEF RequireRuntimeLease, Free, SectionSound
  <2>2. ~HolderAtRest
    BY <2>1 DEF HolderAtRest
  <2>3. ~Activating
    BY <2>1 DEF Activating, RequireRuntimeLease
  <2>4. ~Stall /\ ~Lapse /\ ~LateActivation
    BY <2>2, <2>3 DEF Stall, Lapse, LateActivation
  <2>5. lease' = lease
    BY <2>4 DEF WorldStep, Reconcile, lifecycleVars, authorityVars
  <2> QED BY <1>1, <1>3, <2>5 DEF RequireRuntimeLease, Live
<1> QED BY <1>1, <1>2, <1>3 DEF PunctualFacts, Driven, ForCancel

\* The drive task up to its commit: it begins, and returns, under its lease.
LEMMA DrivePunctual ==
    ASSUME LifecycleIInv, NEW o \in Owners, PunctualFacts(o), DriverStep(o) \/ BeginDrive(o)
    PROVE  PunctualFacts(o)'
<1>t. LocalTypes /\ task[o] \in TaskRows /\ goal[o] = NoGoal /\ ~ForCancel(NoGoal)
  BY DEF LifecycleIInv, LocalTypes, DriverStep, BeginDrive, DriverCancelled, DriverReturns,
         Free, ForCancel, NoGoal
<1>k. UNCHANGED <<run, lease, goal>>
  BY DEF DriverStep, BeginDrive, DriverCancelled, DriverReturns, authorityVars
<1>a. ASSUME NEW u, task' = [task EXCEPT ![o] = u], u.lease <= lease.epoch,
             u.at \in {"driver", "doomed", "commit"} /\ RequireRuntimeLease(o, u.lease) => Driven,
             u.at = "commit" /\ u.result = "authorize" => RequireRuntimeLease(o, u.lease)
      PROVE  PunctualFacts(o)'
  <2>1. task'[o] = u
    BY <1>t, <1>a DEF LocalTypes
  <2> QED BY <1>a, <1>k, <1>t, <2>1 DEF PunctualFacts, Driven, RequireRuntimeLease, Live
<1> DEFINE Cancelled == [task[o] EXCEPT !.at = "commit", !.result = "cancelled", !.seen = run.version]
           Over == [task[o] EXCEPT !.at = "finally"]
<1>b. /\ Cancelled.result = "cancelled" /\ Cancelled.at = "commit" /\ Cancelled.lease = task[o].lease
      /\ Over.at = "finally" /\ Over.lease = task[o].lease
  BY <1>t DEF TaskRows
<1>e. task[o].lease <= lease.epoch
  BY DEF PunctualFacts
<1>1. CASE BeginDrive(o)
  <2> DEFINE Begun == [task[o] EXCEPT !.at = IF token[o] = "cancelled" THEN "doomed" ELSE "driver",
                                      !.attempt = IF LatestUnresolved THEN attempts ELSE 0,
                                      !.lease = heldLease[o]]
             Goes == IF run.state \in Terminal THEN NoTask
                     ELSE IF ~RequireRuntimeLease(o, heldLease[o]) THEN Over
                     ELSE IF run.state = "cancel_requested" THEN Cancelled
                     ELSE IF run.state = "waiting" \/ heldFence[o] = NoFence
                     THEN Over ELSE Begun
  <2>1. task' = [task EXCEPT ![o] = Goes]
    BY <1>1 DEF BeginDrive
  <2>2. Begun.at \in {"doomed", "driver"} /\ Begun.lease = heldLease[o]
    BY <1>t DEF TaskRows
  <2> HIDE DEF Begun, Cancelled, Over
  <2>3. \/ Goes = NoTask
        \/ Goes = Cancelled /\ run.state = "cancel_requested"
        \/ Goes = Over
        \/ Goes = Begun /\ Driven /\ RequireRuntimeLease(o, heldLease[o])
    BY DEF Driven
  <2>4. NoTask.at = "none" /\ NoTask.lease = 0 /\ 0 <= lease.epoch
    BY DEF NoTask, LifecycleIInv, TypeOK
  <2>5. RequireRuntimeLease(o, heldLease[o]) => heldLease[o] <= lease.epoch
    BY DEF RequireRuntimeLease, LifecycleIInv, TypeOK
  <2>6. run.state = "cancel_requested" => Driven
    BY DEF Driven, Terminal
  <2> HIDE DEF Goes
  <2> QED BY <1>a, <1>b, <1>e, <2>1, <2>2, <2>3, <2>4, <2>5, <2>6
<1>2. CASE DriverCancelled(o)
  <2>1. \/ task' = [task EXCEPT ![o] = Cancelled] /\ run.state = "cancel_requested"
        \/ task' = [task EXCEPT ![o] = Over]
    BY <1>2 DEF DriverCancelled
  <2>2. run.state = "cancel_requested" => Driven
    BY DEF Driven, Terminal
  <2> HIDE DEF Cancelled, Over
  <2> QED BY <1>a, <1>b, <1>e, <2>1, <2>2
<1>3. ASSUME NEW r \in DriverResults, DriverReturns(o, r) PROVE PunctualFacts(o)'
  <2>1. PICK k : task' = [task EXCEPT ![o] = Returned(o, r, k)]
    BY <1>3 DEF DriverReturns, Returned
  <2>2. task[o].at = "driver"
    BY <1>3 DEF DriverReturns
  <2>3. /\ Returned(o, r, k).at = IF ReturnAccepted(o, r) THEN "commit" ELSE "finally"
        /\ Returned(o, r, k).lease = task[o].lease /\ Returned(o, r, k).result = r
    BY DEF Returned
  <2>4. RequireRuntimeLease(o, task[o].lease) => Driven
    BY <2>2 DEF PunctualFacts
  <2>5. ReturnAccepted(o, r) /\ r = "authorize" => RequireRuntimeLease(o, task[o].lease)
    BY DEF ReturnAccepted
  <2> QED BY <1>a, <1>e, <2>1, <2>3, <2>4, <2>5
<1> QED BY <1>1, <1>2, <1>3 DEF DriverStep

\* The inductive invariant of kernels that are not suspended inside a section.
PunctualInv == ~MayPause /\ AuthorityInv /\ LifecycleIInv /\ \A o \in Owners : PunctualFacts(o)

LEMMA PunctualInit == ~MayPause /\ LifecycleInit => PunctualInv
BY LifecycleIInvInit, AuthorityInit
   DEF PunctualInv, LifecycleInit, Init, PunctualFacts, NoTask, NoGoal, ForCancel

LEMMA PunctualNext ==
    ASSUME PunctualInv, [LifecycleNext]_lifecycleVars
    PROVE  PunctualInv'
<1>1. AuthorityInv /\ LifecycleIInv /\ [Next]_authorityVars /\ AuthorityInv' /\ LifecycleIInv' /\ ~MayPause
  BY LifecycleStep, AuthorityStep, LifecycleIInvStep DEF PunctualInv
<1>2. Before
  BY <1>1 DEF Before, LifecycleIInv
<1>3. ASSUME NEW o \in Owners PROVE PunctualFacts(o)'
  <2>0. PunctualFacts(o) /\ task[o].lease \in Nat /\ lease.epoch \in Nat /\ lease'.epoch \in Nat
    BY <1>1 DEF PunctualInv, LifecycleIInv, LocalTypes, TaskRows, TypeOK
  <2>l. /\ lease.epoch <= lease'.epoch
        /\ RequireRuntimeLease(o, task[o].lease)' /\ task'[o].lease = task[o].lease =>
              RequireRuntimeLease(o, task[o].lease)
    BY <1>1, <2>0, LeaseNotRegained DEF PunctualFacts, RequireRuntimeLease
  <2>1. ASSUME KernelLifeStep(o), ~DriverStep(o), ~BeginDrive(o) PROVE PunctualFacts(o)'
    <3>1. OwnStep(o)
      BY <1>2, <2>0, <2>1, KernelOwn
    <3>2. CASE task'[o].at \in {"none", "ready", "finally"} /\ task'[o].lease \in {0, task[o].lease}
      BY <2>0, <2>l, <3>1, <3>2 DEF OwnStep, PunctualFacts
    <3>3. CASE /\ task'[o] = task[o] /\ task[o].at # "commit"
               /\ run' = run \/ run'.state \in {"running", "cancel_requested"} \/ run.state = "waiting"
      <4>1. task[o].at \in {"driver", "doomed"} /\ RequireRuntimeLease(o, task[o].lease)' => Driven'
        BY <2>0, <2>l, <3>3 DEF PunctualFacts, Driven, Terminal, RequireRuntimeLease
      <4> QED BY <2>0, <2>l, <3>1, <3>3, <4>1 DEF OwnStep, PunctualFacts
    <3> QED BY <3>1, <3>2, <3>3 DEF OwnStep
  <2>2. ASSUME NEW p \in Owners, p # o, KernelLifeStep(p) PROVE PunctualFacts(o)'
    <3>1. task'[o] = task[o] /\ goal'[o] = goal[o]
      BY <1>2, <2>2, KernelLifeLocal DEF LocalStep
    <3>2. PunctualFacts(p)
      BY DEF PunctualInv
    <3>3. ASSUME task[o].at \in {"driver", "doomed", "commit"}, RequireRuntimeLease(o, task[o].lease)
          PROVE  lease' = lease /\ Driven'
      <4>1. Driven
        BY <2>0, <3>3 DEF PunctualFacts
      <4> QED BY <1>1, <2>2, <3>2, <3>3, <4>1, OthersStep
    <3>4. RequireRuntimeLease(o, task[o].lease)' => RequireRuntimeLease(o, task[o].lease)
      BY <2>l, <3>1 DEF RequireRuntimeLease
    <3>5. task[o].at \in {"driver", "doomed", "commit"} /\ RequireRuntimeLease(o, task[o].lease)
          => RequireRuntimeLease(o, task[o].lease)'
      BY <3>1, <3>3 DEF RequireRuntimeLease, Live
    <3>6. ForCancel(goal'[o]) <=> ForCancel(goal[o])
      BY <3>1 DEF ForCancel
    <3> QED BY <2>0, <2>l, <3>1, <3>3, <3>4, <3>5, <3>6 DEF PunctualFacts
  <2>3. (\E p \in Owners : KernelLifeStep(p)) \/ WorldStep \/ UNCHANGED lifecycleVars
    BY DEF LifecycleNext, KernelLifeStep, WorldStep
  <2> QED BY <1>1, <2>0, <2>1, <2>2, <2>3, DrivePunctual, WorldPunctual
<1> QED BY <1>1, <1>3 DEF PunctualInv

\* A decision is opened only for a Run that is driven.
LEMMA PunctualEnded ==
    ASSUME PunctualInv, [LifecycleNext]_lifecycleVars, run.state \in Terminal
    PROVE  run' = run
<1>1. ASSUME NEW o \in Owners, CommitDrive(o), CommitAuthorizationWait(o) PROVE FALSE
  <2>1. task[o].at = "commit" /\ task[o].result = "authorize" /\ PunctualFacts(o)
    BY <1>1 DEF CommitDrive, CommitAuthorizationWait, PunctualInv
  <2> QED BY <2>1 DEF PunctualFacts, Driven
<1> QED BY <1>1, EndedUnlessDecision

\* A Run that has ended never changes again: with one kernel, or with any number of
\* them as long as no driver asks for an authorization or no process is suspended
\* between the record of its driver's return and the transaction that opens the
\* decision, which asks for no lease.
THEOREM EndedRunStays ==
    OneKernel \/ "authorize" \notin DriverResults \/ ~MayPause => (LifecycleSpec => TerminalIsFinal)
<1>1. OneKernel => (LifecycleSpec => TerminalIsFinal)
  <2>1. OneKernelInv /\ [LifecycleNext]_lifecycleVars =>
            OneKernelInv' /\ [run.state \in Terminal => run' = run]_lifecycleVars
    BY OneKernelNext
  <2> QED BY <2>1, OneKernelInit, PTL DEF LifecycleSpec, TerminalIsFinal
<1>2. "authorize" \notin DriverResults => (LifecycleSpec => TerminalIsFinal)
  <2>1. "authorize" \notin DriverResults /\ LifecycleInit => NoDecisions
    BY LifecycleIInvInit DEF NoDecisions
  <2>2. NoDecisions /\ [LifecycleNext]_lifecycleVars =>
            NoDecisions' /\ [run.state \in Terminal => run' = run]_lifecycleVars
    BY LifecycleIInvStep, EndedStep DEF NoDecisions
  <2> QED BY <2>1, <2>2, PTL DEF LifecycleSpec, TerminalIsFinal
<1>3. ~MayPause => (LifecycleSpec => TerminalIsFinal)
  <2>1. PunctualInv /\ [LifecycleNext]_lifecycleVars =>
            PunctualInv' /\ [run.state \in Terminal => run' = run]_lifecycleVars
    BY PunctualNext, PunctualEnded
  <2> QED BY <2>1, PunctualInit, PTL DEF LifecycleSpec, TerminalIsFinal
<1> QED BY <1>1, <1>2, <1>3

-----------------------------------------------------------------------------
(* What is cancelled ends.                                                 *)

\* The calls of the driver do not end unknown.
NoUnknown == "unknown" \notin DriverResults

\* A driver has a token to cancel it by, and is cancelled once the Run is to be; the
\* fence comes with the token and goes with it.
CancelFacts(o) ==
    /\ attempts = 0
    /\ task[o].at = "driver" => token[o] # "none"
    /\ task[o].at = "finally" /\ run.state \in Terminal => heldFence[o] = NoFence
    /\ run.state = "cancel_requested" =>
          /\ task[o].at = "driver" => token[o] = "cancelled"
          /\ task[o].at = "commit" => task[o].result = "cancelled"
    /\ heldFence[o] # NoFence => token[o] # "none"
    /\ IsRetiring(o) => heldFence[o] = NoFence \/ heldFence[o].epoch = retiring[o].fence
    /\ pc[o] = "release" => heldFence[o] = NoFence /\ task[o].at = "none"
    /\ pc[o] = "acquire" => ~IsRetiring(o)
    /\ pc[o] # "acquireWake"

\* The cancellation is not taken back.
NotTakenBack == run.state = "cancel_requested" => run'.state \in {"cancel_requested"} \cup Terminal

CancelKept(o) == CancelFacts(o)' /\ NotTakenBack

\* A step that leaves token and retirement alone, begins no drive and ends none.
LEMMA CancelQuiet ==
    ASSUME NEW o \in Owners, CancelFacts(o), attempts' = attempts, NotTakenBack,
           retiring'[o] = retiring[o], token'[o] = token[o],
           heldFence'[o] = heldFence[o] \/ heldFence'[o] = NoFence,
           pc'[o] = pc[o] \/ pc'[o] = "idle" \/ (pc'[o] = "acquire" /\ ~IsRetiring(o)),
           \/ task'[o] = task[o] \/ task'[o].at = "none"
           \/ task'[o].at = "ready" /\ pc'[o] # "release",
           \/ run' = run
           \/ task'[o].at \notin {"driver", "commit", "finally"}
           \/ task'[o] = task[o] /\ run'.state \notin Terminal \cup {"cancel_requested"}
    PROVE  CancelKept(o)
BY DEF CancelKept, CancelFacts, IsRetiring, Terminal

\* The claim of an activation.
LEMMA ClaimForCancel ==
    ASSUME Before, NEW o \in Owners, CancelFacts(o), NEW kind \in {"startup", "recover", "wake", "cancel"},
           ClaimFor(o, kind), UNCHANGED <<attempts, task, token>>
    PROVE  CancelKept(o)
<1>1. run' = run \/ (run.state \in {"created", "queued"} /\ SetRun("running"))
  BY DEF ClaimFor, ClaimRuntimeActivation
<1>2. run' = run \/ (run.state \in {"created", "queued"} /\ run'.state = "running")
  BY <1>1 DEF SetRun
<1>3. ~IsRetiring(o) /\ UNCHANGED <<retiring, heldFence>> /\ pc'[o] = "acquire"
  BY ClaimForStep DEF ClaimFor, ClaimRuntimeActivation
<1>4. NotTakenBack
  BY <1>2 DEF NotTakenBack
<1> QED BY <1>2, <1>3, <1>4, CancelQuiet DEF Terminal

\* The sections.
LEMMA SectionCancel ==
    ASSUME Before, NoUnknown, NEW o \in Owners, OneKernelFacts(o), CancelFacts(o), SectionStep(o),
           TypeOK
    PROVE  CancelKept(o)
<1>t. LocalTypes /\ SectionSound(o)
  BY DEF Before, LifecycleIInv
<1>1. CASE Acquired(o)
  <2>1. /\ pc[o] \in {"acquire", "acquireWake"} /\ pc'[o] = "idle" /\ run' = run
        /\ UNCHANGED <<retiring, task, attempts>>
    BY <1>1 DEF Acquired, AcquireFence, durableVars, TypeOK
  <2>2. token'[o] = IF token[o] # "none" /\ (goal[o].kind = "drain" \/ heldLease[o] = claimed[o])
                    THEN token[o]
                    ELSE IF goal[o].kind # "drain" /\ goal[o].state = "cancel_requested"
                    THEN "cancelled" ELSE "clear"
    BY <1>1, <1>t DEF Acquired, LocalTypes
  <2>3. goal[o] # NoGoal /\ pc[o] = "acquire"
    BY <1>t, <2>1 DEF SectionSound, CancelFacts
  <2>4. goal[o].state = run.state
    BY <2>3 DEF OneKernelFacts, GoalFacts
  <2>5. task[o].at \notin {"commit", "finally"} /\ ~IsRetiring(o) /\ ~IsRetiring(o)'
    BY <1>t, <2>1, <2>3 DEF SectionSound, CancelFacts, IsRetiring
  <2>6. token'[o] # "none"
    BY <2>2
  <2>7. run.state = "cancel_requested" /\ task[o].at = "driver" => token'[o] = "cancelled"
    BY <2>2, <2>4 DEF CancelFacts
  <2> QED BY <2>1, <2>5, <2>6, <2>7 DEF CancelKept, CancelFacts, NotTakenBack
<1>2. CASE AcquireRefused(o)
  <2>1. pc'[o] = "idle" /\ run' = run /\ UNCHANGED <<retiring, token, task, attempts, heldFence>>
    BY <1>2 DEF AcquireRefused, AcquireConflict, durableVars, TypeOK
  <2> QED BY <2>1, CancelQuiet DEF NotTakenBack
<1>3. CASE ReleaseLease(o)
  <2>1. /\ pc[o] = "release" /\ pc'[o] = "idle" /\ run' = run /\ UNCHANGED <<task, attempts, heldFence>>
        /\ retiring'[o] = NotRetiring
    BY <1>3 DEF ReleaseLease, ReleaseRuntimeLease, durableVars, TypeOK
  <2>2. heldFence[o] = NoFence /\ task[o].at = "none"
    BY <2>1 DEF CancelFacts
  <2> QED BY <2>1, <2>2 DEF CancelKept, CancelFacts, NotTakenBack, IsRetiring
<1>4. CASE EndDrive(o)
  <2>1. /\ pc[o] = "idle" /\ task[o].at = "finally" /\ run' = run
        /\ UNCHANGED <<attempts, heldFence, retiring, token>>
        /\ task'[o] = NoTask
        /\ pc'[o] = "idle" \/ (run.state \in Terminal /\ pc'[o] = "release")
    BY <1>4, <1>t DEF EndDrive, BeginRelease, durableVars, authorityVars, TypeOK, LocalTypes
  <2>2. task'[o].at = "none"
    BY <2>1, TaskRowFacts
  <2> QED BY <2>1, <2>2 DEF CancelKept, CancelFacts, NotTakenBack, IsRetiring
<1>5. CASE Dispatch(o)
  <2>1. UNCHANGED <<token, attempts>> /\ pc[o] = "idle" /\ goal[o] # NoGoal
    BY <1>5 DEF Dispatch, durableVars
  <2>2. CASE ForCancel(goal[o]) /\ CloseRun(o, "cancelled", goal[o].seen) /\ UNCHANGED task
    <3>1. task[o].at = "none"
      BY <2>2 DEF OneKernelFacts, GoalFacts
    <3>2. /\ UNCHANGED <<retiring, pc>>
          /\ heldFence'[o] = heldFence[o] \/ heldFence'[o] = NoFence
          /\ run' = run \/ run'.state = "cancelled"
      BY <2>2 DEF CloseRun, CommitRootTerminal, SetRun, kernelVars, authorityVars, TypeOK
    <3>3. NotTakenBack
      BY <3>2 DEF NotTakenBack, Terminal
    <3> QED BY <2>1, <2>2, <3>1, <3>2, <3>3, CancelQuiet
  <2>3. CASE ~ForCancel(goal[o]) /\ UNCHANGED authorityVars
    <3>1. task'[o] = task[o] \/ task'[o].at = "ready"
      <4>1. task' = task \/ Schedule(o, run.state, heldLease[o] # 0)
        BY <1>5, <2>3 DEF Dispatch
      <4>2. (heldLease[o] # 0) \in BOOLEAN
        OBVIOUS
      <4> QED BY <1>t, <4>1, <4>2, ScheduleStep
    <3>2. UNCHANGED <<run, retiring, pc, heldFence>>
      BY <2>3 DEF authorityVars
    <3> QED BY <2>1, <3>1, <3>2, CancelQuiet DEF NotTakenBack
  <2> QED BY <1>5, <2>2, <2>3 DEF Dispatch
<1>6. CASE CommitDrive(o)
  <2>1. /\ task[o].at = "commit" /\ pc[o] = "idle" /\ attempts' = attempts /\ token' = token
        /\ task' = [task EXCEPT ![o].at = "finally"]
    BY <1>6 DEF CommitDrive
  <2>2. task'[o].at = "finally"
    BY <1>t, <2>1 DEF LocalTypes, TaskRows
  <2>3. run.state \notin Terminal
    BY <2>1 DEF OneKernelFacts, DriveFacts
  <2>4. /\ UNCHANGED <<retiring, pc>>
        /\ heldFence'[o] = heldFence[o] \/ heldFence'[o] = NoFence
        /\ run'.state \in Terminal => heldFence'[o] = NoFence
        /\ NotTakenBack
    <3>1. CASE CommitTerminal(o)
      <4>1. task[o].result \in Terminal /\ CloseRun(o, task[o].result, task[o].seen)
        BY <3>1 DEF CommitTerminal
      <4>2. CASE UNCHANGED authorityVars
        BY <2>3, <4>2 DEF authorityVars, NotTakenBack
      <4>3. CASE CommitRootTerminal(o, task[o].result)
        <5>1. run'.state = task[o].result
          BY <4>3 DEF CommitRootTerminal, SetRun
        <5> QED BY <4>1, <4>3, <5>1 DEF CommitRootTerminal, kernelVars, TypeOK, NotTakenBack
      <4> QED BY <4>1, <4>2, <4>3 DEF CloseRun
    <3>2. CASE CommitWaiting(o) \/ CommitUnknownWait(o) \/ CommitAuthorizationWait(o)
      <4>1. task[o].result # "cancelled"
        BY <3>2 DEF CommitWaiting, CommitUnknownWait, CommitAuthorizationWait
      <4>2. run.state # "cancel_requested"
        BY <2>1, <4>1 DEF CancelFacts
      <4>3. UNCHANGED <<retiring, pc, heldFence>> /\ (run' = run \/ SetRun("waiting"))
        BY <3>2 DEF CommitWaiting, CommitUnknownWait, CommitAuthorizationWait, CommitRuntimeState,
           CommitDecisionOpen, kernelVars, authorityVars
      <4>4. run' = run \/ run'.state = "waiting"
        BY <4>3 DEF SetRun
      <4> QED BY <2>3, <4>2, <4>3, <4>4 DEF NotTakenBack, Terminal
    <3> QED BY <1>6, <3>1, <3>2 DEF CommitDrive
  <2> QED BY <2>1, <2>2, <2>4 DEF CancelKept, CancelFacts, IsRetiring
<1>7. CASE StartupFails(o)
  <2>1. /\ UNCHANGED <<run, attempts>> /\ task'[o].at = "none" /\ heldFence'[o] = NoFence
        /\ pc'[o] = "idle"
    BY <1>7, <1>t, TaskRowFacts DEF StartupFails, ProcessEnds, Crash, durableVars, TypeOK, LocalTypes
  <2> QED BY <2>1 DEF CancelKept, CancelFacts, NotTakenBack
<1> QED BY <1>1, <1>2, <1>3, <1>4, <1>5, <1>6, <1>7 DEF SectionStep

\* The drive task up to its commit: a driver cannot answer for a cancelled Run, since a
\* cancelled driver answers only with a call that ended unknown.
LEMMA DriveCancel ==
    ASSUME Before, NoUnknown, NEW o \in Owners, OneKernelFacts(o), CancelFacts(o),
           DriverStep(o) \/ BeginDrive(o)
    PROVE  CancelKept(o)
<1>t. LocalTypes /\ task[o] \in TaskRows
  BY DEF Before, LifecycleIInv, LocalTypes
<1>k. UNCHANGED <<run, heldFence, retiring, pc, token>> /\ pc[o] = "idle"
  BY DEF DriverStep, BeginDrive, DriverCancelled, DriverReturns, authorityVars, Free
<1>a. ASSUME NEW u, task' = [task EXCEPT ![o] = u], attempts' = attempts,
             u.at = "driver" => token[o] # "none" /\ run.state # "cancel_requested",
             u.at = "commit" => u.result = "cancelled" \/ run.state # "cancel_requested",
             u.at = "finally" => run.state \notin Terminal
      PROVE  CancelKept(o)
  <2>1. task'[o] = u
    BY <1>t, <1>a DEF LocalTypes
  <2> QED BY <1>a, <1>k, <2>1 DEF CancelKept, CancelFacts, NotTakenBack, IsRetiring
<1> DEFINE Cancelled == [task[o] EXCEPT !.at = "commit", !.result = "cancelled", !.seen = run.version]
           Over == [task[o] EXCEPT !.at = "finally"]
<1>b. Cancelled.result = "cancelled" /\ Cancelled.at = "commit" /\ Over.at = "finally"
  BY <1>t DEF TaskRows
<1>1. CASE BeginDrive(o)
  <2> DEFINE Begun == [task[o] EXCEPT !.at = IF token[o] = "cancelled" THEN "doomed" ELSE "driver",
                                      !.attempt = IF LatestUnresolved THEN attempts ELSE 0,
                                      !.lease = heldLease[o]]
             Goes == IF run.state \in Terminal THEN NoTask
                     ELSE IF ~RequireRuntimeLease(o, heldLease[o]) THEN Over
                     ELSE IF run.state = "cancel_requested" THEN Cancelled
                     ELSE IF run.state = "waiting" \/ heldFence[o] = NoFence
                     THEN Over ELSE Begun
  <2>1. task' = [task EXCEPT ![o] = Goes] /\ attempts' = attempts
    BY <1>1 DEF BeginDrive, durableVars
  <2>2. Begun.at \in {"doomed", "driver"}
    BY <1>t DEF TaskRows
  <2> HIDE DEF Begun, Cancelled, Over
  <2>3. \/ Goes = NoTask
        \/ Goes = Cancelled
        \/ Goes = Over /\ run.state \notin Terminal
        \/ Goes = Begun /\ run.state # "cancel_requested" /\ heldFence[o] # NoFence
    BY DEF Terminal
  <2>4. heldFence[o] # NoFence => token[o] # "none"
    BY DEF CancelFacts
  <2> HIDE DEF Goes
  <2> QED BY <1>a, <1>b, <2>1, <2>2, <2>3, <2>4, TaskRowFacts
<1>2. CASE DriverCancelled(o)
  <2>0. run.state \notin Terminal
    BY <1>2 DEF DriverCancelled, OneKernelFacts, DriveFacts
  <2>1. attempts' = attempts
    BY <1>2 DEF DriverCancelled, durableVars
  <2>2. task' = [task EXCEPT ![o] = Cancelled] \/ task' = [task EXCEPT ![o] = Over]
    BY <1>2 DEF DriverCancelled
  <2> HIDE DEF Cancelled, Over
  <2> QED BY <1>a, <1>b, <2>0, <2>1, <2>2
<1>3. ASSUME NEW r \in DriverResults, DriverReturns(o, r) PROVE CancelKept(o)
  <2>1. r # "unknown" /\ task[o].at = "driver" /\ token[o] # "cancelled"
    BY <1>3 DEF DriverReturns, NoUnknown
  <2>2. run.state # "cancel_requested"
    BY <2>1 DEF CancelFacts
  <2>3. PICK k : attempts' = attempts /\ task' = [task EXCEPT ![o] = Returned(o, r, k)]
    BY <1>3, <2>1 DEF DriverReturns, Returned
  <2>4. Returned(o, r, k).at \in {"commit", "finally"}
    BY DEF Returned
  <2>5. run.state \notin Terminal
    BY <2>1 DEF OneKernelFacts, DriveFacts
  <2> QED BY <1>a, <2>2, <2>3, <2>4, <2>5
<1> QED BY <1>1, <1>2, <1>3 DEF DriverStep

\* Heartbeats, restarts, cancellations, decisions and wakes.
LEMMA OtherCancel ==
    ASSUME Before, TypeOK, NEW o \in Owners, OneKernelFacts(o), CancelFacts(o), KernelLifeStep(o),
           ~SectionStep(o), ~DriverStep(o), ~BeginDrive(o)
    PROVE  CancelKept(o)
<1>t. LocalTypes /\ Records /\ SectionSound(o)
  BY DEF Before, LifecycleIInv, Records
<1>c. ASSUME CancelTask(o)
      PROVE  /\ task'[o] = task[o] \/ task'[o].at = "none"
             /\ token'[o] = IF token[o] = "none" THEN "none" ELSE "cancelled"
  BY <1>c, <1>t, CancelTaskStep DEF CancelTask, LocalTypes
<1>1. CASE Renew(o)
  BY <1>1, CancelQuiet DEF Renew, RenewLease, durableVars, localVars, NotTakenBack
<1>2. CASE LoseLease(o)
  <2>1. /\ UNCHANGED <<run, pc, attempts, heldFence>> /\ pc[o] = "idle"
        /\ retiring'[o].fence = heldFence[o].epoch
    BY <1>2 DEF LoseLease, HeartbeatLost, durableVars, TypeOK
  <2>2. /\ task'[o] = task[o] \/ task'[o].at = "none"
        /\ token'[o] = IF token[o] = "none" THEN "none" ELSE "cancelled"
    BY <1>2, <1>c DEF LoseLease
  <2> QED BY <2>1, <2>2 DEF CancelKept, CancelFacts, NotTakenBack
<1>3. CASE Retire(o)
  <2>1. /\ UNCHANGED <<run, pc, attempts, task>> /\ pc[o] = "idle" /\ task[o].at = "none"
        /\ IsRetiring(o) /\ retiring'[o] = NotRetiring
        /\ token'[o] = IF heldLease[o] \in {0, retiring[o].lease} THEN "none" ELSE token[o]
    BY <1>3, <1>t DEF Retire, RetireDone, durableVars, TypeOK, Active, LocalTypes
  <2>2. heldFence'[o] = IF heldLease[o] \in {0, retiring[o].lease}
                           /\ heldFence[o].epoch = retiring[o].fence THEN NoFence ELSE heldFence[o]
    BY <1>3 DEF Retire, RetireDone, TypeOK
  <2>3. heldFence[o] = NoFence \/ heldFence[o].epoch = retiring[o].fence
    BY <2>1 DEF CancelFacts
  <2> QED BY <2>1, <2>2, <2>3 DEF CancelKept, CancelFacts, NotTakenBack, IsRetiring
<1>4. CASE CrashKernel(o)
  <2>1. /\ UNCHANGED <<run, attempts>> /\ task'[o].at = "none" /\ heldFence'[o] = NoFence
        /\ pc'[o] = "idle"
    BY <1>4, <1>t, TaskRowFacts DEF CrashKernel, ProcessEnds, Crash, durableVars, TypeOK, LocalTypes
  <2> QED BY <2>1 DEF CancelKept, CancelFacts, NotTakenBack
<1>q. ASSUME UNCHANGED <<authorityVars, token, attempts>>, pc[o] = "idle",
             task'[o] = task[o] \/ task'[o].at = "ready"
      PROVE  CancelKept(o)
  BY <1>q, CancelQuiet DEF authorityVars, NotTakenBack
<1>5. CASE Recover(o) \/ CancelJoined(o)
  <2>1. UNCHANGED <<task, token, attempts>> /\ pc[o] = "idle"
    BY <1>5 DEF Recover, CancelJoined, durableVars, Free
  <2>2. UNCHANGED authorityVars \/ ClaimFor(o, "startup") \/ ClaimFor(o, "recover")
        \/ ClaimFor(o, "cancel")
    BY <1>5 DEF Recover, CancelJoined
  <2> QED BY <1>q, <2>1, <2>2, ClaimForCancel
<1>6. CASE CancelRun(o)
  <2>1. /\ pc[o] = "idle" /\ task[o].at \notin {"commit", "finally"}
        /\ UNCHANGED <<pc, attempts, heldFence, retiring>>
        /\ run' = run \/ run'.state = "cancel_requested"
    BY <1>6 DEF CancelRun, RequestRunCancel, SetRun, Free, kernelVars, authorityVars
  <2>2. /\ task'[o] = task[o] \/ task'[o].at = "none"
        /\ token'[o] = IF token[o] = "none" THEN "none" ELSE "cancelled"
    BY <1>6, <1>c DEF CancelRun
  <2> QED BY <2>1, <2>2 DEF CancelKept, CancelFacts, NotTakenBack, IsRetiring
<1>7. ASSUME NEW allow \in BOOLEAN, DecideAuthorization(o, allow) PROVE CancelKept(o)
  <2>1. /\ run.state = "waiting" /\ UNCHANGED <<task, token, attempts, pc, heldFence, retiring>>
        /\ task[o].at \notin {"commit", "finally"}
    BY <1>7 DEF DecideAuthorization, CommitDecisionResolved, Free, kernelVars
  <2>2. task[o].at # "driver"
    BY <2>1 DEF OneKernelFacts, DriveFacts
  <2> QED BY <2>1, <2>2, CancelQuiet DEF NotTakenBack
<1>8. ASSUME NEW k \in Attempts, DrainResolvedWait(o, k) PROVE FALSE
  <2>1. blocker[k] = "resolved" /\ attempts = 0
    BY <1>8 DEF DrainResolvedWait, CancelFacts
  <2>2. k <= attempts
    BY <1>t, <2>1 DEF Records, CallsAccounted
  <2> QED BY <2>1, <2>2, LifecycleConstants DEF Attempts
<1>9. CASE WakeTask(o) \/ DrainPendingWake(o)
  <2>1. UNCHANGED <<token, attempts>> /\ pc[o] = "idle"
    BY <1>9 DEF WakeTask, DrainPendingWake, durableVars, Free
  <2>2. CASE ClaimFor(o, "wake") /\ UNCHANGED task
    BY <2>1, <2>2, ClaimForCancel
  <2>3. CASE UNCHANGED <<authorityVars, goal, task>>
    BY <1>q, <2>1, <2>3
  <2>4. CASE Schedule(o, run.state, TRUE) /\ UNCHANGED <<authorityVars, goal>>
    <3>1. task'[o] = task[o] \/ task'[o].at = "ready"
      BY <1>t, <2>4, ScheduleStep
    <3> QED BY <1>q, <2>1, <2>4, <3>1
  <2> QED BY <1>9, <2>2, <2>3, <2>4 DEF WakeTask, DrainPendingWake, WakeContinuation
<1> QED BY <1>1, <1>2, <1>3, <1>4, <1>5, <1>6, <1>7, <1>8, <1>9 DEF KernelLifeStep

\* The steps of the world.
LEMMA WorldCancel ==
    ASSUME NEW o \in Owners, CancelFacts(o), WorldStep \/ UNCHANGED lifecycleVars
    PROVE  CancelKept(o)
BY CancelQuiet
   DEF WorldStep, Reconcile, Stall, LateActivation, Lapse, Tick, localVars, durableVars, lifecycleVars,
       authorityVars, NotTakenBack

\* The inductive invariant of one kernel whose calls do not end unknown.
CancelInv == NoUnknown /\ OneKernelInv /\ \A o \in Owners : CancelFacts(o)

LEMMA CancelInit == NoUnknown /\ OneKernel /\ LifecycleInit => CancelInv
BY OneKernelInit, TaskRowFacts
   DEF CancelInv, LifecycleInit, Init, CancelFacts, IsRetiring, Terminal

LEMMA CancelNext ==
    ASSUME CancelInv, [LifecycleNext]_lifecycleVars
    PROVE  CancelInv' /\ NotTakenBack
<1>1. OneKernelInv /\ OneKernelInv' /\ NoUnknown
  BY OneKernelNext DEF CancelInv
<1>2. Before /\ TypeOK
  BY <1>1 DEF Before, LifecycleIInv, OneKernelInv
<1>3. ASSUME NEW o \in Owners PROVE CancelKept(o)
  <2>1. OneKernelFacts(o) /\ CancelFacts(o)
    BY DEF CancelInv, OneKernelInv
  <2>2. ASSUME NEW p \in Owners, KernelLifeStep(p) PROVE CancelKept(o)
    <3>1. p = o
      BY <1>1 DEF OneKernelInv, OneKernel
    <3> QED BY <1>1, <1>2, <2>1, <2>2, <3>1, SectionCancel, DriveCancel, OtherCancel
  <2>3. (\E p \in Owners : KernelLifeStep(p)) \/ WorldStep \/ UNCHANGED lifecycleVars
    BY DEF LifecycleNext, KernelLifeStep, WorldStep
  <2> QED BY <2>1, <2>2, <2>3, WorldCancel
<1>4. CancelInv'
  BY <1>1, <1>3 DEF CancelInv, CancelKept, NoUnknown
<1>5. \E o : o \in Owners
  BY <1>1 DEF OneKernelInv, OneKernel
<1> QED BY <1>3, <1>4, <1>5 DEF CancelKept

\* With one kernel whose calls do not end unknown, an accepted cancellation is never
\* taken back: the Run leaves cancel_requested only by ending.  (With a call that ends
\* unknown under the cancellation it does not hold: run LifecycleLostCancel.)
THEOREM CancelStands ==
    OneKernel /\ "unknown" \notin DriverResults => (LifecycleSpec => CancelIsNotForgotten)
<1>1. CancelInv /\ [LifecycleNext]_lifecycleVars => CancelInv' /\ [NotTakenBack]_lifecycleVars
  BY CancelNext
<1>2. "unknown" \notin DriverResults => NoUnknown
  BY DEF NoUnknown
<1> QED BY <1>1, <1>2, CancelInit, PTL DEF LifecycleSpec, CancelIsNotForgotten, NotTakenBack

=============================================================================
