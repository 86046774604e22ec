--------------------------- MODULE ProviderLedger ---------------------------
(***************************************************************************)
(* The Provider calls of one Run: their rows in provider_invocations with  *)
(* the budget they reserve and spend, ProviderInvocationCoordinator.invoke *)
(* as run by the drivers of several kernel processes, and the              *)
(* reconciliation of calls whose process was lost.  Only the lease is      *)
(* asked for here, never the fence.  invoke suspends while it waits for    *)
(* admission and inside the provider, reconcile_incomplete while the host  *)
(* observes a call.                                                        *)
(*                                                                         *)
(* The outside world is known by the host contract: world[c][k] says what  *)
(* became of the k-th handoff of call c, which model served it included,   *)
(* and cost[c] what its usage comes to at the frozen prices, which the     *)
(* estimator bounds by Estimate.  The budget policy has a hard cap (hence  *)
(* refuses unknown charges).                                               *)
(***************************************************************************)
EXTENDS RunAuthority, FiniteSets, Functions

CONSTANTS Calls,           \* the request_ids of the Run
          Models,          \* which models may serve a call: "target", "other"
          Costs,           \* what a call may turn out to cost
          Estimate,        \* estimate_upper_bound of a call
          Cap,             \* hard_cap_micros
          MaxCallVersion   \* bound: versions of a row explored

ASSUME ProviderConstants ==
    /\ IsFiniteSet(Calls) /\ Calls # {}
    /\ Estimate \in Nat /\ Cap \in Nat /\ MaxCallVersion \in Nat
    /\ Costs \subseteq 0..Estimate
    /\ Models \subseteq {"target", "other"}

VARIABLES call,       \* provider_invocations, by request
          authority,  \* provider.handoff_authority.v1 events, by handoff
          resolution, \* reconciliation_resolutions, by handoff
          receipt,    \* provider.accounting_resolved.v1 events, by request
          invoke,     \* the invoke() call in progress in each process
          observing,  \* the observation in progress in each process
          starting,   \* processes whose reconciliation at startup is still to come
          listed,     \* the rows which that of each process has listed and not yet visited
          world,      \* external: what became of each handoff
          cost        \* external: what it cost

passVars     == <<starting, listed>>
providerVars == <<call, authority, resolution, receipt, invoke, observing, passVars, world, cost>>
vars == <<authorityVars, providerVars>>

Attempts == 1..2
Answers  == {"succeeded", "failed"}
Served   == {"target", "other"}   \* landed, at the model of ProviderTarget or another
Unknown  == -1                  \* BudgetCharge.unknown()
Some     == CHOOSE c \in Calls : TRUE

NoCall == [state |-> "none", version |-> 0, attempt |-> 0, retries |-> 0,
           charge |-> 0, usage |-> FALSE]
Idle   == [at |-> "idle", on |-> Some, snap |-> NoCall, lease |-> 0]

ProviderInit ==
    /\ Init
    /\ call = [c \in Calls |-> NoCall]
    /\ authority = [c \in Calls |-> [k \in Attempts |-> [owner |-> NoOwner, epoch |-> 0]]]
    /\ resolution = [c \in Calls |-> [k \in Attempts |-> "none"]]
    /\ receipt = [c \in Calls |-> Unknown]
    /\ invoke = [o \in Owners |-> Idle]
    /\ observing = [o \in Owners |-> Idle]
    /\ starting = Owners
    /\ listed = [o \in Owners |-> {}]
    /\ world = [c \in Calls |-> [k \in Attempts |-> "unsent"]]
    /\ cost = [c \in Calls |-> 0]

-----------------------------------------------------------------------------
(* The budget and the row.                                                 *)

\* read_effective_provider_invocation: an accounting receipt replaces the charge.
Charge(c) == IF receipt[c] # Unknown THEN receipt[c] ELSE call[c].charge

\* The known charges, reserved or committed; an unknown one counts as nothing.
KnownCharges == [c \in Calls |-> IF Charge(c) = Unknown THEN 0 ELSE Charge(c)]

\* _provider_budget: what the known charges add up to.
Charged == SumFunction(KnownCharges)

\* Faulty: an unknown charge counts as nothing.
AuthorizeKnown == Charged + Estimate <= Cap

\* BudgetPolicy.authorize with a hard cap.
Authorize ==
    /\ \A c \in Calls : Charge(c) # Unknown
    /\ Charged + Estimate <= Cap

\* The row of c with the columns of upd changed and the version raised.
Write(c, upd) ==
    /\ call[c].version < MaxCallVersion
    /\ call' = [call EXCEPT ![c] = [upd EXCEPT !.version = call[c].version + 1]]

\* invocation_id in _active_provider_calls of the process of o.
ActiveCall(o, c) == invoke[o].at \in {"invoke", "handler"} /\ invoke[o].on = c

\* invoke() returns or raises.
Leave(o) == invoke' = [invoke EXCEPT ![o] = Idle]

-----------------------------------------------------------------------------
(* invoke().                                                               *)

\* A call resumes from record `row` with the lease captured by the driver.
Admit(o, c, row) ==
    invoke' = [invoke EXCEPT ![o] = [at |-> "admission", on |-> c, snap |-> row,
                                     lease |-> heldLease[o]]]

\* claim_provider_invocation of a new row, inside the lease and the budget.
ClaimProviderInvocation(o, c) ==
    /\ invoke[o].at = "idle" /\ heldLease[o] # 0
    /\ call[c].state = "none"
    /\ RequireRuntimeLease(o, heldLease[o])
    /\ Authorize
    /\ call' = [call EXCEPT ![c] = [NoCall EXCEPT !.state = "claimed", !.version = 1,
                                                  !.charge = Estimate]]
    /\ Admit(o, c, call'[c])
    /\ UNCHANGED <<authorityVars, authority, resolution, receipt, observing, passVars, world,
                   cost>>

\* A claimed row is resumed by whoever drives the Run; nothing is asked for.
ResumeClaimed(o, c) ==
    /\ invoke[o].at = "idle" /\ heldLease[o] # 0
    /\ call[c].state = "claimed"
    /\ Admit(o, c, call[c])
    /\ UNCHANGED <<authorityVars, call, authority, resolution, receipt, observing, passVars, world,
                   cost>>

\* Faulty: a call of unknown outcome is claimed again without a resolution.
CanReauthorizeUnresolved(c) ==
    /\ call[c].state = "unknown"
    /\ call[c].retries = 0

\* invoke finds an unknown row whose attempt was confirmed not started, not
\* retried yet.
CanReauthorize(c) ==
    /\ call[c].state = "unknown"
    /\ resolution[c][call[c].attempt] = "not_started"
    /\ call[c].retries = 0

\* reauthorize_provider_not_started.  The charge stays unknown: nothing reserves
\* the retry again, and nothing else is authorized meanwhile.
ReauthorizeNotStarted(o, c) ==
    /\ invoke[o].at = "idle" /\ heldLease[o] # 0
    /\ CanReauthorize(c)
    /\ RequireRuntimeLease(o, heldLease[o])
    /\ Write(c, [call[c] EXCEPT !.state = "claimed", !.retries = 1])
    /\ Admit(o, c, call'[c])
    /\ UNCHANGED <<authorityVars, authority, resolution, receipt, observing, passVars, world,
                   cost>>

\* hand_off_provider_invocation, after admission: the handoff, and who made it,
\* are durable before the provider is called.
HandOff(o) ==
    LET c   == invoke[o].on
        row == invoke[o].snap
        ok  == /\ RequireRuntimeLease(o, invoke[o].lease)
               /\ call[c].state = "claimed" /\ call[c].version = row.version
    IN  /\ invoke[o].at = "admission"
        /\ \/ /\ ok
              /\ Write(c, [call[c] EXCEPT !.state = "handed_off", !.attempt = @ + 1])
              /\ authority' = [authority EXCEPT ![c][call'[c].attempt] =
                                  [owner |-> o, epoch |-> invoke[o].lease]]
              /\ invoke' = [invoke EXCEPT ![o] = [@ EXCEPT !.at = "invoke", !.snap = call'[c]]]
           \/ /\ ~ok
              /\ Leave(o)
              /\ UNCHANGED <<call, authority>>
        /\ UNCHANGED <<authorityVars, resolution, receipt, observing, passVars, world,
                   cost>>

\* Admission is refused or cancelled: the row stays claimed.
AdmissionRefused(o) ==
    /\ invoke[o].at = "admission"
    /\ Leave(o)
    /\ UNCHANGED <<authorityVars, call, authority, resolution, receipt, observing, passVars, world,
                   cost>>

\* The provider sends the request, unless the host has put a stop to it.
Send(o) ==
    /\ invoke[o].at = "invoke"
    /\ world' = [world EXCEPT ![invoke[o].on][invoke[o].snap.attempt] =
                    IF @ = "unsent" THEN "sent" ELSE @]
    /\ invoke' = [invoke EXCEPT ![o].at = "handler"]
    /\ UNCHANGED <<authorityVars, call, authority, resolution, receipt, observing, passVars, cost>>

\* Faulty: an answer is stored whatever became of its attempt meanwhile.
CanSettleLate(c, row) == call[c].attempt = row.attempt

\* settle_provider_invocation of the row as handed off: no authority is asked for.
CanSettle(c, row) == call[c].state = "handed_off" /\ call[c].version = row.version

Settled(c, row, upd) == IF CanSettle(c, row) THEN Write(c, upd) ELSE UNCHANGED call

\* The landed handoff k of c was served by another model than its target's.
ServedByOther(c, k) == world[c][k] = "other"

\* charge_usage of reported usage; without any, what the row was charged stays.
UsageCharge(c, row, reported) == IF reported THEN cost[c] ELSE row.charge

\* _response_charge: usage of another model is not trusted.
ResponseCharge(c, row, reported) ==
    IF reported /\ ServedByOther(c, row.attempt) THEN Unknown ELSE UsageCharge(c, row, reported)

\* The provider answers.  An answer that cannot be stored leaves whatever handoff
\* is then in the row unknown.
ProviderSucceeds(o, reported) ==
    LET c   == invoke[o].on
        row == invoke[o].snap
    IN  /\ invoke[o].at = "handler"
        /\ world[c][row.attempt] \in Served
        /\ IF CanSettle(c, row)
           THEN Write(c, [row EXCEPT !.state = "succeeded", !.usage = reported,
                                     !.charge = ResponseCharge(c, row, reported)])
           ELSE Settled(c, call[c], [call[c] EXCEPT !.state = "unknown", !.charge = Unknown])
        /\ Leave(o)
        /\ UNCHANGED <<authorityVars, authority, resolution, receipt, observing, passVars, world,
                   cost>>

\* The provider answers and the answer has no durable form.
ResponseNotDurable(o, reported) ==
    LET c   == invoke[o].on
        row == invoke[o].snap
    IN  /\ invoke[o].at = "handler"
        /\ world[c][row.attempt] \in Served
        /\ Settled(c, row, [row EXCEPT !.state = "failed", !.usage = reported,
                                       !.charge = ResponseCharge(c, row, reported)])
        /\ Leave(o)
        /\ UNCHANGED <<authorityVars, authority, resolution, receipt, observing, passVars, world,
                   cost>>

\* The provider fails definitely, with usage if the call was billed.
ProviderFails(o, reported) ==
    LET c   == invoke[o].on
        row == invoke[o].snap
    IN  /\ invoke[o].at = "handler"
        /\ reported => world[c][row.attempt] \in Served
        /\ Settled(c, row, [row EXCEPT !.state = "failed", !.usage = reported,
                                       !.charge = UsageCharge(c, row, reported)])
        /\ Leave(o)
        /\ UNCHANGED <<authorityVars, authority, resolution, receipt, observing, passVars, world,
                   cost>>

\* The call is cancelled, ends in an error that says nothing of its outcome, or
\* its answer cannot be committed.
ProviderInterrupted(o) ==
    LET c   == invoke[o].on
        row == invoke[o].snap
    IN  /\ invoke[o].at \in {"invoke", "handler"}
        /\ Settled(c, row, [row EXCEPT !.state = "unknown", !.charge = Unknown])
        /\ Leave(o)
        /\ UNCHANGED <<authorityVars, authority, resolution, receipt, observing, passVars, world,
                   cost>>

-----------------------------------------------------------------------------
(* reconcile_incomplete().                                                 *)

\* The lease under which the last handoff of c was made is live.
HandoffLive(c) ==
    LET made == authority[c][call[c].attempt] IN RequireRuntimeLease(made.owner, made.epoch)

\* Faulty: a handoff is given up although the lease it was made under is live.
CanRecoverLive(o, c) == call[c].state = "handed_off" /\ ~ActiveCall(o, c)

\* Faulty: whatever live lease keeps a handoff, not only the one it was made under.
CanRecoverLapsed(o, c) == call[c].state = "handed_off" /\ ~ActiveCall(o, c) /\ ~Live

\* settle_provider_invocation with require_expired_runtime_lease.
CanRecover(o, c) ==
    /\ call[c].state = "handed_off"
    /\ ~ActiveCall(o, c)
    /\ ~HandoffLive(c)

Observe(o, c, row) ==
    observing' = [observing EXCEPT ![o] = [at |-> "observe", on |-> c, snap |-> row, lease |-> 0]]

\* The startup of a process lists the rows it is to reconcile, once.
StartReconcile(o) ==
    /\ o \in starting
    /\ starting' = starting \ {o}
    /\ listed' = [listed EXCEPT ![o] = {c \in Calls : call[c].state \in {"handed_off", "unknown"}}]
    /\ UNCHANGED <<authorityVars, call, authority, resolution, receipt, invoke, observing, world,
                   cost>>

\* A process visits c: at startup because it was listed, afterwards only because the
\* host calls Runtime.reconcile().  The row is visited as it is by then.
Visits(o, c) ==
    /\ o \notin starting /\ observing[o].at = "idle"
    /\ c \in listed[o] \/ listed[o] = {}
    /\ listed' = [listed EXCEPT ![o] = @ \ {c}]
    /\ UNCHANGED starting

\* A handed-off call is recovered as unknown, and the host asked.
RecoverHandedOff(o, c) ==
    /\ Visits(o, c)
    /\ CanRecover(o, c)
    /\ Write(c, [call[c] EXCEPT !.state = "unknown", !.charge = Unknown])
    /\ Observe(o, c, call'[c])
    /\ UNCHANGED <<authorityVars, authority, resolution, receipt, invoke, world, cost>>

\* The host is asked of an unknown call.
ObserveUnknown(o, c) ==
    /\ Visits(o, c)
    /\ call[c].state = "unknown" /\ ~ActiveCall(o, c)
    /\ Observe(o, c, call[c])
    /\ UNCHANGED <<authorityVars, call, authority, resolution, receipt, invoke, world, cost>>

\* A listed row is passed over: its process calls, the lease of its handoff is live,
\* or it has moved on.
PassOver(o, c) ==
    /\ c \in listed[o] /\ Visits(o, c)
    /\ call[c].state # "unknown" \/ ActiveCall(o, c)
    /\ ~CanRecover(o, c)
    /\ UNCHANGED <<authorityVars, call, authority, resolution, receipt, invoke, observing, world,
                   cost>>

\* The host contract of ProviderReconciliationPort.observe.
Observable(c, k, outcome) ==
    \/ outcome = "still_unknown"
    \/ outcome = "succeeded" /\ world[c][k] \in Served
    \/ outcome = "not_started" /\ world[c][k] = "dropped"

\* record_provider_reconciliation for the row as it was read.  A repeated outcome
\* is accepted and changes nothing, like the conflict any other difference is.
\* _response_charge_for_record charges whatever usage is reported.
RecordProviderReconciliation(c, row, outcome, reported) ==
    LET k == row.attempt
    IN  IF /\ call[c].attempt = k /\ resolution[c][k] = "none"
           /\ call[c].state = "unknown" /\ call[c].version = row.version
        THEN /\ resolution' = [resolution EXCEPT ![c][k] = outcome]
             /\ IF outcome = "succeeded"
                THEN Write(c, [row EXCEPT !.state = "succeeded", !.usage = reported,
                                          !.charge = UsageCharge(c, row, reported)])
                ELSE UNCHANGED call
        ELSE UNCHANGED <<call, resolution>>

\* The host has answered observe().
Observed(o, outcome, reported) ==
    LET c == observing[o].on
    IN  /\ observing[o].at = "observe"
        /\ Observable(c, observing[o].snap.attempt, outcome)
        /\ IF outcome = "still_unknown"
           THEN UNCHANGED <<call, resolution>>
           ELSE RecordProviderReconciliation(c, observing[o].snap, outcome, reported)
        /\ observing' = [observing EXCEPT ![o] = Idle]
        /\ UNCHANGED <<authorityVars, authority, receipt, invoke, passVars, world, cost>>

\* record_provider_accounting: an answered call without usage gets its cost, once
\* the host knows it.  An answered row no longer changes, so what is observed of
\* it before the transaction still holds in it.
RecordProviderAccounting(c) ==
    /\ call[c].state \in Answers /\ ~call[c].usage
    /\ receipt[c] = Unknown
    /\ world[c][call[c].attempt] \in Served \cup {"dropped"}
    /\ receipt' = [receipt EXCEPT ![c] = cost[c]]
    /\ UNCHANGED <<authorityVars, call, authority, resolution, invoke, observing, passVars, world,
                   cost>>

-----------------------------------------------------------------------------
(* The outside.                                                            *)

\* A request that was sent is served, by the target's model or another.
Land(c, k, model, amount) ==
    /\ world[c][k] = "sent"
    /\ world' = [world EXCEPT ![c][k] = model]
    /\ cost' = [cost EXCEPT ![c] = @ + amount]
    /\ UNCHANGED <<authorityVars, call, authority, resolution, receipt, invoke, observing, passVars>>

\* A handoff never lands.
Drop(c, k) ==
    /\ k <= call[c].attempt
    /\ world[c][k] \in {"unsent", "sent"}
    /\ world' = [world EXCEPT ![c][k] = "dropped"]
    /\ UNCHANGED <<authorityVars, call, authority, resolution, receipt, invoke, observing, passVars,
                   cost>>

\* The process dies, and is yet to be started again.
CrashProcess(o) ==
    /\ Crash(o)
    /\ Leave(o)
    /\ observing' = [observing EXCEPT ![o] = Idle]
    /\ starting' = starting \cup {o}
    /\ listed' = [listed EXCEPT ![o] = {}]
    /\ UNCHANGED <<call, authority, resolution, receipt, world, cost>>

AuthorityMoves ==
    /\ Tick \/ \E o \in Owners \ starting : KernelStep(o)
    /\ UNCHANGED providerVars

-----------------------------------------------------------------------------

InvokeStep(o) ==
    \/ \E c \in Calls :
          ClaimProviderInvocation(o, c) \/ ResumeClaimed(o, c) \/ ReauthorizeNotStarted(o, c)
    \/ HandOff(o) \/ AdmissionRefused(o) \/ Send(o)

\* The provider's answer, or the end of waiting for one.
AnswerStep(o) ==
    \/ \E reported \in BOOLEAN :
          \/ ProviderSucceeds(o, reported)
          \/ ResponseNotDurable(o, reported)
          \/ ProviderFails(o, reported)
    \/ ProviderInterrupted(o)

\* What the host may say of a call.
Outcomes == {"succeeded", "not_started", "still_unknown"}

ReconcileStep(o) ==
    \/ StartReconcile(o)
    \/ \E c \in Calls : RecoverHandedOff(o, c) \/ ObserveUnknown(o, c) \/ PassOver(o, c)
    \/ \E outcome \in Outcomes, reported \in BOOLEAN : Observed(o, outcome, reported)

Outside ==
    \E c \in Calls, k \in Attempts :
        Drop(c, k) \/ \E model \in Models, amount \in Costs : Land(c, k, model, amount)

ProviderNext ==
    \/ \E o \in Owners : InvokeStep(o) \/ AnswerStep(o) \/ ReconcileStep(o) \/ CrashProcess(o)
    \/ \E c \in Calls : RecordProviderAccounting(c)
    \/ Outside
    \/ AuthorityMoves

ProviderSpec == ProviderInit /\ [][ProviderNext]_vars

-----------------------------------------------------------------------------
(* Properties.                                                             *)

Rows == [state : {"none", "claimed", "handed_off", "unknown"} \cup Answers,
         version : Nat, attempt : 0..2, retries : 0..1,
         charge : {Unknown} \cup Nat, usage : BOOLEAN]

Sections == [at : {"idle", "admission", "invoke", "handler", "observe"}, on : Calls,
             snap : Rows, lease : Nat]

\* Type correctness of the rows, the records about them and the calls in progress.
ProviderTypeOK ==
    /\ TypeOK
    /\ call \in [Calls -> Rows]
    /\ authority \in [Calls -> [Attempts -> [owner : Owners \cup {NoOwner}, epoch : Nat]]]
    /\ resolution \in [Calls -> [Attempts -> {"none", "not_started", "succeeded"}]]
    /\ receipt \in [Calls -> {Unknown} \cup Nat]
    /\ invoke \in [Owners -> Sections]
    /\ observing \in [Owners -> Sections]
    /\ starting \subseteq Owners
    /\ listed \in [Owners -> SUBSET Calls]
    /\ world \in [Calls -> [Attempts -> {"unsent", "sent", "dropped"} \cup Served]]
    /\ cost \in [Calls -> Nat]

\* The row counts its handoffs, and a second one follows only a first that was
\* confirmed not started; nothing was sent for a handoff not recorded.
HandoffsAccounted ==
    \A c \in Calls :
        /\ call[c].state \in {"none", "claimed"} => call[c].attempt = call[c].retries
        /\ call[c].state \notin {"none", "claimed"} => call[c].attempt = call[c].retries + 1
        /\ call[c].retries = 1 => resolution[c][1] = "not_started"
        /\ \A k \in Attempts : resolution[c][k] = "not_started" => world[c][k] = "dropped"
        /\ \A k \in Attempts : world[c][k] # "unsent" => k <= call[c].attempt

\* A row that was read is still the row while the versions agree.
RowsPinned ==
    \A o \in Owners : \A s \in {invoke[o], observing[o]} :
        s.at # "idle" =>
            /\ s.snap.version <= call[s.on].version
            /\ s.snap.version = call[s.on].version => s.snap = call[s.on]

\* A process inside the provider call works for a handoff of its own, made under a
\* lease that was issued, and no later row looks like that handoff.
HandlersSound ==
    \A o \in Owners :
        LET c   == invoke[o].on
            row == invoke[o].snap
        IN  /\ invoke[o].lease <= lease.epoch
            /\ invoke[o].at \in {"invoke", "handler"} =>
                  /\ row.state = "handed_off" /\ row.attempt \in 1..call[c].attempt
                  /\ authority[c][row.attempt] = [owner |-> o, epoch |-> invoke[o].lease]
                  /\ call[c].state = "handed_off" /\ call[c].attempt = row.attempt =>
                        call[c] = row

\* The process that called the provider keeps the row while it keeps the lease it
\* called under: no recovery, of whichever process, takes the answer from it.
LiveCallKeepsItsRow ==
    \A o \in Owners :
        /\ invoke[o].at \in {"invoke", "handler"}
        /\ RequireRuntimeLease(o, invoke[o].lease)
        => call[invoke[o].on] = invoke[o].snap

\* The known charge of a call covers what it has cost.
ChargesCoverCosts ==
    \A c \in Calls : Charge(c) # Unknown => cost[c] <= Charge(c)

\* What a call has cost is final once it was served, and what its row is charged
\* says whether that is known.
ChargesAccounted ==
    \A c \in Calls :
        /\ cost[c] <= Estimate
        /\ cost[c] # 0 => \E k \in Attempts : world[c][k] \in Served
        /\ call[c].state = "none" => call[c] = NoCall
        /\ call[c].state \in {"claimed", "handed_off"} => call[c].charge \in {Unknown, Estimate}
        /\ call[c].state = "unknown" => call[c].charge = Unknown
        /\ call[c].state \in Answers =>
              \/ call[c].charge \in {Unknown, Estimate}
              \/ call[c].charge = cost[c] /\ world[c][call[c].attempt] \in Served
        /\ receipt[c] # Unknown =>
              /\ call[c].state \in Answers /\ receipt[c] = cost[c]
              /\ world[c][call[c].attempt] \in Served \cup {"dropped"}

\* What a call may come to: what it is charged, or its estimate while that is unknown.
Liability == [c \in Calls |-> IF Charge(c) = Unknown THEN Estimate ELSE Charge(c)]

\* What the calls may come to stays below the cap: nothing is authorized while a
\* charge is unknown, and a call never comes to more than was reserved for it.
LiabilityWithinCap == SumFunction(Liability) <= Cap

\* The invariant of the Provider ledger.
ProviderInv ==
    /\ ProviderTypeOK
    /\ HandoffsAccounted
    /\ RowsPinned
    /\ HandlersSound
    /\ ChargesAccounted
    /\ ChargesCoverCosts
    /\ LiabilityWithinCap

\* What the calls of the Run cost, at the frozen prices, never exceeds the hard
\* cap, although an unknown call has no known charge and a retried one is not
\* reserved again (docs/api/provider-invocation-ledger.md: "Unknown cost is never
\* counted as zero").
HardCapHolds == SumFunction(cost) <= Cap

\* What OneShotEffect sees of a call.
Happened(c) == {k \in Attempts : world[c][k] \in Served}
Answer(c)   == IF call[c].state \in Answers THEN call[c].state ELSE "none"

OneShot(c) == INSTANCE OneShotEffect WITH happened <- Happened(c), answer <- Answer(c)

\* Each call takes the steps of a one-shot call only: it is served at most once
\* and answered for good, never with success before it was served.
CallsAreOneShot ==
    [][\A c \in Calls : OneShot(c)!Next \/ UNCHANGED <<Happened(c), Answer(c)>>]_vars

\* A process that is started comes to list the rows, and however often it dies before
\* it has visited them, not for ever.  The host answers, and provider calls end.  That
\* the host calls Runtime.reconcile() is not assumed.
ProviderFairness ==
    \A o \in Owners :
        /\ WF_vars(StartReconcile(o))
        /\ \A c \in Calls : SF_vars(c \in listed[o] /\ RecoverHandedOff(o, c))
        /\ WF_vars(\E outcome \in Outcomes, reported \in BOOLEAN : Observed(o, outcome, reported))
        /\ WF_vars(Send(o) \/ AnswerStep(o))

FairProviderSpec == ProviderSpec /\ ProviderFairness

\* A handoff whose lease is gone while some process is yet to start does not stay
\* handed off ("A recovered `handed_off` row becomes `unknown`"), whichever processes
\* die and whoever holds the Run by then.  (One whose lease is still live when the
\* starting process visits it is passed over, and waits for the next start.)
LostHandoffIsRecovered ==
    \A c \in Calls :
        call[c].state = "handed_off" /\ ~HandoffLive(c) /\ starting # {}
            ~> call[c].state # "handed_off"

=============================================================================
