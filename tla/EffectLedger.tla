---------------------------- MODULE EffectLedger ----------------------------
(***************************************************************************)
(* One Tool call of a Run: its row in execution_effects, the resolutions   *)
(* recorded for its attempts, and EffectExecutor.execute as run by the     *)
(* drivers of several kernel processes under the authority protocol of     *)
(* RunAuthority.  An executor captures its lease and its fence when it     *)
(* starts and reads the row once; it suspends while the host observes the  *)
(* call, while the host authorizes and binds it, and inside the handler,   *)
(* and whatever the other processes do happens there.                      *)
(*                                                                         *)
(* The outside world is known by the host contract only: world[k] says     *)
(* what became of the k-th handoff.  A remote call that was sent may still *)
(* land after its process has died; the host confirms not_started only of  *)
(* an attempt that will never land.                                        *)
(*                                                                         *)
(* "succeeded" stands for every answer that needs the side effect (partial *)
(* too), "failed" for every answer that does not (rejected too).           *)
(***************************************************************************)
EXTENDS RunAuthority

CONSTANT MaxEffectVersion   \* bound: versions of the effect row explored

ASSUME EffectConstants == MaxEffectVersion \in Nat

VARIABLES effect,     \* execution_effects: the row of the call
          resolution, \* reconciliation_resolutions, by handoff attempt
          exec,       \* the execute() call in progress in each process
          called,     \* ToolRegistry._calls holds the call_id
          world       \* external: what became of each handoff

effectVars == <<effect, resolution, exec, called, world>>
ledgerVars == <<authorityVars, effectVars>>

Attempts == 1..2
Answers  == {"succeeded", "failed"}
EffectStates == {"none", "prepared", "handed_off", "unknown"} \cup Answers
Uncertain == {"handed_off", "unknown"}

NoEffect == [state |-> "none", version |-> 0, fence |-> 0, attempt |-> 0,
             retries |-> 0, result |-> 0]
NoExec == [at |-> "idle", snap |-> NoEffect, lease |-> 0, fence |-> NoFence,
           notStarted |-> FALSE]

EffectInit ==
    /\ Init
    /\ effect = NoEffect
    /\ resolution = [k \in Attempts |-> "none"]
    /\ exec = [o \in Owners |-> NoExec]
    /\ called = [o \in Owners |-> FALSE]
    /\ world = [k \in Attempts |-> "unsent"]

-----------------------------------------------------------------------------

\* The checks of a fenced write, with the lease and the fence captured by exec.
ExecAuthority(o) ==
    /\ RequireRuntimeLease(o, exec[o].lease)
    /\ RequireRunFence(o, exec[o].fence, exec[o].lease)

\* The row is still the one that was read: UPDATE ... WHERE version = ?.
SameVersion(row) == effect.version = row.version

\* The row with the columns of upd changed and the version raised.
Write(upd) ==
    /\ effect.version < MaxEffectVersion
    /\ effect' = [upd EXCEPT !.version = effect.version + 1]

Goto(o, at) == exec' = [exec EXCEPT ![o].at = at]

\* execute() returns or raises.
Leave(o) == exec' = [exec EXCEPT ![o] = NoExec]

\* A transaction that conflicts writes nothing and raises.
Conflict(o) == Leave(o) /\ UNCHANGED <<effect, resolution, called>>

-----------------------------------------------------------------------------

\* execute() up to its first suspension: the audit record needs authority, the
\* row decides how to go on.  A settled row is replayed without a write.
Execute(o) ==
    /\ exec[o].at = "idle"
    /\ HasAuthority(o)
    /\ effect.state \notin Answers
    /\ exec' = [exec EXCEPT ![o] =
          [at |-> IF effect.state \in Uncertain THEN "observe" ELSE "authorize",
           snap |-> effect, lease |-> heldLease[o], fence |-> heldFence[o],
           notStarted |-> FALSE]]
    /\ UNCHANGED <<authorityVars, effect, resolution, called, world>>

\* Faulty: an attempt of unresolved outcome is tried again.
ReconciledUnresolved(o) ==
    exec' = [exec EXCEPT ![o] =
       IF effect'.state \notin Answers
       THEN [@ EXCEPT !.at = "authorize", !.notStarted = TRUE]
       ELSE NoExec]

\* After reconcile(): a settled row or one without a not_started resolution ends
\* the call, otherwise the attempt is to be authorized again.
Reconciled(o) ==
    LET k == exec[o].snap.attempt
    IN  exec' = [exec EXCEPT ![o] =
          IF effect'.state \notin Answers /\ resolution'[k] = "not_started"
          THEN [@ EXCEPT !.at = "authorize", !.notStarted = TRUE]
          ELSE NoExec]

\* record_tool_reconciliation(outcome) for the row as it was read.  A repeated
\* outcome is accepted, another one for the same attempt is a conflict; a
\* not_started resolution leaves the row alone.
RecordToolReconciliation(o, outcome) ==
    LET row == exec[o].snap
        k   == row.attempt
    IN  \/ /\ effect.attempt = k
           /\ resolution[k] = outcome
           /\ UNCHANGED <<effect, resolution>>
           /\ Reconciled(o)
        \/ /\ effect.attempt = k
           /\ resolution[k] = "none"
           /\ SameVersion(row) /\ effect.state \in Uncertain
           /\ resolution' = [resolution EXCEPT ![k] = outcome]
           /\ IF outcome = "not_started"
              THEN UNCHANGED effect
              ELSE Write([effect EXCEPT !.state = outcome, !.result = k])
           /\ Reconciled(o)
        \/ /\ \/ effect.attempt # k
              \/ resolution[k] \notin {"none", outcome}
              \/ resolution[k] = "none" /\ ~(SameVersion(row) /\ effect.state \in Uncertain)
           /\ Leave(o)
           /\ UNCHANGED <<effect, resolution>>

\* Faulty: mark_effect_unknown of whatever became of the row under its fence.
CanMarkUnknownLate(row) == effect.fence = row.fence

\* mark_effect_unknown for the row as it was read.
CanMarkUnknown(row) ==
    SameVersion(row) /\ effect.state = "handed_off" /\ effect.fence = row.fence

\* The host contract of ToolReconciliationPort.observe: completed with success
\* only of what has landed, not_started only of what never will.
Observable(k, outcome) ==
    \/ outcome = "still_unknown"
    \/ outcome = "succeeded" /\ world[k] = "landed"
    \/ outcome = "failed" /\ world[k] \in {"landed", "dropped"}
    \/ outcome = "not_started" /\ world[k] = "dropped"

\* reconcile(): the host answers observe(), or it raises.
Observed(o, outcome) ==
    /\ exec[o].at = "observe"
    /\ Observable(exec[o].snap.attempt, outcome)
    /\ \/ outcome # "still_unknown" /\ RecordToolReconciliation(o, outcome)
       \/ /\ outcome = "still_unknown"
          /\ \/ /\ exec[o].snap.state = "unknown"
                /\ UNCHANGED <<effect, resolution>>
                /\ Reconciled(o)
             \/ /\ exec[o].snap.state = "handed_off" /\ CanMarkUnknown(exec[o].snap)
                /\ Write([effect EXCEPT !.state = "unknown", !.result = 0])
                /\ UNCHANGED resolution
                /\ Reconciled(o)
             \/ /\ exec[o].snap.state = "handed_off" /\ ~CanMarkUnknown(exec[o].snap)
                /\ Leave(o)
                /\ UNCHANGED <<effect, resolution>>
    /\ UNCHANGED <<authorityVars, called, world>>

\* The host raises, denies or asks the user: nothing is written.
HostDeclines(o) ==
    /\ exec[o].at \in {"observe", "authorize", "bind"}
    /\ Leave(o)
    /\ UNCHANGED <<authorityVars, effect, resolution, called, world>>

\* On to bind_effect_handoff with the record that is in the row.
ToBind(o) == exec' = [exec EXCEPT ![o] =
                         [@ EXCEPT !.at = "bind", !.snap = effect', !.notStarted = FALSE]]

\* The conditions of reauthorize_effect_not_started.
CanReauthorize(o) ==
    /\ ExecAuthority(o)
    /\ effect.state = "unknown" /\ SameVersion(exec[o].snap)
    /\ effect.attempt = exec[o].snap.attempt /\ effect.retries = 0

\* reauthorize_effect_not_started: once, of an unknown row, to the current fence;
\* the registry may take the call again.
ReauthorizeNotStarted(o) ==
    /\ exec[o].notStarted
    /\ \/ /\ CanReauthorize(o)
          /\ Write([effect EXCEPT !.state = "prepared", !.fence = exec[o].fence.epoch,
                                  !.retries = 1])
          /\ called' = [called EXCEPT ![o] = FALSE]
          /\ ToBind(o)
          /\ UNCHANGED resolution
       \/ ~CanReauthorize(o) /\ Conflict(o)

\* A prepared row is taken over when its fence, or its authorization receipt,
\* is another one.
NeedsRefresh(o, newReceipt) ==
    /\ exec[o].snap.state = "prepared"
    /\ exec[o].snap.fence # exec[o].fence.epoch \/ newReceipt

\* refresh_prepared_effect_authority.
RefreshPrepared(o, newReceipt) ==
    /\ ~exec[o].notStarted /\ NeedsRefresh(o, newReceipt)
    /\ \/ /\ ExecAuthority(o)
          /\ effect.state = "prepared" /\ SameVersion(exec[o].snap)
          /\ Write([effect EXCEPT !.fence = exec[o].fence.epoch])
          /\ ToBind(o)
          /\ UNCHANGED <<resolution, called>>
       \/ /\ ~(ExecAuthority(o) /\ effect.state = "prepared" /\ SameVersion(exec[o].snap))
          /\ Conflict(o)

\* prepare_effect: a row that is there by now is returned, whatever its state,
\* unless it is prepared for another fence or receipt.
PrepareEffect(o, newReceipt) ==
    /\ ~exec[o].notStarted /\ ~NeedsRefresh(o, newReceipt)
    /\ \/ /\ effect.state = "none" /\ ExecAuthority(o)
          /\ effect' = [NoEffect EXCEPT !.state = "prepared", !.fence = exec[o].fence.epoch]
          /\ ToBind(o)
          /\ UNCHANGED <<resolution, called>>
       \/ /\ effect.state # "none"
          /\ effect.state = "prepared" => effect.fence = exec[o].fence.epoch /\ ~newReceipt
          /\ UNCHANGED effect
          /\ ToBind(o)
          /\ UNCHANGED <<resolution, called>>
       \/ /\ \/ effect.state = "none" /\ ~ExecAuthority(o)
             \/ effect.state = "prepared" /\ (effect.fence # exec[o].fence.epoch \/ newReceipt)
          /\ Conflict(o)

\* The host grants the call, with a receipt that is or is not the row's.
Authorized(o, newReceipt) ==
    /\ exec[o].at = "authorize"
    /\ \/ ReauthorizeNotStarted(o)
       \/ RefreshPrepared(o, newReceipt)
       \/ PrepareEffect(o, newReceipt)
    /\ UNCHANGED <<authorityVars, world>>

\* mark_effect_handed_off, after the host has bound the handoff.
CanHandOff(o) ==
    /\ ExecAuthority(o)
    /\ effect.state = "prepared" /\ SameVersion(exec[o].snap)
    /\ effect.fence = exec[o].fence.epoch

\* The handoff is durable before the handler is entered.
HandOff(o) ==
    /\ exec[o].at = "bind"
    /\ \/ /\ CanHandOff(o)
          /\ Write([effect EXCEPT !.state = "handed_off", !.attempt = @ + 1])
          /\ exec' = [exec EXCEPT ![o] = [@ EXCEPT !.at = "invoke", !.snap = effect']]
          /\ UNCHANGED <<resolution, called>>
       \/ ~CanHandOff(o) /\ Conflict(o)
    /\ UNCHANGED <<authorityVars, world>>

\* ToolRegistry.invoke enters the handler, which sends the call unless the host
\* has put a stop to the attempt.
EnterHandler(o) ==
    /\ exec[o].at = "invoke" /\ ~called[o]
    /\ called' = [called EXCEPT ![o] = TRUE]
    /\ world' = [world EXCEPT ![exec[o].snap.attempt] = IF @ = "unsent" THEN "sent" ELSE @]
    /\ Goto(o, "handler")
    /\ UNCHANGED <<authorityVars, effect, resolution>>

\* Faulty: settle_effect without the version and the fence epoch.
CanSettleLate(row) == effect.state \in Uncertain

\* settle_effect for the row as handed off: neither lease nor fence is asked for,
\* but the version and the fence epoch must be the ones of the handoff.
CanSettle(row) ==
    SameVersion(row) /\ effect.state \in Uncertain /\ effect.fence = row.fence

\* The handler answers, or invoke turns the call away because the Run is being
\* cancelled.
HandlerReturns(o, answer) ==
    /\ \/ exec[o].at = "handler"
       \/ exec[o].at = "invoke" /\ answer = "failed"
    /\ answer = "succeeded" => world[exec[o].snap.attempt] = "landed"
    /\ IF CanSettle(exec[o].snap)
       THEN Write([effect EXCEPT !.state = answer,
                      !.result = IF answer = "unknown" THEN 0 ELSE exec[o].snap.attempt])
       ELSE UNCHANGED effect
    /\ Leave(o)
    /\ UNCHANGED <<authorityVars, resolution, called, world>>

\* The handler is cancelled, or invoke refuses a call_id it has seen: the attempt
\* is marked unknown.
HandlerInterrupted(o) ==
    /\ exec[o].at = "handler" \/ (exec[o].at = "invoke" /\ called[o])
    /\ IF CanMarkUnknown(exec[o].snap)
       THEN Write([effect EXCEPT !.state = "unknown", !.result = 0])
       ELSE UNCHANGED effect
    /\ Leave(o)
    /\ UNCHANGED <<authorityVars, resolution, called, world>>

-----------------------------------------------------------------------------
(* The outside.                                                            *)

\* A call that was sent lands.
Land(k) ==
    /\ world[k] = "sent"
    /\ world' = [world EXCEPT ![k] = "landed"]
    /\ UNCHANGED <<authorityVars, effect, resolution, exec, called>>

\* A handed-off attempt never lands: it was lost, its process died before it was
\* sent, or the host has withdrawn its idempotency key.
Drop(k) ==
    /\ k <= effect.attempt
    /\ world[k] \in {"unsent", "sent"}
    /\ world' = [world EXCEPT ![k] = "dropped"]
    /\ UNCHANGED <<authorityVars, effect, resolution, exec, called>>

\* The process dies with whatever it was executing.
CrashProcess(o) ==
    /\ Crash(o)
    /\ Leave(o)
    /\ called' = [called EXCEPT ![o] = FALSE]
    /\ UNCHANGED <<effect, resolution, world>>

\* Leases and fences change as RunAuthority says.  What hosts do to the Run row
\* (cancels, decisions) is left out: no operation of the ledger reads that row.
AuthorityMoves ==
    /\ Tick \/ \E o \in Owners : KernelStep(o)
    /\ UNCHANGED effectVars

ExecutorStep(o) ==
    \/ Execute(o)
    \/ \E outcome \in {"succeeded", "failed", "not_started", "still_unknown"} :
          Observed(o, outcome)
    \/ HostDeclines(o)
    \/ \E newReceipt \in BOOLEAN : Authorized(o, newReceipt)
    \/ HandOff(o)
    \/ EnterHandler(o)
    \/ \E answer \in Answers \cup {"unknown"} : HandlerReturns(o, answer)
    \/ HandlerInterrupted(o)

EffectNext ==
    \/ \E o \in Owners : ExecutorStep(o) \/ CrashProcess(o)
    \/ \E k \in Attempts : Land(k) \/ Drop(k)
    \/ AuthorityMoves

EffectSpec == EffectInit /\ [][EffectNext]_ledgerVars

-----------------------------------------------------------------------------
(* Properties.                                                             *)

EffectRows == [state : EffectStates, version : Nat, fence : Nat, attempt : 0..2,
               retries : 0..1, result : 0..2]

Executions == [at : {"idle", "observe", "authorize", "bind", "invoke", "handler"},
               snap : EffectRows, lease : Nat,
               fence : [epoch : Nat, leaseEpoch : Nat], notStarted : BOOLEAN]

\* Type correctness of the row, the resolutions and the executors.
EffectTypeOK ==
    /\ TypeOK
    /\ effect \in EffectRows
    /\ resolution \in [Attempts -> {"none", "not_started"} \cup Answers]
    /\ exec \in [Owners -> Executions]
    /\ called \in [Owners -> BOOLEAN]
    /\ world \in [Attempts -> {"unsent", "sent", "landed", "dropped"}]

\* A Tool call has its side effect at most once, through takeovers, crashes after
\* the handoff, calls that land late, and the retry of a call that was confirmed
\* not started.
AtMostOnce == \A j, k \in Attempts : world[j] = "landed" /\ world[k] = "landed" => j = k

\* The row counts its handoffs: a second one exists only after the first was
\* confirmed not started, and nothing was ever sent for an attempt not recorded.
AttemptsAccounted ==
    /\ effect.state \in {"none", "prepared"} => effect.attempt = effect.retries
    /\ effect.state \notin {"none", "prepared"} => effect.attempt = effect.retries + 1
    /\ effect.retries = 1 => resolution[1] = "not_started"
    /\ \A k \in Attempts : resolution[k] = "not_started" => world[k] = "dropped"
    /\ \A k \in Attempts : world[k] # "unsent" => k <= effect.attempt

\* The stored answer is the answer of the last attempt, never of an earlier one
\* that answered late, and success is stored only of what has landed.
AnswerOfLastAttempt ==
    /\ effect.state \in Answers => effect.result = effect.attempt
    /\ effect.state = "succeeded" => world[effect.attempt] = "landed"

\* A row that was read is the row of the table while the versions agree.
Pinned(row) ==
    row.state # "none" =>
        /\ effect.state # "none"
        /\ row.version <= effect.version
        /\ row.version = effect.version => effect = row

\* Every write raises the version, so that the compare-and-swaps by version alone
\* (handoff, settlement, unknown, refresh) miss no change in between.
SnapshotsPinned == \A o \in Owners : Pinned(exec[o].snap)

\* Where an executor is agrees with what it has read and with the resolutions.
Sound(e) ==
    /\ e.at = "observe" \/ e.notStarted =>
          e.snap.state \in Uncertain /\ e.snap.attempt \in Attempts
    /\ e.notStarted => e.at = "authorize" /\ resolution[e.snap.attempt] = "not_started"
    /\ e.at \in {"invoke", "handler"} =>
          e.snap.attempt \in 1..effect.attempt /\ e.snap.state = "handed_off"

ExecutorsSound ==
    /\ effect.state = "none" => effect = NoEffect
    /\ \A o \in Owners : Sound(exec[o])

\* The inductive invariant of the ledger.
EffectInv ==
    /\ EffectTypeOK
    /\ AttemptsAccounted
    /\ AnswerOfLastAttempt
    /\ SnapshotsPinned
    /\ ExecutorsSound

\* The refinement of OneShotEffect: the ledger with its executors gives the call
\* the one-shot behaviour.
OneShot == INSTANCE OneShotEffect WITH
    happened <- {k \in Attempts : world[k] = "landed"},
    answer   <- IF effect.state \in Answers THEN effect.state ELSE "none"

ImplementsOneShot == OneShot!Spec

\* A process that holds the Run executes an unsettled call (a woken Run is driven
\* again), and the host neither declines nor withholds its confirmation for ever.
EffectFairness ==
    \A o \in Owners :
        /\ WF_ledgerVars(Execute(o))
        /\ SF_ledgerVars(Observed(o, "not_started"))
        /\ SF_ledgerVars(\E newReceipt \in BOOLEAN : Authorized(o, newReceipt))

FairEffectSpec == EffectSpec /\ EffectFairness

\* Some process keeps the Run from some time on.
Kept == \E o \in Owners : <>[]HasAuthority(o)

\* The current attempt was confirmed not started and no retry has been used.
\* (The bound on versions leaves room for the retry.)
Retryable ==
    /\ effect.attempt \in Attempts /\ resolution[effect.attempt] = "not_started"
    /\ effect.retries = 0 /\ effect.version < MaxEffectVersion

\* A call found handed off and confirmed not started is made dispatchable again, or
\* is settled, once some process keeps the Run, as docs/api/effects.md has it: "On
\* reopen, a `handed_off` or `unknown` effect is observed [...]
\* `confirmed_not_started` resets the same effect for dispatch under the current
\* fence epoch".
HandedOffIsReset ==
    Kept => (effect.state = "handed_off" /\ Retryable ~> effect.state # "handed_off")

=============================================================================
