------------------------- MODULE EffectLedgerProofs -------------------------
(***************************************************************************)
(* A Tool call has its side effect at most once and is answered once, for  *)
(* every set of kernel processes.  The argument: every write of the row    *)
(* raises its version, so an executor whose version matches has read the   *)
(* row as it is (SnapshotsPinned); the row therefore counts its handoffs,  *)
(* and the second one is recorded only behind a not_started resolution of  *)
(* the first (AttemptsAccounted), which the host gives only of an attempt  *)
(* that never lands.                                                       *)
(***************************************************************************)
EXTENDS EffectLedger, RunAuthorityProofs, TLAPS

\* What the ledger's invariant says of the types, in the form the steps use.
LEMMA LedgerTypes ==
    ASSUME EffectInv
    PROVE  /\ TypeOK /\ effect \in EffectRows
           /\ resolution \in [Attempts -> {"none", "not_started"} \cup Answers]
           /\ exec \in [Owners -> Executions]
           /\ called \in [Owners -> BOOLEAN]
           /\ world \in [Attempts -> {"unsent", "sent", "landed", "dropped"}]
BY DEF EffectInv, EffectTypeOK

\* The states written as literals are states of the row.
LEMMA StateNames ==
    /\ {"none", "prepared", "handed_off", "unknown"} \subseteq EffectStates
    /\ Answers \subseteq EffectStates
BY DEF EffectStates

\* The numbers written as literals are numbers of the row.
LEMMA NumberFacts == 0 \in 0..2 /\ 0 \in 0..1 /\ 1 \in 0..1 /\ 0 \in Nat
OBVIOUS

\* A row with a higher version.
LEMMA WriteFacts ==
    ASSUME NEW upd \in EffectRows, effect \in EffectRows, Write(upd)
    PROVE  /\ effect' \in EffectRows
           /\ effect'.version = effect.version + 1
           /\ effect'.state = upd.state /\ effect'.attempt = upd.attempt
           /\ effect'.retries = upd.retries /\ effect'.result = upd.result
           /\ effect'.fence = upd.fence
BY DEF Write, EffectRows

\* The frame of every step of one executor: what has to be looked at is the row,
\* the resolutions and that executor.
LEMMA LedgerFrame ==
    ASSUME EffectInv, TypeOK', NEW o \in Owners,
           effect' \in EffectRows,
           resolution' \in [Attempts -> {"none", "not_started"} \cup Answers],
           exec' \in [Owners -> Executions],
           called' \in [Owners -> BOOLEAN],
           world' \in [Attempts -> {"unsent", "sent", "landed", "dropped"}],
           \/ effect' = effect
           \/ effect'.version = effect.version + 1 /\ effect'.state # "none"
           \/ effect.state = "none" /\ effect'.state # "none",
           effect'.attempt >= effect.attempt,
           \A k \in Attempts : resolution[k] = "not_started" => resolution'[k] = "not_started",
           \A p \in Owners \ {o} : exec'[p] = exec[p],
           exec'[o].snap \in {exec[o].snap, effect', NoEffect},
           Sound(exec[o])',
           effect'.state = "none" => effect' = effect,
           AttemptsAccounted', AnswerOfLastAttempt'
    PROVE  EffectInv'
<1>t. /\ effect \in EffectRows /\ exec \in [Owners -> Executions]
      /\ \A p \in Owners : exec[p].snap \in EffectRows
      /\ effect.version \in Nat /\ effect.attempt \in 0..2 /\ effect'.attempt \in 0..2
  BY LedgerTypes DEF EffectRows, Executions
<1>1. EffectTypeOK'
  BY DEF EffectTypeOK
<1>2. SnapshotsPinned'
  <2>1. ASSUME NEW row \in EffectRows, Pinned(row) PROVE Pinned(row)'
    BY <2>1, <1>t DEF Pinned, EffectRows
  <2>2. Pinned(effect)' /\ Pinned(NoEffect)'
    BY <1>t DEF Pinned, NoEffect, EffectRows
  <2>3. \A p \in Owners : Pinned(exec[p].snap)
    BY DEF EffectInv, SnapshotsPinned
  <2>4. ASSUME NEW p \in Owners PROVE Pinned(exec[p].snap)'
    <3>1. exec'[p].snap \in {exec[p].snap, effect', NoEffect}
      OBVIOUS
    <3>2. CASE exec'[p].snap = exec[p].snap
      BY <2>1, <2>3, <1>t, <3>2 DEF Pinned
    <3>3. CASE exec'[p].snap = effect'
      BY <2>2, <3>3 DEF Pinned
    <3>4. CASE exec'[p].snap = NoEffect
      BY <2>2, <3>4 DEF Pinned
    <3> QED BY <3>1, <3>2, <3>3, <3>4
  <2> QED BY <2>4 DEF SnapshotsPinned
<1>3. ExecutorsSound'
  <2>1. effect'.state = "none" => effect' = NoEffect
    BY DEF EffectInv, ExecutorsSound
  <2>2. ASSUME NEW p \in Owners, p # o PROVE Sound(exec[p])'
    <3>1. Sound(exec[p]) /\ exec'[p] = exec[p]
      BY <2>2 DEF EffectInv, ExecutorsSound
    <3>2. exec[p].snap.attempt \in 0..2
      BY <1>t DEF EffectRows
    <3> QED BY <3>1, <3>2, <1>t DEF Sound
  <2> QED BY <2>1, <2>2 DEF ExecutorsSound
<1> QED BY <1>1, <1>2, <1>3 DEF EffectInv

\* Leaving execute() leaves nothing to be sound about.
LEMMA LeaveFacts ==
    ASSUME exec \in [Owners -> Executions], NEW o \in Owners, Leave(o)
    PROVE  /\ exec' \in [Owners -> Executions]
           /\ \A p \in Owners \ {o} : exec'[p] = exec[p]
           /\ exec'[o].snap = NoEffect
           /\ Sound(exec[o])'
<1>1. NoExec \in Executions
  BY DEF NoExec, NoEffect, NoFence, Executions, EffectRows, EffectStates
<1>2. /\ exec' \in [Owners -> Executions] /\ exec'[o] = NoExec
      /\ \A p \in Owners \ {o} : exec'[p] = exec[p]
  BY <1>1 DEF Leave
<1>3. Sound(exec[o])'
  BY <1>2 DEF Sound, NoExec
<1> QED BY <1>2, <1>3 DEF NoExec

\* An executor that only leaves, or that a conflict throws out.
LEMMA LeavePreserves ==
    ASSUME EffectInv, TypeOK', NEW o \in Owners, Leave(o),
           called' \in [Owners -> BOOLEAN], UNCHANGED <<effect, resolution, world>>
    PROVE  EffectInv'
<1>1. /\ effect' \in EffectRows
      /\ resolution' \in [Attempts -> {"none", "not_started"} \cup Answers]
      /\ world' \in [Attempts -> {"unsent", "sent", "landed", "dropped"}]
      /\ effect'.attempt >= effect.attempt
      /\ AttemptsAccounted' /\ AnswerOfLastAttempt'
  BY LedgerTypes DEF EffectInv, AttemptsAccounted, AnswerOfLastAttempt, EffectRows
<1>2. exec \in [Owners -> Executions]
  BY LedgerTypes
<1> QED BY <1>1, <1>2, LeaveFacts, LedgerFrame

\* execute() reads the row.
LEMMA ExecutePreserves ==
    ASSUME EffectInv, NEW o \in Owners, Execute(o)
    PROVE  EffectInv'
<1>t. /\ TypeOK /\ effect \in EffectRows
      /\ resolution \in [Attempts -> {"none", "not_started"} \cup Answers]
      /\ exec \in [Owners -> Executions]
      /\ called \in [Owners -> BOOLEAN]
      /\ world \in [Attempts -> {"unsent", "sent", "landed", "dropped"}]
  BY LedgerTypes
<1>u. UNCHANGED <<authorityVars, effect, resolution, called, world>>
  BY DEF Execute
<1>1. TypeOK'
  BY <1>t, <1>u DEF authorityVars, TypeOK
<1> DEFINE e == [at |-> IF effect.state \in Uncertain THEN "observe" ELSE "authorize",
                 snap |-> effect, lease |-> heldLease[o], fence |-> heldFence[o],
                 notStarted |-> FALSE]
<1>2. e \in Executions
  BY <1>t DEF Executions, TypeOK
<1>3. /\ exec' \in [Owners -> Executions] /\ exec'[o] = e
      /\ \A p \in Owners \ {o} : exec'[p] = exec[p]
  BY <1>t, <1>2 DEF Execute
<1>4. Sound(e)
  <2>1. effect.state \in Uncertain => effect.attempt \in Attempts
    BY <1>t DEF EffectInv, AttemptsAccounted, Uncertain, EffectRows, Attempts
  <2> QED BY <2>1 DEF Sound
<1>5. Sound(exec[o])'
  BY <1>3, <1>4, <1>u DEF Sound
<1>6. /\ AttemptsAccounted' /\ AnswerOfLastAttempt' /\ effect'.attempt >= effect.attempt
  BY <1>t, <1>u DEF EffectInv, AttemptsAccounted, AnswerOfLastAttempt, EffectRows
<1>7. exec'[o].snap \in {exec[o].snap, effect', NoEffect}
  BY <1>3, <1>u
<1> HIDE DEF e
<1> QED BY <1>t, <1>u, <1>1, <1>3, <1>5, <1>6, <1>7, LedgerFrame

\* After a reconciliation the executor leaves or goes on to authorize an attempt
\* with a not_started resolution.
LEMMA ReconciledFacts ==
    ASSUME exec \in [Owners -> Executions], NEW o \in Owners, Reconciled(o),
           exec[o].at = "observe", Sound(exec[o])
    PROVE  /\ exec' \in [Owners -> Executions]
           /\ \A p \in Owners \ {o} : exec'[p] = exec[p]
           /\ exec'[o].snap \in {exec[o].snap, NoEffect}
           /\ Sound(exec[o])'
<1>1. CASE exec' = [exec EXCEPT ![o] = NoExec]
  BY <1>1, LeaveFacts DEF Leave
<1>2. CASE /\ resolution'[exec[o].snap.attempt] = "not_started"
           /\ exec' = [exec EXCEPT ![o] =
                 [exec[o] EXCEPT !.at = "authorize", !.notStarted = TRUE]]
  <2>1. [exec[o] EXCEPT !.at = "authorize", !.notStarted = TRUE] \in Executions
    BY DEF Executions
  <2>2. /\ exec' \in [Owners -> Executions]
        /\ exec'[o] = [exec[o] EXCEPT !.at = "authorize", !.notStarted = TRUE]
        /\ \A p \in Owners \ {o} : exec'[p] = exec[p]
    BY <1>2, <2>1
  <2>3. exec'[o].snap = exec[o].snap /\ exec'[o].at = "authorize" /\ exec'[o].notStarted
    BY <2>2 DEF Executions
  <2> QED BY <1>2, <2>2, <2>3 DEF Sound
<1> QED BY <1>1, <1>2 DEF Reconciled

\* The host has answered observe().
LEMMA ObservedPreserves ==
    ASSUME EffectInv, NEW o \in Owners,
           NEW outcome \in {"succeeded", "failed", "not_started", "still_unknown"},
           Observed(o, outcome)
    PROVE  EffectInv'
<1>t. /\ TypeOK /\ effect \in EffectRows
      /\ resolution \in [Attempts -> {"none", "not_started"} \cup Answers]
      /\ exec \in [Owners -> Executions]
      /\ called \in [Owners -> BOOLEAN]
      /\ world \in [Attempts -> {"unsent", "sent", "landed", "dropped"}]
  BY LedgerTypes
<1>u. UNCHANGED <<authorityVars, called, world>>
  BY DEF Observed
<1>1. TypeOK'
  BY <1>t, <1>u DEF authorityVars, TypeOK
<1> DEFINE row == exec[o].snap
           k == exec[o].snap.attempt
<1>2. /\ exec[o].at = "observe" /\ Sound(exec[o]) /\ k \in Attempts
      /\ row \in EffectRows /\ Pinned(row) /\ row.state \in Uncertain
  BY <1>t DEF Observed, EffectInv, ExecutorsSound, SnapshotsPinned, Sound, Executions
<1>3. CASE Leave(o) /\ UNCHANGED <<effect, resolution>>
  BY <1>1, <1>3, <1>t, <1>u, LeavePreserves
<1>4. CASE Reconciled(o) /\ UNCHANGED <<effect, resolution>>
  <2>1. /\ AttemptsAccounted' /\ AnswerOfLastAttempt' /\ effect'.attempt >= effect.attempt
    BY <1>t, <1>u, <1>4 DEF EffectInv, AttemptsAccounted, AnswerOfLastAttempt, EffectRows
  <2> QED BY <1>t, <1>u, <1>1, <1>2, <1>4, <2>1, ReconciledFacts, LedgerFrame
<1>5. CASE /\ Reconciled(o) /\ outcome = "not_started" /\ UNCHANGED effect
           /\ resolution[k] = "none"
           /\ resolution' = [resolution EXCEPT ![k] = outcome]
  <2>0. world[k] = "dropped"
    BY <1>5 DEF Observed, Observable
  <2>1. resolution' \in [Attempts -> {"none", "not_started"} \cup Answers]
    BY <1>t, <1>2, <1>5
  <2>2. \A j \in Attempts : resolution[j] = "not_started" => resolution'[j] = "not_started"
    BY <1>t, <1>2, <1>5
  <2>3. AttemptsAccounted'
    BY <1>t, <1>u, <1>2, <1>5, <2>0, <2>2 DEF EffectInv, AttemptsAccounted, Attempts
  <2>4. AnswerOfLastAttempt' /\ effect'.attempt >= effect.attempt
    BY <1>t, <1>u, <1>5 DEF EffectInv, AnswerOfLastAttempt, EffectRows
  <2> QED BY <1>t, <1>u, <1>1, <1>2, <1>5, <2>1, <2>2, <2>3, <2>4, ReconciledFacts, LedgerFrame
<1>6. CASE /\ Reconciled(o) /\ outcome \in Answers /\ effect.attempt = k
           /\ effect.state \in Uncertain
           /\ resolution[k] = "none"
           /\ resolution' = [resolution EXCEPT ![k] = outcome]
           /\ Write([effect EXCEPT !.state = outcome, !.result = k])
  <2>0. outcome = "succeeded" => world[k] = "landed"
    BY <1>6 DEF Observed, Observable, Answers
  <2>1. /\ resolution' \in [Attempts -> {"none", "not_started"} \cup Answers]
        /\ \A j \in Attempts : resolution[j] = "not_started" <=> resolution'[j] = "not_started"
    BY <1>t, <1>2, <1>6 DEF Answers
  <2>2. [effect EXCEPT !.state = outcome, !.result = k] \in EffectRows
    BY <1>t, <1>2, <1>6 DEF EffectRows, EffectStates, Attempts
  <2>3. /\ effect' \in EffectRows /\ effect'.version = effect.version + 1
        /\ effect'.state = outcome /\ effect'.attempt = k /\ effect'.retries = effect.retries
        /\ effect'.result = k
    BY <1>t, <1>6, <2>2, WriteFacts DEF EffectRows
  <2>4. AttemptsAccounted'
    BY <1>t, <1>u, <1>2, <1>6, <2>1, <2>3
       DEF EffectInv, AttemptsAccounted, Attempts, Answers, Uncertain
  <2>5. AnswerOfLastAttempt' /\ effect'.attempt >= effect.attempt /\ effect'.state # "none"
    BY <1>t, <1>u, <1>2, <1>6, <2>0, <2>3 DEF AnswerOfLastAttempt, EffectRows, Answers, Attempts
  <2> QED BY <1>t, <1>u, <1>1, <1>2, <1>6, <2>1, <2>3, <2>4, <2>5, ReconciledFacts, LedgerFrame
<1>7. CASE /\ Reconciled(o) /\ UNCHANGED resolution /\ effect.state = "handed_off"
           /\ Write([effect EXCEPT !.state = "unknown", !.result = 0])
  <2>2. [effect EXCEPT !.state = "unknown", !.result = 0] \in EffectRows
    BY <1>t, StateNames, NumberFacts DEF EffectRows
  <2>3. /\ effect' \in EffectRows /\ effect'.version = effect.version + 1
        /\ effect'.state = "unknown" /\ effect'.attempt = effect.attempt
        /\ effect'.retries = effect.retries
    BY <1>t, <1>7, <2>2, WriteFacts DEF EffectRows
  <2>4. AttemptsAccounted'
    BY <1>t, <1>u, <1>7, <2>3 DEF EffectInv, AttemptsAccounted
  <2>5. AnswerOfLastAttempt' /\ effect'.attempt >= effect.attempt
    BY <1>t, <2>3 DEF AnswerOfLastAttempt, EffectRows, Answers
  <2> QED BY <1>t, <1>u, <1>1, <1>2, <1>7, <2>3, <2>4, <2>5, ReconciledFacts, LedgerFrame
<1>8. CASE outcome # "still_unknown"
  <2>1. RecordToolReconciliation(o, outcome)
    BY <1>8 DEF Observed
  <2>2. outcome = "not_started" \/ outcome \in Answers
    BY <1>8 DEF Answers
  <2> QED BY <1>3, <1>4, <1>5, <1>6, <2>1, <2>2 DEF RecordToolReconciliation, Answers
<1>9. CASE outcome = "still_unknown"
  BY <1>3, <1>4, <1>7, <1>9 DEF Observed, CanMarkUnknown
<1> QED BY <1>8, <1>9

\* Going on to bind: the row in the table is the row held.
LEMMA ToBindFacts ==
    ASSUME exec \in [Owners -> Executions], NEW o \in Owners, ToBind(o),
           effect' \in EffectRows
    PROVE  /\ exec' \in [Owners -> Executions]
           /\ \A p \in Owners \ {o} : exec'[p] = exec[p]
           /\ exec'[o].snap = effect'
           /\ Sound(exec[o])'
<1>1. [exec[o] EXCEPT !.at = "bind", !.snap = effect', !.notStarted = FALSE] \in Executions
  BY DEF Executions
<1>2. /\ exec' \in [Owners -> Executions]
      /\ exec'[o] = [exec[o] EXCEPT !.at = "bind", !.snap = effect', !.notStarted = FALSE]
      /\ \A p \in Owners \ {o} : exec'[p] = exec[p]
  BY <1>1 DEF ToBind
<1>3. exec'[o].snap = effect' /\ exec'[o].at = "bind" /\ exec'[o].notStarted = FALSE
  BY <1>2 DEF Executions
<1> QED BY <1>2, <1>3 DEF Sound

\* The host has granted the call, and the row is written for this executor.
LEMMA AuthorizedPreserves ==
    ASSUME EffectInv, NEW o \in Owners, NEW newReceipt \in BOOLEAN,
           Authorized(o, newReceipt)
    PROVE  EffectInv'
<1>t. /\ TypeOK /\ effect \in EffectRows
      /\ resolution \in [Attempts -> {"none", "not_started"} \cup Answers]
      /\ exec \in [Owners -> Executions]
      /\ called \in [Owners -> BOOLEAN]
      /\ world \in [Attempts -> {"unsent", "sent", "landed", "dropped"}]
  BY LedgerTypes
<1>u. UNCHANGED <<authorityVars, world>>
  BY DEF Authorized
<1>1. TypeOK'
  BY <1>t, <1>u DEF authorityVars, TypeOK
<1>2. exec[o].fence.epoch \in Nat
  BY <1>t DEF Executions
<1>3. CASE Conflict(o)
  BY <1>1, <1>3, <1>t, <1>u, LeavePreserves DEF Conflict
<1>4. CASE /\ exec[o].notStarted /\ effect.state = "unknown"
           /\ effect.attempt = exec[o].snap.attempt /\ effect.retries = 0
           /\ Write([effect EXCEPT !.state = "prepared", !.fence = exec[o].fence.epoch,
                                   !.retries = 1])
           /\ called' = [called EXCEPT ![o] = FALSE]
           /\ ToBind(o) /\ UNCHANGED resolution
  <2>1. [effect EXCEPT !.state = "prepared", !.fence = exec[o].fence.epoch,
                       !.retries = 1] \in EffectRows
    BY <1>t, <1>2, StateNames, NumberFacts DEF EffectRows
  <2>2. /\ effect' \in EffectRows /\ effect'.version = effect.version + 1
        /\ effect'.state = "prepared" /\ effect'.attempt = effect.attempt
        /\ effect'.retries = 1
    BY <1>t, <1>4, <2>1, WriteFacts DEF EffectRows
  <2>3. effect.attempt = 1 /\ resolution[1] = "not_started"
    <3>1. Sound(exec[o])
      BY DEF EffectInv, ExecutorsSound
    <3>2. effect.attempt = 1
      BY <1>4 DEF EffectInv, AttemptsAccounted
    <3> QED BY <3>1, <3>2, <1>4 DEF Sound
  <2>4. AttemptsAccounted'
    BY <1>t, <1>u, <1>4, <2>2, <2>3 DEF EffectInv, AttemptsAccounted
  <2>5. AnswerOfLastAttempt' /\ effect'.attempt >= effect.attempt
    BY <1>t, <2>2 DEF AnswerOfLastAttempt, EffectRows, Answers
  <2>6. called' \in [Owners -> BOOLEAN]
    BY <1>t, <1>4
  <2> QED BY <1>t, <1>u, <1>1, <1>4, <2>2, <2>4, <2>5, <2>6, ToBindFacts, LedgerFrame
<1>5. CASE /\ effect.state = "prepared"
           /\ Write([effect EXCEPT !.fence = exec[o].fence.epoch])
           /\ ToBind(o) /\ UNCHANGED <<resolution, called>>
  <2>1. [effect EXCEPT !.fence = exec[o].fence.epoch] \in EffectRows
    BY <1>t, <1>2 DEF EffectRows
  <2>2. /\ effect' \in EffectRows /\ effect'.version = effect.version + 1
        /\ effect'.state = "prepared" /\ effect'.attempt = effect.attempt
        /\ effect'.retries = effect.retries
    BY <1>t, <1>5, <2>1, WriteFacts DEF EffectRows
  <2>4. AttemptsAccounted'
    BY <1>t, <1>u, <1>5, <2>2 DEF EffectInv, AttemptsAccounted
  <2>5. AnswerOfLastAttempt' /\ effect'.attempt >= effect.attempt
    BY <1>t, <2>2 DEF AnswerOfLastAttempt, EffectRows, Answers
  <2> QED BY <1>t, <1>u, <1>1, <1>5, <2>2, <2>4, <2>5, ToBindFacts, LedgerFrame
<1>6. CASE /\ effect.state = "none"
           /\ effect' = [NoEffect EXCEPT !.state = "prepared", !.fence = exec[o].fence.epoch]
           /\ ToBind(o) /\ UNCHANGED <<resolution, called>>
  <2>1. effect = NoEffect
    BY <1>6 DEF EffectInv, ExecutorsSound
  <2>2. /\ effect' \in EffectRows /\ effect'.state = "prepared"
        /\ effect'.attempt = effect.attempt /\ effect'.retries = effect.retries
    BY <1>2, <1>6, <2>1, StateNames, NumberFacts DEF NoEffect, EffectRows
  <2>4. AttemptsAccounted'
    BY <1>t, <1>u, <1>6, <2>2 DEF EffectInv, AttemptsAccounted
  <2>5. AnswerOfLastAttempt' /\ effect'.attempt >= effect.attempt
    BY <1>t, <2>2 DEF AnswerOfLastAttempt, EffectRows, Answers
  <2> QED BY <1>t, <1>u, <1>1, <1>6, <2>2, <2>4, <2>5, ToBindFacts, LedgerFrame
<1>7. CASE UNCHANGED <<effect, resolution, called>> /\ ToBind(o)
  <2>1. /\ AttemptsAccounted' /\ AnswerOfLastAttempt' /\ effect'.attempt >= effect.attempt
    BY <1>t, <1>u, <1>7 DEF EffectInv, AttemptsAccounted, AnswerOfLastAttempt, EffectRows
  <2> QED BY <1>t, <1>u, <1>1, <1>7, <2>1, ToBindFacts, LedgerFrame
<1>8. CASE ReauthorizeNotStarted(o)
  BY <1>3, <1>4, <1>8 DEF ReauthorizeNotStarted, CanReauthorize
<1>9. CASE RefreshPrepared(o, newReceipt)
  BY <1>3, <1>5, <1>9 DEF RefreshPrepared
<1>10. CASE PrepareEffect(o, newReceipt)
  BY <1>3, <1>6, <1>7, <1>10 DEF PrepareEffect
<1> QED BY <1>8, <1>9, <1>10 DEF Authorized

\* The handoff is recorded.
LEMMA HandOffPreserves ==
    ASSUME EffectInv, NEW o \in Owners, HandOff(o)
    PROVE  EffectInv'
<1>t. /\ TypeOK /\ effect \in EffectRows
      /\ resolution \in [Attempts -> {"none", "not_started"} \cup Answers]
      /\ exec \in [Owners -> Executions]
      /\ called \in [Owners -> BOOLEAN]
      /\ world \in [Attempts -> {"unsent", "sent", "landed", "dropped"}]
  BY LedgerTypes
<1>u. UNCHANGED <<authorityVars, world>>
  BY DEF HandOff
<1>1. TypeOK'
  BY <1>t, <1>u DEF authorityVars, TypeOK
<1>2. CASE Conflict(o)
  BY <1>1, <1>2, <1>t, <1>u, LeavePreserves DEF Conflict
<1>3. CASE /\ effect.state = "prepared"
           /\ Write([effect EXCEPT !.state = "handed_off", !.attempt = @ + 1])
           /\ exec' = [exec EXCEPT ![o] = [@ EXCEPT !.at = "invoke", !.snap = effect']]
           /\ UNCHANGED <<resolution, called>> /\ exec[o].at = "bind"
  <2>0. effect.attempt = effect.retries /\ effect.retries \in 0..1
    BY <1>t, <1>3 DEF EffectInv, AttemptsAccounted, EffectRows
  <2>1. [effect EXCEPT !.state = "handed_off", !.attempt = @ + 1] \in EffectRows
    <3>1. effect.attempt + 1 \in 0..2
      BY <2>0
    <3> QED BY <1>t, <3>1, StateNames DEF EffectRows
  <2>2. /\ effect' \in EffectRows /\ effect'.version = effect.version + 1
        /\ effect'.state = "handed_off" /\ effect'.attempt = effect.attempt + 1
        /\ effect'.retries = effect.retries
    BY <1>t, <1>3, <2>1, WriteFacts DEF EffectRows
  <2>3. [exec[o] EXCEPT !.at = "invoke", !.snap = effect'] \in Executions
    BY <1>t, <2>2 DEF Executions
  <2>4. /\ exec' \in [Owners -> Executions]
        /\ exec'[o] = [exec[o] EXCEPT !.at = "invoke", !.snap = effect']
        /\ \A p \in Owners \ {o} : exec'[p] = exec[p]
    BY <1>t, <1>3, <2>3
  <2>5. exec'[o].snap = effect' /\ exec'[o].at = "invoke"
        /\ exec'[o].notStarted = exec[o].notStarted
    BY <1>t, <2>4 DEF Executions
  <2>6. exec[o].notStarted = FALSE
    <3>1. Sound(exec[o])
      BY DEF EffectInv, ExecutorsSound
    <3> QED BY <1>t, <1>3, <3>1 DEF Sound, Executions
  <2>7. Sound(exec[o])'
    BY <2>0, <2>2, <2>5, <2>6 DEF Sound
  <2>8. AttemptsAccounted'
    BY <1>t, <1>u, <1>3, <2>0, <2>2 DEF EffectInv, AttemptsAccounted, Attempts
  <2>9. AnswerOfLastAttempt' /\ effect'.attempt >= effect.attempt
    BY <1>t, <2>0, <2>2 DEF AnswerOfLastAttempt, Answers
  <2> QED BY <1>t, <1>u, <1>1, <1>3, <2>2, <2>4, <2>5, <2>7, <2>8, <2>9, LedgerFrame
<1> QED BY <1>2, <1>3 DEF HandOff, CanHandOff

\* The handler is entered: what it sends belongs to a recorded attempt.
LEMMA EnterHandlerPreserves ==
    ASSUME EffectInv, NEW o \in Owners, EnterHandler(o)
    PROVE  EffectInv'
<1>t. /\ TypeOK /\ effect \in EffectRows
      /\ resolution \in [Attempts -> {"none", "not_started"} \cup Answers]
      /\ exec \in [Owners -> Executions]
      /\ called \in [Owners -> BOOLEAN]
      /\ world \in [Attempts -> {"unsent", "sent", "landed", "dropped"}]
  BY LedgerTypes
<1>u. UNCHANGED <<authorityVars, effect, resolution>>
  BY DEF EnterHandler
<1>1. TypeOK'
  BY <1>t, <1>u DEF authorityVars, TypeOK
<1> DEFINE k == exec[o].snap.attempt
<1>2. exec[o].at = "invoke" /\ Sound(exec[o]) /\ effect.attempt \in 0..2
  BY <1>t DEF EnterHandler, EffectInv, ExecutorsSound, EffectRows
<1>3. k \in Attempts /\ k <= effect.attempt
  BY <1>2 DEF Sound, Attempts
<1>4. /\ called' \in [Owners -> BOOLEAN]
      /\ world' \in [Attempts -> {"unsent", "sent", "landed", "dropped"}]
      /\ \A j \in Attempts : world'[j] = world[j] \/ (j = k /\ world[j] = "unsent" /\ world'[j] = "sent")
  BY <1>t, <1>3 DEF EnterHandler
<1>5. /\ exec' \in [Owners -> Executions]
      /\ \A p \in Owners \ {o} : exec'[p] = exec[p]
      /\ exec'[o].snap = exec[o].snap /\ exec'[o].at = "handler"
      /\ exec'[o].notStarted = exec[o].notStarted
  <2>1. [exec[o] EXCEPT !.at = "handler"] \in Executions
    BY <1>t DEF Executions
  <2>2. exec'[o] = [exec[o] EXCEPT !.at = "handler"]
    BY <1>t DEF EnterHandler, Goto
  <2>3. exec' \in [Owners -> Executions] /\ \A p \in Owners \ {o} : exec'[p] = exec[p]
    BY <1>t, <2>1 DEF EnterHandler, Goto
  <2> QED BY <1>t, <2>2, <2>3 DEF Executions
<1>6. Sound(exec[o])'
  BY <1>2, <1>5, <1>u DEF Sound
<1>7. AttemptsAccounted'
  BY <1>t, <1>u, <1>3, <1>4 DEF EffectInv, AttemptsAccounted
<1>8. AnswerOfLastAttempt' /\ effect'.attempt >= effect.attempt
  <2>1. effect.state = "succeeded" => effect.attempt \in Attempts
    BY <1>t DEF EffectInv, AttemptsAccounted, EffectRows, Attempts
  <2> QED BY <1>t, <1>u, <1>2, <1>4, <2>1 DEF EffectInv, AnswerOfLastAttempt
<1> HIDE DEF k
<1> QED BY <1>t, <1>u, <1>1, <1>4, <1>5, <1>6, <1>7, <1>8, LedgerFrame

\* The handler's answer, or its interruption, is stored in the row it was handed
\* off with, or not at all.
LEMMA SettlePreserves ==
    ASSUME EffectInv, NEW o \in Owners, NEW answer \in Answers \cup {"unknown"},
           HandlerReturns(o, answer) \/ (answer = "unknown" /\ HandlerInterrupted(o))
    PROVE  EffectInv'
<1>t. /\ TypeOK /\ effect \in EffectRows
      /\ resolution \in [Attempts -> {"none", "not_started"} \cup Answers]
      /\ exec \in [Owners -> Executions]
      /\ called \in [Owners -> BOOLEAN]
      /\ world \in [Attempts -> {"unsent", "sent", "landed", "dropped"}]
  BY LedgerTypes
<1>u. UNCHANGED <<authorityVars, resolution, called, world>> /\ Leave(o)
  BY DEF HandlerReturns, HandlerInterrupted
<1>1. TypeOK'
  BY <1>t, <1>u DEF authorityVars, TypeOK
<1> DEFINE row == exec[o].snap
<1>2. /\ exec[o].at \in {"invoke", "handler"} /\ Sound(exec[o]) /\ Pinned(row)
      /\ row \in EffectRows
  BY <1>t DEF HandlerReturns, HandlerInterrupted, EffectInv, ExecutorsSound,
     SnapshotsPinned, Executions
<1>3. CASE UNCHANGED effect
  BY <1>1, <1>3, <1>t, <1>u, LeavePreserves
<1>4. CASE /\ SameVersion(row) /\ effect.state \in Uncertain
           /\ answer = "succeeded" => world[row.attempt] = "landed"
           /\ Write([effect EXCEPT !.state = answer,
                        !.result = IF answer = "unknown" THEN 0 ELSE row.attempt])
  <2>1. effect = row /\ row.attempt \in 0..2
    BY <1>2, <1>4 DEF SameVersion, Sound, Pinned, EffectRows
  <2>2. [effect EXCEPT !.state = answer,
           !.result = IF answer = "unknown" THEN 0 ELSE row.attempt] \in EffectRows
    BY <1>t, <2>1, StateNames, NumberFacts DEF EffectRows
  <2>3. /\ effect' \in EffectRows /\ effect'.version = effect.version + 1
        /\ effect'.state = answer /\ effect'.attempt = effect.attempt
        /\ effect'.retries = effect.retries
        /\ answer # "unknown" => effect'.result = row.attempt
    BY <1>t, <1>4, <2>2, WriteFacts DEF EffectRows
  <2>4. AttemptsAccounted'
    BY <1>t, <1>u, <1>4, <2>3 DEF EffectInv, AttemptsAccounted, Uncertain, Answers
  <2>5. AnswerOfLastAttempt' /\ effect'.attempt >= effect.attempt /\ effect'.state # "none"
    BY <1>t, <1>u, <1>4, <2>1, <2>3 DEF AnswerOfLastAttempt, Answers
  <2> QED BY <1>t, <1>u, <1>1, <2>3, <2>4, <2>5, LeaveFacts, LedgerFrame
<1>5. CASE HandlerReturns(o, answer)
  BY <1>3, <1>4, <1>5 DEF HandlerReturns, CanSettle
<1>6. CASE answer = "unknown" /\ HandlerInterrupted(o)
  BY <1>3, <1>4, <1>6 DEF HandlerInterrupted, CanMarkUnknown, Uncertain
<1> QED BY <1>5, <1>6

\* What becomes of an attempt outside: it lands or it never does.
LEMMA WorldPreserves ==
    ASSUME EffectInv, NEW k \in Attempts, Land(k) \/ Drop(k)
    PROVE  EffectInv'
<1>t. /\ TypeOK /\ effect \in EffectRows
      /\ resolution \in [Attempts -> {"none", "not_started"} \cup Answers]
      /\ exec \in [Owners -> Executions]
      /\ called \in [Owners -> BOOLEAN]
      /\ world \in [Attempts -> {"unsent", "sent", "landed", "dropped"}]
  BY LedgerTypes
<1>u. UNCHANGED <<authorityVars, effect, resolution, exec, called>>
  BY DEF Land, Drop
<1>1. TypeOK'
  BY <1>t, <1>u DEF authorityVars, TypeOK
<1>2. /\ world' \in [Attempts -> {"unsent", "sent", "landed", "dropped"}]
      /\ world[k] \in {"unsent", "sent"}
      /\ \A j \in Attempts : j # k => world'[j] = world[j]
      /\ world[k] = "sent" \/ k <= effect.attempt
  BY <1>t DEF Land, Drop
<1>3. EffectTypeOK'
  BY <1>t, <1>u, <1>1, <1>2 DEF EffectTypeOK
<1>4. AttemptsAccounted'
  BY <1>t, <1>u, <1>2 DEF EffectInv, AttemptsAccounted
<1>5. AnswerOfLastAttempt'
  <2>1. effect.state = "succeeded" => effect.attempt \in Attempts /\ effect.attempt # k
    BY <1>t, <1>2 DEF EffectInv, AttemptsAccounted, AnswerOfLastAttempt, EffectRows, Attempts
  <2> QED BY <1>u, <1>2, <2>1 DEF EffectInv, AnswerOfLastAttempt
<1>6. SnapshotsPinned' /\ ExecutorsSound'
  BY <1>u DEF EffectInv, SnapshotsPinned, Pinned, ExecutorsSound, Sound
<1> QED BY <1>3, <1>4, <1>5, <1>6 DEF EffectInv

-----------------------------------------------------------------------------

\* The ledger's invariant is inductive.
LEMMA EffectStep == EffectInv /\ [EffectNext]_ledgerVars => EffectInv'
<1> SUFFICES ASSUME EffectInv, [EffectNext]_ledgerVars PROVE EffectInv'
  OBVIOUS
<1>t. /\ TypeOK /\ called \in [Owners -> BOOLEAN]
  BY LedgerTypes
<1>1. ASSUME NEW o \in Owners, ExecutorStep(o) PROVE EffectInv'
  <2>1. CASE HostDeclines(o)
    <3>1. /\ Leave(o) /\ UNCHANGED <<authorityVars, effect, resolution, called, world>>
      BY <2>1 DEF HostDeclines
    <3>2. TypeOK'
      BY <1>t, <3>1 DEF authorityVars, TypeOK
    <3> QED BY <1>t, <3>1, <3>2, LeavePreserves
  <2>2. CASE HandlerInterrupted(o)
    BY <2>2, SettlePreserves
  <2> QED BY <1>1, <2>1, <2>2, ExecutePreserves, ObservedPreserves, AuthorizedPreserves,
             HandOffPreserves, EnterHandlerPreserves, SettlePreserves DEF ExecutorStep
<1>2. ASSUME NEW o \in Owners, CrashProcess(o) PROVE EffectInv'
  <2>1. TypeOK'
    BY <1>t, <1>2, TypeStep DEF CrashProcess, Next
  <2>2. called' \in [Owners -> BOOLEAN]
    BY <1>t, <1>2 DEF CrashProcess
  <2> QED BY <1>2, <2>1, <2>2, LeavePreserves DEF CrashProcess
<1>3. ASSUME AuthorityMoves \/ UNCHANGED ledgerVars PROVE EffectInv'
  <2>1. UNCHANGED effectVars /\ [Next]_authorityVars
    BY <1>3 DEF AuthorityMoves, ledgerVars, Next
  <2>2. TypeOK'
    BY <1>t, <2>1, TypeStep
  <2> QED BY <2>1, <2>2 DEF effectVars, EffectInv, EffectTypeOK, AttemptsAccounted,
             AnswerOfLastAttempt, SnapshotsPinned, Pinned, ExecutorsSound, Sound
<1> QED BY <1>1, <1>2, <1>3, WorldPreserves DEF EffectNext

\* Before the call is executed the ledger holds nothing.
LEMMA EffectInitInv == EffectInit => EffectInv
<1> SUFFICES ASSUME EffectInit PROVE EffectInv
  OBVIOUS
<1>1. TypeOK
  BY AuthorityInit DEF EffectInit, AuthorityInv
<1>2. NoEffect \in EffectRows /\ NoExec \in Executions
  BY StateNames, NumberFacts DEF NoEffect, NoExec, NoFence, EffectRows, Executions
<1>3. EffectTypeOK
  BY <1>1, <1>2 DEF EffectInit, EffectTypeOK
<1>4. AttemptsAccounted /\ AnswerOfLastAttempt /\ SnapshotsPinned /\ ExecutorsSound
  BY DEF EffectInit, AttemptsAccounted, AnswerOfLastAttempt, SnapshotsPinned, Pinned,
     ExecutorsSound, Sound, NoEffect, NoExec, Answers
<1> QED BY <1>3, <1>4 DEF EffectInv

\* In every behaviour the row counts its handoffs, answers for its last attempt
\* only, and is what an executor with the same version has read.
THEOREM EffectInvariant == EffectSpec => []EffectInv
BY EffectInitInv, EffectStep, PTL DEF EffectSpec

\* The inductive invariant rules out two side effects.
LEMMA InvImpliesAtMostOnce == EffectInv => AtMostOnce
<1> SUFFICES ASSUME EffectInv, world[1] = "landed", world[2] = "landed" PROVE FALSE
  BY DEF AtMostOnce, Attempts
<1>1. effect.attempt \in 0..2 /\ effect.retries \in 0..1
  BY LedgerTypes DEF EffectRows
<1>2. effect.attempt >= 2
  BY <1>1 DEF EffectInv, AttemptsAccounted, Attempts
<1>3. effect.retries = 1
  BY <1>1, <1>2 DEF EffectInv, AttemptsAccounted
<1> QED BY <1>3 DEF EffectInv, AttemptsAccounted, Attempts

\* A Tool call has its side effect at most once, whatever processes crash, take
\* over, retry or answer late.
THEOREM ToolCallAtMostOnce == EffectSpec => []AtMostOnce
BY EffectInvariant, InvImpliesAtMostOnce, PTL

-----------------------------------------------------------------------------

\* What a step may do to the two things OneShotEffect sees: an attempt lands and
\* the row stays, or nothing lands and a stored answer stays.
LEMMA StepShape ==
    ASSUME EffectInv, [EffectNext]_ledgerVars
    PROVE  \/ \E k \in Attempts : Land(k)
           \/ /\ \A k \in Attempts : world'[k] = "landed" <=> world[k] = "landed"
              /\ effect.state \in Answers => effect' = effect
<1> DEFINE Quiet == \A k \in Attempts : world'[k] = "landed" <=> world[k] = "landed"
           Final == effect.state \in Answers => effect' = effect
<1>t. /\ world \in [Attempts -> {"unsent", "sent", "landed", "dropped"}]
      /\ exec \in [Owners -> Executions]
  BY LedgerTypes
<1>n. \A s \in Answers : s \notin Uncertain /\ s \notin {"none", "prepared", "handed_off", "unknown"}
  BY DEF Answers, Uncertain
<1>1. ASSUME NEW o \in Owners, ExecutorStep(o) PROVE Quiet /\ Final
  <2>1. CASE Execute(o)
    BY <2>1 DEF Execute
  <2>2. CASE \E outcome \in {"succeeded", "failed", "not_started", "still_unknown"} :
                Observed(o, outcome)
    BY <2>2, <1>n DEF Observed, RecordToolReconciliation, CanMarkUnknown
  <2>3. CASE HostDeclines(o)
    BY <2>3 DEF HostDeclines
  <2>4. CASE \E newReceipt \in BOOLEAN : Authorized(o, newReceipt)
    BY <2>4, <1>n DEF Authorized, ReauthorizeNotStarted, CanReauthorize,
       RefreshPrepared, PrepareEffect, Conflict
  <2>5. CASE HandOff(o)
    BY <2>5, <1>n DEF HandOff, CanHandOff, Conflict
  <2>6. CASE EnterHandler(o)
    BY <2>6, <1>t DEF EnterHandler
  <2>7. CASE \E answer \in Answers \cup {"unknown"} : HandlerReturns(o, answer)
    BY <2>7, <1>n DEF HandlerReturns, CanSettle
  <2>8. CASE HandlerInterrupted(o)
    BY <2>8, <1>n DEF HandlerInterrupted, CanMarkUnknown
  <2> QED BY <1>1, <2>1, <2>2, <2>3, <2>4, <2>5, <2>6, <2>7, <2>8 DEF ExecutorStep
<1>2. ASSUME NEW o \in Owners, CrashProcess(o) PROVE Quiet /\ Final
  BY <1>2 DEF CrashProcess
<1>3. ASSUME NEW k \in Attempts, Drop(k) PROVE Quiet /\ Final
  BY <1>3, <1>t DEF Drop
<1>4. ASSUME AuthorityMoves \/ UNCHANGED ledgerVars PROVE Quiet /\ Final
  BY <1>4 DEF AuthorityMoves, ledgerVars, effectVars
<1> QED BY <1>1, <1>2, <1>3, <1>4 DEF EffectNext

\* The ledger with its executors implements the one-shot call.
THEOREM LedgerIsOneShot == EffectSpec => ImplementsOneShot
<1> DEFINE Happened == {k \in Attempts : world[k] = "landed"}
           Answered == IF effect.state \in Answers THEN effect.state ELSE "none"
<1>1. EffectInit => OneShot!Init
  BY DEF EffectInit, OneShot!Init, NoEffect, Answers, Attempts
<1>a. EffectInv' => AtMostOnce'
  BY InvImpliesAtMostOnce, PTL
<1>2. ASSUME EffectInv, EffectInv', [EffectNext]_ledgerVars
      PROVE  [OneShot!Next]_<<Happened, Answered>>
  <2>1. CASE \E k \in Attempts : Land(k)
    <3>1. PICK k \in Attempts : Land(k)
      BY <2>1
    <3>2. /\ world \in [Attempts -> {"unsent", "sent", "landed", "dropped"}]
          /\ AtMostOnce'
      BY <1>2, <1>a, LedgerTypes
    <3>3. /\ world'[k] = "landed" /\ world[k] # "landed" /\ effect' = effect
          /\ \A j \in Attempts : j # k => world'[j] = world[j]
      BY <3>1, <3>2 DEF Land
    <3>4. Happened = {} /\ Happened' = {k}
      BY <3>2, <3>3 DEF AtMostOnce
    <3>5. Answered' = Answered
      BY <3>3
    <3> QED BY <3>4, <3>5 DEF OneShot!Next, OneShot!Happen
  <2>2. CASE /\ \A k \in Attempts : world'[k] = "landed" <=> world[k] = "landed"
             /\ effect.state \in Answers => effect' = effect
    <3>1. Happened' = Happened
      BY <2>2
    <3>2. CASE effect.state \in Answers \/ effect'.state \notin Answers
      <4>1. Answered' = Answered
        BY <2>2, <3>2
      <4> QED BY <3>1, <4>1
    <3>3. CASE effect.state \notin Answers /\ effect'.state \in Answers
      <4>1. Answered = "none" /\ Answered' = effect'.state /\ Answered' \in Answers
        BY <3>3
      <4>2. effect'.state = "succeeded" => Happened # {}
        <5>1. effect'.attempt \in 0..2 /\ effect'.retries \in 0..1
          BY <1>2 DEF EffectInv, EffectTypeOK, EffectRows
        <5>2. effect'.state = "succeeded" =>
                 effect'.attempt \in Attempts /\ world'[effect'.attempt] = "landed"
          BY <1>2, <5>1 DEF EffectInv, AnswerOfLastAttempt, AttemptsAccounted, Attempts
        <5> QED BY <2>2, <5>2
      <4> QED BY <3>1, <4>1, <4>2 DEF OneShot!Next, OneShot!Answer
    <3> QED BY <3>2, <3>3
  <2> QED BY <1>2, <2>1, <2>2, StepShape
<1> QED
  BY <1>1, <1>2, EffectInvariant, PTL DEF EffectSpec, ImplementsOneShot, OneShot!Spec

=============================================================================
