------------------------ MODULE ProviderLedgerProofs ------------------------
(***************************************************************************)
(* The Provider calls of a Run never cost more than the hard cap, each is  *)
(* served at most once and answered once, and the process that holds the   *)
(* lease of a handoff keeps its row, for every set of kernel processes and *)
(* of calls.  The argument: every write raises the version of the row, so  *)
(* a row with the version that was read is the row that was read           *)
(* (RowsPinned); a row therefore moves only along RowMoves, and what a     *)
(* call may come to (Liability) grows only when it is claimed, which is    *)
(* refused while any charge is unknown.                                    *)
(***************************************************************************)
EXTENDS ProviderLedger, RunAuthorityProofs, SumTheorems, TLAPS

\* The process of p waits for the provider on behalf of the handoff in the row of c.
WorksOn(p, c) ==
    invoke[p].at \in {"invoke", "handler"} /\ invoke[p].on = c /\ invoke[p].snap = call[c]

\* The row of c with another state, charge and usage, and the next version.
RowClosed(c, s, n, u) ==
    call'[c] = [call[c] EXCEPT !.state = s, !.charge = n, !.usage = u,
                               !.version = call[c].version + 1]

\* The charge of an answer: what was charged before, unknown, or the cost of a call
\* that was served.
AnswerCharge(c, n) ==
    \/ n \in {Unknown, call[c].charge}
    \/ n = cost[c] /\ world[c][call[c].attempt] \in Served

\* The ways the row of c moves: it is claimed, claimed again, handed off, lost, and
\* answered.
RowClaimed(c) ==
    /\ call[c].state = "none" /\ Authorize
    /\ call'[c] = [NoCall EXCEPT !.state = "claimed", !.version = 1, !.charge = Estimate]
RowReauthorized(c) ==
    /\ CanReauthorize(c)
    /\ call'[c] = [call[c] EXCEPT !.state = "claimed", !.retries = 1,
                                  !.version = call[c].version + 1]
RowHandedOff(c) ==
    /\ call[c].state = "claimed"
    /\ call'[c] = [call[c] EXCEPT !.state = "handed_off", !.attempt = @ + 1,
                                  !.version = call[c].version + 1]
RowLost(c) ==
    /\ call[c].state = "handed_off"
    /\ RowClosed(c, "unknown", Unknown, call[c].usage)
RowAnswered(c) ==
    /\ call[c].state \in {"handed_off", "unknown"}
    /\ \E s \in Answers, n \in {Unknown} \cup Nat, u \in BOOLEAN :
          /\ RowClosed(c, s, n, u)
          /\ AnswerCharge(c, n)
          /\ s = "succeeded" => world[c][call[c].attempt] \in Served

\* Who moves a row that is handed off: the process that works on it, which then
\* leaves, or a recovery that finds the lease of the handoff gone.
RowReleased(c) ==
    \/ \E p \in Owners : WorksOn(p, c) /\ invoke'[p] = Idle
    \/ ~HandoffLive(c)

RowMoves(c) ==
    \/ call'[c] = call[c]
    \/ RowClaimed(c) /\ (\A d \in Calls \ {c} : call'[d] = call[d]) /\ UNCHANGED receipt
    \/ RowReauthorized(c)
    \/ RowHandedOff(c)
    \/ (RowLost(c) \/ RowAnswered(c)) /\ (call[c].state = "handed_off" => RowReleased(c))

\* A handoff: the row counts it, the record says who made it under which lease,
\* and the process goes on to the provider with the row it wrote.
HandedOffBy(o) ==
    LET c == invoke[o].on
    IN  /\ invoke[o].at = "admission" /\ RequireRuntimeLease(o, invoke[o].lease)
        /\ c \in Calls /\ RowHandedOff(c) /\ \A d \in Calls \ {c} : call'[d] = call[d]
        /\ call[c].attempt + 1 \in Attempts
        /\ authority' = [authority EXCEPT ![c][call[c].attempt + 1] =
                            [owner |-> o, epoch |-> invoke[o].lease]]
        /\ invoke' = [invoke EXCEPT ![o] = [invoke[o] EXCEPT !.at = "invoke", !.snap = call'[c]]]

\* What the invariant says of the types, in the form the steps use.
LEMMA ProviderTypes ==
    ASSUME ProviderTypeOK
    PROVE  /\ TypeOK
           /\ call \in [Calls -> Rows]
           /\ authority \in [Calls -> [Attempts -> [owner : Owners \cup {NoOwner}, epoch : Nat]]]
           /\ resolution \in [Calls -> [Attempts -> {"none", "not_started", "succeeded"}]]
           /\ receipt \in [Calls -> {Unknown} \cup Nat]
           /\ invoke \in [Owners -> Sections]
           /\ observing \in [Owners -> Sections]
           /\ starting \subseteq Owners /\ listed \in [Owners -> SUBSET Calls]
           /\ world \in [Calls -> [Attempts -> {"unsent", "sent", "dropped"} \cup Served]]
           /\ cost \in [Calls -> Nat]
BY DEF ProviderTypeOK

\* The fields of a row.
LEMMA RowTypes ==
    ASSUME ProviderTypeOK, NEW c \in Calls
    PROVE  /\ call[c] \in Rows
           /\ call[c].state \in {"none", "claimed", "handed_off", "unknown"} \cup Answers
           /\ call[c].version \in Nat /\ call[c].attempt \in 0..2 /\ call[c].retries \in 0..1
           /\ call[c].charge \in {Unknown} \cup Nat /\ call[c].usage \in BOOLEAN
BY ProviderTypes DEF Rows

\* The constant rows and sections are well typed.
LEMMA ConstantTypes ==
    /\ NoCall \in Rows /\ Some \in Calls /\ Idle \in Sections
    /\ Idle.at = "idle" /\ Idle.lease = 0
<1>1. NoCall \in Rows
  BY DEF NoCall, Rows, Unknown, Answers
<1>2. Some \in Calls
  BY ProviderConstants DEF Some
<1> QED BY <1>1, <1>2 DEF Idle, Sections

\* A step of the Provider ledger is a step of the authority.
LEMMA ProviderIsAuthority == [ProviderNext]_vars => [Next]_authorityVars
<1> SUFFICES ASSUME [ProviderNext]_vars PROVE [Next]_authorityVars
  OBVIOUS
<1>1. ASSUME NEW o \in Owners, InvokeStep(o) PROVE UNCHANGED authorityVars
  BY <1>1 DEF InvokeStep, ClaimProviderInvocation, ResumeClaimed, ReauthorizeNotStarted,
     HandOff, AdmissionRefused, Send
<1>2. ASSUME NEW o \in Owners, AnswerStep(o) PROVE UNCHANGED authorityVars
  BY <1>2 DEF AnswerStep, ProviderSucceeds, ResponseNotDurable, ProviderFails,
     ProviderInterrupted
<1>3. ASSUME NEW o \in Owners, ReconcileStep(o) PROVE UNCHANGED authorityVars
  BY <1>3 DEF ReconcileStep, StartReconcile, RecoverHandedOff, ObserveUnknown,
     PassOver, Observed
<1>4. ASSUME NEW o \in Owners, CrashProcess(o) PROVE Next
  BY <1>4 DEF CrashProcess, Next
<1>5. ASSUME NEW c \in Calls, RecordProviderAccounting(c) PROVE UNCHANGED authorityVars
  BY <1>5 DEF RecordProviderAccounting
<1>6. ASSUME Outside PROVE UNCHANGED authorityVars
  BY <1>6 DEF Outside, Land, Drop
<1>7. ASSUME AuthorityMoves PROVE Next
  BY <1>7 DEF AuthorityMoves, Next
<1>8. ASSUME UNCHANGED vars PROVE UNCHANGED authorityVars
  BY <1>8 DEF vars
<1> QED BY <1>1, <1>2, <1>3, <1>4, <1>5, <1>6, <1>7, <1>8 DEF ProviderNext

-----------------------------------------------------------------------------
(* How the rows move.                                                      *)

\* A write changes one row, which keeps its type.
LEMMA WriteFacts ==
    ASSUME ProviderTypeOK, NEW c \in Calls, NEW upd \in Rows, Write(c, upd)
    PROVE  /\ call' \in [Calls -> Rows]
           /\ call'[c] = [upd EXCEPT !.version = call[c].version + 1]
           /\ \A d \in Calls \ {c} : call'[d] = call[d]
<1>1. call \in [Calls -> Rows] /\ call[c].version + 1 \in Nat
  BY ProviderTypes, RowTypes
<1>2. [upd EXCEPT !.version = call[c].version + 1] \in Rows
  BY <1>1 DEF Rows
<1> QED BY <1>1, <1>2 DEF Write

\* The section of a process inside the provider call.
LEMMA SectionTypes ==
    ASSUME ProviderTypeOK, NEW o \in Owners
    PROVE  /\ invoke[o] \in Sections /\ observing[o] \in Sections
           /\ invoke[o].on \in Calls /\ invoke[o].snap \in Rows /\ invoke[o].lease \in Nat
           /\ observing[o].on \in Calls /\ observing[o].snap \in Rows
BY ProviderTypes DEF Sections

\* A process that may store its answer has read the row as it is.
LEMMA SettledRow ==
    ASSUME ProviderInv, NEW o \in Owners, invoke[o].at \in {"invoke", "handler"},
           CanSettle(invoke[o].on, invoke[o].snap)
    PROVE  invoke[o].snap = call[invoke[o].on]
BY DEF ProviderInv, RowsPinned, CanSettle

\* A handoff that was served is the last one.
LEMMA ServedIsLast ==
    ASSUME ProviderInv, NEW c \in Calls, NEW k \in Attempts, world[c][k] \in Served,
           k <= call[c].attempt
    PROVE  call[c].attempt = k /\ \A j \in Attempts : j # k => world[c][j] \notin Served
<1>1. call[c].attempt \in 0..2 /\ call[c].retries \in 0..1
  BY RowTypes DEF ProviderInv
<1>2. call[c].attempt = 2 => call[c].retries = 1
  BY <1>1 DEF ProviderInv, HandoffsAccounted
<1>3. call[c].attempt = 2 => world[c][1] = "dropped"
  BY <1>2 DEF ProviderInv, HandoffsAccounted, Attempts
<1>4. call[c].attempt = 1 => world[c][2] = "unsent"
  BY DEF ProviderInv, HandoffsAccounted, Attempts
<1> QED BY <1>1, <1>3, <1>4 DEF Attempts, Served

\* The answer of the provider is stored in the row it was handed off with; the row
\* it would otherwise leave unknown does not exist.
LEMMA SuccessStored ==
    ASSUME ProviderInv, NEW o \in Owners, NEW reported \in BOOLEAN,
           ProviderSucceeds(o, reported)
    PROVE  \/ CanSettle(invoke[o].on, invoke[o].snap)
           \/ call[invoke[o].on].state # "handed_off" /\ UNCHANGED call
<1> DEFINE c == invoke[o].on
           row == invoke[o].snap
<1>1. c \in Calls /\ row \in Rows
  BY SectionTypes DEF ProviderInv
<1>2. /\ row.state = "handed_off" /\ row.attempt \in 1..call[c].attempt
      /\ call[c].state = "handed_off" /\ call[c].attempt = row.attempt => call[c] = row
  BY DEF ProviderInv, HandlersSound, ProviderSucceeds
<1>3. call[c].attempt = row.attempt
  <2>1. row.attempt \in Attempts /\ row.attempt <= call[c].attempt
    BY <1>1, <1>2, RowTypes DEF ProviderInv, Attempts, Rows
  <2> QED BY <1>1, <2>1, ServedIsLast DEF ProviderSucceeds
<1>4. CASE call[c].state = "handed_off"
  BY <1>2, <1>3, <1>4 DEF CanSettle
<1>5. CASE call[c].state # "handed_off"
  BY <1>5 DEF ProviderSucceeds, CanSettle, Settled
<1> QED BY <1>4, <1>5

\* The charge an answer leaves is well typed and accounted for.
LEMMA ChargeTypes ==
    ASSUME ProviderTypeOK, NEW c \in Calls, NEW reported \in BOOLEAN,
           reported => world[c][call[c].attempt] \in Served
    PROVE  /\ UsageCharge(c, call[c], reported) \in {Unknown} \cup Nat
           /\ ResponseCharge(c, call[c], reported) \in {Unknown} \cup Nat
           /\ AnswerCharge(c, UsageCharge(c, call[c], reported))
           /\ AnswerCharge(c, ResponseCharge(c, call[c], reported))
<1>1. cost[c] \in Nat /\ call[c].charge \in {Unknown} \cup Nat
  BY ProviderTypes, RowTypes
<1> QED BY <1>1 DEF UsageCharge, ResponseCharge, AnswerCharge

\* A stored answer closes the row.
LEMMA WriteClosed ==
    ASSUME ProviderTypeOK, NEW c \in Calls, NEW n \in {Unknown} \cup Nat, NEW u \in BOOLEAN,
           NEW s \in {"unknown"} \cup Answers,
           Write(c, [call[c] EXCEPT !.state = s, !.usage = u, !.charge = n])
    PROVE  /\ RowClosed(c, s, n, u) /\ call' \in [Calls -> Rows]
           /\ \A d \in Calls \ {c} : call'[d] = call[d]
<1> DEFINE upd == [call[c] EXCEPT !.state = s, !.usage = u, !.charge = n]
<1>1. upd \in Rows /\ Write(c, upd)
  BY RowTypes DEF Rows
<1>2. /\ call' \in [Calls -> Rows]
      /\ call'[c] = [upd EXCEPT !.version = call[c].version + 1]
      /\ \A d \in Calls \ {c} : call'[d] = call[d]
  <2> HIDE DEF upd
  <2> QED BY <1>1, WriteFacts
<1>3. call[c] \in Rows
  BY RowTypes
<1> QED BY <1>2, <1>3 DEF RowClosed, Rows

\* The same when the usage stays.
LEMMA WriteLost ==
    ASSUME ProviderTypeOK, NEW c \in Calls,
           Write(c, [call[c] EXCEPT !.state = "unknown", !.charge = Unknown])
    PROVE  /\ RowClosed(c, "unknown", Unknown, call[c].usage) /\ call' \in [Calls -> Rows]
           /\ \A d \in Calls \ {c} : call'[d] = call[d]
<1> DEFINE upd == [call[c] EXCEPT !.state = "unknown", !.charge = Unknown]
<1>1. upd \in Rows /\ Write(c, upd)
  BY RowTypes DEF Rows
<1>2. /\ call' \in [Calls -> Rows]
      /\ call'[c] = [upd EXCEPT !.version = call[c].version + 1]
      /\ \A d \in Calls \ {c} : call'[d] = call[d]
  <2> HIDE DEF upd
  <2> QED BY <1>1, WriteFacts
<1>3. call[c] \in Rows
  BY RowTypes
<1> QED BY <1>2, <1>3 DEF RowClosed, Rows

\* What an answer of the provider, or the end of waiting for one, does to the rows.
LEMMA AnswerRows ==
    ASSUME ProviderInv, NEW o \in Owners, AnswerStep(o)
    PROVE  /\ call' \in [Calls -> Rows] /\ \A c \in Calls : RowMoves(c)
           /\ invoke' = [invoke EXCEPT ![o] = Idle]
           /\ UNCHANGED <<authority, resolution, receipt, observing, world, cost>>
<1> DEFINE c == invoke[o].on
           row == invoke[o].snap
<1>t. ProviderTypeOK /\ c \in Calls /\ call \in [Calls -> Rows] /\ invoke \in [Owners -> Sections]
  BY SectionTypes, ProviderTypes DEF ProviderInv
<1>1. /\ invoke[o].at \in {"invoke", "handler"} /\ invoke' = [invoke EXCEPT ![o] = Idle]
      /\ UNCHANGED <<authority, resolution, receipt, observing, world, cost>>
  BY DEF AnswerStep, ProviderSucceeds, ResponseNotDurable, ProviderFails, ProviderInterrupted,
     Leave
<1>2. invoke'[o] = Idle
  BY <1>t, <1>1
<1>3. CanSettle(c, row) => row = call[c] /\ call[c].state = "handed_off" /\ WorksOn(o, c)
  BY <1>1, SettledRow DEF CanSettle, WorksOn
<1>4. ASSUME NEW n \in {Unknown} \cup Nat, NEW u \in BOOLEAN, NEW s \in Answers,
             CanSettle(c, row), AnswerCharge(c, n),
             s = "succeeded" => world[c][call[c].attempt] \in Served,
             Write(c, [call[c] EXCEPT !.state = s, !.usage = u, !.charge = n])
      PROVE  call' \in [Calls -> Rows] /\ \A d \in Calls : RowMoves(d)
  <2>1. /\ RowClosed(c, s, n, u) /\ call' \in [Calls -> Rows]
        /\ \A d \in Calls \ {c} : call'[d] = call[d]
    BY <1>t, <1>4, WriteClosed
  <2>2. RowAnswered(c)
    BY <1>3, <1>4, <2>1 DEF RowAnswered
  <2>3. RowReleased(c)
    BY <1>2, <1>3, <1>4 DEF RowReleased
  <2> QED BY <2>1, <2>2, <2>3 DEF RowMoves
<1>5. ASSUME UNCHANGED call
      PROVE  call' \in [Calls -> Rows] /\ \A d \in Calls : RowMoves(d)
  BY <1>5, <1>t DEF RowMoves
<1>6. ASSUME NEW reported \in BOOLEAN, ProviderSucceeds(o, reported)
      PROVE  call' \in [Calls -> Rows] /\ \A d \in Calls : RowMoves(d)
  <2>1. CASE CanSettle(c, row)
    <3>1. /\ Write(c, [call[c] EXCEPT !.state = "succeeded", !.usage = reported,
                                      !.charge = ResponseCharge(c, call[c], reported)])
          /\ world[c][call[c].attempt] \in Served
      BY <1>3, <1>6, <2>1 DEF ProviderSucceeds
    <3>2. /\ ResponseCharge(c, call[c], reported) \in {Unknown} \cup Nat
          /\ AnswerCharge(c, ResponseCharge(c, call[c], reported))
      BY <1>t, <3>1, ChargeTypes
    <3> QED BY <1>4, <2>1, <3>1, <3>2 DEF Answers
  <2>2. CASE UNCHANGED call
    BY <1>5, <2>2
  <2> QED BY <1>6, <2>1, <2>2, SuccessStored
<1>7. ASSUME NEW reported \in BOOLEAN, ResponseNotDurable(o, reported)
      PROVE  call' \in [Calls -> Rows] /\ \A d \in Calls : RowMoves(d)
  <2>1. CASE CanSettle(c, row)
    <3>1. /\ Write(c, [call[c] EXCEPT !.state = "failed", !.usage = reported,
                                      !.charge = ResponseCharge(c, call[c], reported)])
          /\ world[c][call[c].attempt] \in Served
      BY <1>3, <1>7, <2>1 DEF ResponseNotDurable, Settled
    <3>2. /\ ResponseCharge(c, call[c], reported) \in {Unknown} \cup Nat
          /\ AnswerCharge(c, ResponseCharge(c, call[c], reported))
      BY <1>t, <3>1, ChargeTypes
    <3> QED BY <1>4, <2>1, <3>1, <3>2 DEF Answers
  <2>2. CASE ~CanSettle(c, row)
    BY <1>5, <1>7, <2>2 DEF ResponseNotDurable, Settled
  <2> QED BY <2>1, <2>2
<1>8. ASSUME NEW reported \in BOOLEAN, ProviderFails(o, reported)
      PROVE  call' \in [Calls -> Rows] /\ \A d \in Calls : RowMoves(d)
  <2>1. CASE CanSettle(c, row)
    <3>1. /\ Write(c, [call[c] EXCEPT !.state = "failed", !.usage = reported,
                                      !.charge = UsageCharge(c, call[c], reported)])
          /\ reported => world[c][call[c].attempt] \in Served
      BY <1>3, <1>8, <2>1 DEF ProviderFails, Settled
    <3>2. /\ UsageCharge(c, call[c], reported) \in {Unknown} \cup Nat
          /\ AnswerCharge(c, UsageCharge(c, call[c], reported))
      BY <1>t, <3>1, ChargeTypes
    <3> QED BY <1>4, <2>1, <3>1, <3>2 DEF Answers
  <2>2. CASE ~CanSettle(c, row)
    BY <1>5, <1>8, <2>2 DEF ProviderFails, Settled
  <2> QED BY <2>1, <2>2
<1>9. ASSUME ProviderInterrupted(o)
      PROVE  call' \in [Calls -> Rows] /\ \A d \in Calls : RowMoves(d)
  <2>1. CASE CanSettle(c, row)
    <3>1. Write(c, [call[c] EXCEPT !.state = "unknown", !.charge = Unknown])
      BY <1>3, <1>9, <2>1 DEF ProviderInterrupted, Settled
    <3>2. /\ RowClosed(c, "unknown", Unknown, call[c].usage) /\ call' \in [Calls -> Rows]
          /\ \A d \in Calls \ {c} : call'[d] = call[d]
      BY <1>t, <3>1, WriteLost
    <3>3. RowLost(c) /\ RowReleased(c)
      BY <1>2, <1>3, <2>1, <3>2 DEF RowLost, RowReleased
    <3> QED BY <3>2, <3>3 DEF RowMoves
  <2>2. CASE ~CanSettle(c, row)
    BY <1>5, <1>9, <2>2 DEF ProviderInterrupted, Settled
  <2> QED BY <2>1, <2>2
<1> QED BY <1>1, <1>6, <1>7, <1>8, <1>9 DEF AnswerStep

\* A handoff is made, or refused and the process leaves.
LEMMA HandOffFacts ==
    ASSUME ProviderInv, NEW o \in Owners, HandOff(o)
    PROVE  \/ HandedOffBy(o) /\ call' \in [Calls -> Rows]
           \/ UNCHANGED <<call, authority>> /\ invoke' = [invoke EXCEPT ![o] = Idle]
<1> DEFINE c == invoke[o].on
           upd == [call[c] EXCEPT !.state = "handed_off", !.attempt = @ + 1]
<1>1. CASE UNCHANGED <<call, authority>> /\ invoke' = [invoke EXCEPT ![o] = Idle]
  BY <1>1
<1>2. CASE /\ RequireRuntimeLease(o, invoke[o].lease) /\ call[c].state = "claimed"
           /\ Write(c, upd)
           /\ authority' = [authority EXCEPT ![c][call'[c].attempt] =
                               [owner |-> o, epoch |-> invoke[o].lease]]
           /\ invoke' = [invoke EXCEPT ![o] = [@ EXCEPT !.at = "invoke", !.snap = call'[c]]]
  <2>t. ProviderTypeOK /\ c \in Calls /\ invoke[o].at = "admission"
    BY SectionTypes DEF ProviderInv, HandOff
  <2>1. call[c] \in Rows /\ call[c].attempt + 1 \in 0..2 /\ call[c].attempt + 1 \in Attempts
    BY <1>2, <2>t, RowTypes DEF ProviderInv, HandoffsAccounted, Attempts
  <2>2. upd \in Rows /\ Write(c, upd)
    BY <1>2, <2>1 DEF Rows
  <2>3. /\ call' \in [Calls -> Rows]
        /\ call'[c] = [upd EXCEPT !.version = call[c].version + 1]
        /\ \A d \in Calls \ {c} : call'[d] = call[d]
    <3> HIDE DEF upd, c
    <3> QED BY <2>t, <2>2, WriteFacts
  <2>4. RowHandedOff(c) /\ call'[c].attempt = call[c].attempt + 1
    BY <1>2, <2>1, <2>3 DEF RowHandedOff, Rows
  <2>5. invoke \in [Owners -> Sections]
    BY <2>t, ProviderTypes
  <2> QED BY <1>2, <2>t, <2>1, <2>3, <2>4, <2>5 DEF HandedOffBy
<1> QED BY <1>1, <1>2 DEF HandOff, Leave

\* What a step of invoke before the answer does to the rows.
LEMMA InvokeRows ==
    ASSUME ProviderInv, NEW o \in Owners, InvokeStep(o)
    PROVE  call' \in [Calls -> Rows] /\ \A c \in Calls : RowMoves(c)
<1>t. ProviderTypeOK /\ call \in [Calls -> Rows]
  BY ProviderTypes DEF ProviderInv
<1>1. ASSUME NEW c \in Calls, ClaimProviderInvocation(o, c)
      PROVE  call' \in [Calls -> Rows] /\ \A d \in Calls : RowMoves(d)
  <2> DEFINE new == [NoCall EXCEPT !.state = "claimed", !.version = 1, !.charge = Estimate]
  <2>1. new \in Rows
    BY ConstantTypes, ProviderConstants DEF Rows
  <2>2. /\ call' = [call EXCEPT ![c] = new] /\ call[c].state = "none" /\ Authorize
        /\ UNCHANGED receipt
    BY <1>1 DEF ClaimProviderInvocation
  <2>3. /\ call' \in [Calls -> Rows] /\ call'[c] = new
        /\ \A d \in Calls \ {c} : call'[d] = call[d]
    BY <1>t, <2>1, <2>2
  <2> QED BY <2>2, <2>3 DEF RowMoves, RowClaimed
<1>2. ASSUME NEW c \in Calls, ReauthorizeNotStarted(o, c)
      PROVE  call' \in [Calls -> Rows] /\ \A d \in Calls : RowMoves(d)
  <2> DEFINE upd == [call[c] EXCEPT !.state = "claimed", !.retries = 1]
  <2>0. upd \in Rows
    <3>1. call[c] \in Rows /\ 1 \in 0..1
      BY <1>t, RowTypes
    <3> QED BY <3>1 DEF Rows
  <2>1. upd \in Rows /\ Write(c, upd) /\ CanReauthorize(c)
    BY <1>2, <2>0 DEF ReauthorizeNotStarted
  <2>2. /\ call' \in [Calls -> Rows]
        /\ call'[c] = [upd EXCEPT !.version = call[c].version + 1]
        /\ \A d \in Calls \ {c} : call'[d] = call[d]
    <3> HIDE DEF upd
    <3> QED BY <1>t, <2>1, WriteFacts
  <2>3. RowReauthorized(c)
    BY <2>1, <2>2, RowTypes, <1>t DEF RowReauthorized, Rows
  <2> QED BY <2>2, <2>3 DEF RowMoves
<1>3. ASSUME HandOff(o), ~UNCHANGED call
      PROVE  call' \in [Calls -> Rows] /\ \A d \in Calls : RowMoves(d)
  <2>1. HandedOffBy(o) /\ call' \in [Calls -> Rows]
    BY <1>3, HandOffFacts
  <2> QED BY <2>1 DEF HandedOffBy, RowMoves
<1>4. ASSUME UNCHANGED call
      PROVE  call' \in [Calls -> Rows] /\ \A d \in Calls : RowMoves(d)
  BY <1>4, <1>t DEF RowMoves
<1>5. ASSUME AdmissionRefused(o) \/ Send(o) \/ \E c \in Calls : ResumeClaimed(o, c)
      PROVE  UNCHANGED call
  BY <1>5 DEF AdmissionRefused, Send, ResumeClaimed
<1> QED BY <1>1, <1>2, <1>3, <1>4, <1>5 DEF InvokeStep

\* What reconciliation does to the rows.
LEMMA ReconcileRows ==
    ASSUME ProviderInv, NEW o \in Owners, ReconcileStep(o)
    PROVE  call' \in [Calls -> Rows] /\ \A c \in Calls : RowMoves(c)
<1>t. ProviderTypeOK /\ call \in [Calls -> Rows]
  BY ProviderTypes DEF ProviderInv
<1>1. ASSUME NEW c \in Calls, RecoverHandedOff(o, c)
      PROVE  call' \in [Calls -> Rows] /\ \A d \in Calls : RowMoves(d)
  <2>1. /\ Write(c, [call[c] EXCEPT !.state = "unknown", !.charge = Unknown])
        /\ call[c].state = "handed_off" /\ ~HandoffLive(c)
    BY <1>1 DEF RecoverHandedOff, CanRecover
  <2>2. /\ RowClosed(c, "unknown", Unknown, call[c].usage) /\ call' \in [Calls -> Rows]
        /\ \A d \in Calls \ {c} : call'[d] = call[d]
    BY <1>t, <2>1, WriteLost
  <2> QED BY <2>1, <2>2 DEF RowMoves, RowLost, RowReleased
<1>2. ASSUME StartReconcile(o) \/ \E c \in Calls : ObserveUnknown(o, c) \/ PassOver(o, c)
      PROVE  UNCHANGED call
  BY <1>2 DEF StartReconcile, ObserveUnknown, PassOver
<1>3. ASSUME NEW outcome \in Outcomes, NEW reported \in BOOLEAN, Observed(o, outcome, reported),
             call' # call
      PROVE  call' \in [Calls -> Rows] /\ \A d \in Calls : RowMoves(d)
  <2> DEFINE c == observing[o].on
             row == observing[o].snap
  <2>0. c \in Calls /\ observing[o].at = "observe"
    BY <1>t, <1>3, SectionTypes DEF Observed
  <2>1. /\ RecordProviderReconciliation(c, row, outcome, reported)
        /\ outcome = "succeeded" /\ call[c].state = "unknown" /\ call[c].version = row.version
        /\ world[c][row.attempt] \in Served
    BY <1>3 DEF Observed, RecordProviderReconciliation, Observable
  <2>2. row = call[c]
    BY <2>0, <2>1 DEF ProviderInv, RowsPinned
  <2>3. Write(c, [call[c] EXCEPT !.state = "succeeded", !.usage = reported,
                                 !.charge = UsageCharge(c, call[c], reported)])
    BY <1>3, <2>1, <2>2 DEF RecordProviderReconciliation
  <2>4. /\ UsageCharge(c, call[c], reported) \in {Unknown} \cup Nat
        /\ AnswerCharge(c, UsageCharge(c, call[c], reported))
    BY <1>t, <2>0, <2>1, <2>2, ChargeTypes
  <2>5. /\ RowClosed(c, "succeeded", UsageCharge(c, call[c], reported), reported)
        /\ call' \in [Calls -> Rows]
        /\ \A d \in Calls \ {c} : call'[d] = call[d]
    BY <1>t, <2>0, <2>3, <2>4, WriteClosed DEF Answers
  <2>6. RowAnswered(c)
    BY <2>1, <2>2, <2>4, <2>5 DEF RowAnswered, Answers
  <2> QED BY <2>1, <2>5, <2>6 DEF RowMoves
<1>4. ASSUME UNCHANGED call
      PROVE  call' \in [Calls -> Rows] /\ \A d \in Calls : RowMoves(d)
  BY <1>4, <1>t DEF RowMoves
<1> QED BY <1>1, <1>2, <1>3, <1>4 DEF ReconcileStep

\* The steps that leave the rows alone.
LEMMA OtherRows ==
    ASSUME \/ \E o \in Owners : CrashProcess(o)
           \/ \E c \in Calls : RecordProviderAccounting(c)
           \/ Outside \/ AuthorityMoves \/ UNCHANGED vars
    PROVE  UNCHANGED call
BY DEF CrashProcess, RecordProviderAccounting, Outside, Land, Drop, AuthorityMoves,
   providerVars, passVars, vars

\* Every step moves the rows along RowMoves.
LEMMA StepRows ==
    ASSUME ProviderInv, [ProviderNext]_vars
    PROVE  call' \in [Calls -> Rows] /\ \A c \in Calls : RowMoves(c)
<1>1. CASE UNCHANGED call
  BY <1>1, ProviderTypes DEF RowMoves, ProviderInv
<1> QED BY <1>1, AnswerRows, InvokeRows, ReconcileRows, OtherRows DEF ProviderNext

-----------------------------------------------------------------------------
(* How the other variables move.                                           *)

\* The section t of process p after a step: p has left invoke, sends, is admitted
\* with a row and its lease, or has handed off.
SectionMoves(p, t) ==
    \/ t = Idle
    \/ /\ invoke[p].at = "invoke" /\ t = [invoke[p] EXCEPT !.at = "handler"]
       /\ UNCHANGED <<call, authority>>
    \/ \E c \in Calls : t = [at |-> "admission", on |-> c, snap |-> call'[c],
                             lease |-> heldLease[p]]
    \/ HandedOffBy(p) /\ t = [invoke[p] EXCEPT !.at = "invoke", !.snap = call'[invoke[p].on]]

\* At most one process moves in invoke, and only a handoff writes who made it.
SectionStep ==
    /\ \/ UNCHANGED invoke
       \/ \E p \in Owners, t \in Sections :
              SectionMoves(p, t) /\ invoke' = [invoke EXCEPT ![p] = t]
    /\ UNCHANGED authority \/ \E p \in Owners : HandedOffBy(p)

\* A process starts to observe the row it reads, or stops.
ObservingStep ==
    \/ UNCHANGED observing
    \/ \E p \in Owners, t \in Sections :
          /\ observing' = [observing EXCEPT ![p] = t]
          /\ \/ t = Idle
             \/ \E c \in Calls : t.on = c /\ t.snap = call'[c]

\* The outcome of the last handoff of an unknown call is recorded once, and as not
\* started only when it never landed.
ResolutionStep ==
    \/ UNCHANGED resolution
    \/ \E c \in Calls, k \in Attempts, v \in {"not_started", "succeeded"} :
          /\ resolution' = [resolution EXCEPT ![c][k] = v]
          /\ resolution[c][k] = "none"
          /\ v = "not_started" => world[c][k] = "dropped"

\* An answered call without a receipt gets one, of its cost.
ReceiptStep ==
    \/ UNCHANGED receipt
    \/ \E c \in Calls : RecordProviderAccounting(c)

\* Either the provider moves, and the ledger stays, or the ledger moves.
WorldStep ==
    \/ UNCHANGED <<world, cost>>
    \/ /\ UNCHANGED <<call, authority, resolution, receipt, observing>>
       /\ \E c \in Calls, k \in Attempts :
             \/ \E v \in {"sent", "dropped"} :
                   /\ world[c][k] \in {"unsent", "sent"} /\ k <= call[c].attempt
                   /\ world' = [world EXCEPT ![c][k] = v] /\ UNCHANGED cost
             \/ \E model \in Models, amount \in Costs : Land(c, k, model, amount)

\* Admission: the process resumes from the row as it is, with its lease.
LEMMA AdmitSection ==
    ASSUME ProviderTypeOK, NEW o \in Owners, NEW c \in Calls, call' \in [Calls -> Rows],
           Admit(o, c, call'[c])
    PROVE  \E t \in Sections : SectionMoves(o, t) /\ invoke' = [invoke EXCEPT ![o] = t]
<1> DEFINE t == [at |-> "admission", on |-> c, snap |-> call'[c], lease |-> heldLease[o]]
<1>1. heldLease[o] \in Nat /\ call'[c] \in Rows
  BY ProviderTypes DEF TypeOK
<1>2. t \in Sections
  BY <1>1 DEF Sections
<1>3. SectionMoves(o, t) /\ invoke' = [invoke EXCEPT ![o] = t]
  BY DEF SectionMoves, Admit
<1> QED BY <1>2, <1>3

\* The sections move along SectionStep.
LEMMA StepSections ==
    ASSUME ProviderInv, [ProviderNext]_vars
    PROVE  SectionStep
<1>t. ProviderTypeOK /\ call' \in [Calls -> Rows] /\ Idle \in Sections
  BY StepRows, ConstantTypes DEF ProviderInv
<1>1. ASSUME UNCHANGED <<invoke, authority>> PROVE SectionStep
  BY <1>1 DEF SectionStep
<1>2. ASSUME NEW o \in Owners, invoke' = [invoke EXCEPT ![o] = Idle], UNCHANGED authority
      PROVE  SectionStep
  BY <1>2, <1>t DEF SectionStep, SectionMoves
<1>3. ASSUME NEW o \in Owners, NEW c \in Calls,
             ClaimProviderInvocation(o, c) \/ ResumeClaimed(o, c) \/ ReauthorizeNotStarted(o, c)
      PROVE  SectionStep
  <2>1. Admit(o, c, call'[c]) /\ UNCHANGED authority
    BY <1>3 DEF ClaimProviderInvocation, ResumeClaimed, ReauthorizeNotStarted
  <2> QED BY <1>t, <2>1, AdmitSection DEF SectionStep
<1>4. ASSUME NEW o \in Owners, HandOff(o) PROVE SectionStep
  <2>1. CASE HandedOffBy(o)
    <3> DEFINE c == invoke[o].on
               t == [invoke[o] EXCEPT !.at = "invoke", !.snap = call'[c]]
    <3>1. invoke[o] \in Sections /\ call'[c] \in Rows
      BY <1>t, <2>1, SectionTypes DEF HandedOffBy
    <3>2. t \in Sections
      BY <3>1 DEF Sections
    <3>3. SectionMoves(o, t) /\ invoke' = [invoke EXCEPT ![o] = t]
      BY <2>1 DEF SectionMoves, HandedOffBy
    <3> HIDE DEF t, c
    <3> QED BY <2>1, <3>2, <3>3 DEF SectionStep
  <2> QED BY <1>2, <1>4, <2>1, HandOffFacts
<1>5. ASSUME NEW o \in Owners, Send(o) PROVE SectionStep
  <2> DEFINE t == [invoke[o] EXCEPT !.at = "handler"]
  <2>1. invoke \in [Owners -> Sections] /\ invoke[o] \in Sections
    BY <1>t, ProviderTypes
  <2>2. t \in Sections
    BY <2>1 DEF Sections
  <2>3. SectionMoves(o, t) /\ invoke' = [invoke EXCEPT ![o] = t] /\ UNCHANGED authority
    BY <1>5, <2>1 DEF Send, SectionMoves
  <2> HIDE DEF t
  <2> QED BY <2>2, <2>3 DEF SectionStep
<1>6. ASSUME NEW o \in Owners, AdmissionRefused(o) PROVE SectionStep
  BY <1>2, <1>6 DEF AdmissionRefused, Leave
<1>7. ASSUME NEW o \in Owners, AnswerStep(o) PROVE SectionStep
  BY <1>2, <1>7, AnswerRows
<1>8. ASSUME NEW o \in Owners, ReconcileStep(o) PROVE SectionStep
  BY <1>1, <1>8 DEF ReconcileStep, StartReconcile, RecoverHandedOff, ObserveUnknown,
     PassOver, Observed
<1>9. ASSUME NEW o \in Owners, CrashProcess(o) PROVE SectionStep
  BY <1>2, <1>9 DEF CrashProcess, Leave
<1>10. ASSUME \/ \E c \in Calls : RecordProviderAccounting(c)
              \/ Outside \/ AuthorityMoves \/ UNCHANGED vars
       PROVE  SectionStep
  BY <1>1, <1>10 DEF RecordProviderAccounting, Outside, Land, Drop, AuthorityMoves,
     providerVars, passVars, vars
<1> QED BY <1>3, <1>4, <1>5, <1>6, <1>7, <1>8, <1>9, <1>10 DEF ProviderNext, InvokeStep

\* The observations move along ObservingStep.
LEMMA StepObserving ==
    ASSUME ProviderInv, [ProviderNext]_vars
    PROVE  ObservingStep
<1>t. ProviderTypeOK /\ call' \in [Calls -> Rows] /\ Idle \in Sections
  BY StepRows, ConstantTypes DEF ProviderInv
<1>1. ASSUME UNCHANGED observing PROVE ObservingStep
  BY <1>1 DEF ObservingStep
<1>2. ASSUME NEW o \in Owners, observing' = [observing EXCEPT ![o] = Idle]
      PROVE  ObservingStep
  BY <1>2, <1>t DEF ObservingStep
<1>3. ASSUME NEW o \in Owners, NEW c \in Calls, Observe(o, c, call'[c])
      PROVE  ObservingStep
  <2> DEFINE t == [at |-> "observe", on |-> c, snap |-> call'[c], lease |-> 0]
  <2>1. t \in Sections
    BY <1>t DEF Sections
  <2>2. observing' = [observing EXCEPT ![o] = t] /\ t.on = c /\ t.snap = call'[c]
    BY <1>3 DEF Observe
  <2> HIDE DEF t
  <2> QED BY <2>1, <2>2 DEF ObservingStep
<1>4. ASSUME NEW o \in Owners, InvokeStep(o) PROVE UNCHANGED observing
  BY <1>4 DEF InvokeStep, ClaimProviderInvocation, ResumeClaimed, ReauthorizeNotStarted,
     HandOff, AdmissionRefused, Send
<1>5. ASSUME NEW o \in Owners, AnswerStep(o) PROVE UNCHANGED observing
  BY <1>5, AnswerRows
<1>6. ASSUME NEW o \in Owners, ReconcileStep(o) PROVE ObservingStep
  BY <1>1, <1>2, <1>3, <1>6 DEF ReconcileStep, StartReconcile, RecoverHandedOff, ObserveUnknown,
     PassOver, Observed
<1>7. ASSUME NEW o \in Owners, CrashProcess(o) PROVE ObservingStep
  BY <1>2, <1>7 DEF CrashProcess
<1>8. ASSUME \/ \E c \in Calls : RecordProviderAccounting(c)
             \/ Outside \/ AuthorityMoves \/ UNCHANGED vars
      PROVE  UNCHANGED observing
  BY <1>8 DEF RecordProviderAccounting, Outside, Land, Drop, AuthorityMoves, providerVars, passVars, vars
<1> QED BY <1>1, <1>4, <1>5, <1>6, <1>7, <1>8 DEF ProviderNext

\* The resolutions and the receipts move along ResolutionStep and ReceiptStep.
LEMMA StepResolutions ==
    ASSUME ProviderInv, [ProviderNext]_vars
    PROVE  ResolutionStep /\ ReceiptStep
<1>1. ASSUME UNCHANGED <<resolution, receipt>> PROVE ResolutionStep /\ ReceiptStep
  BY <1>1 DEF ResolutionStep, ReceiptStep
<1>2. ASSUME NEW o \in Owners, InvokeStep(o) PROVE UNCHANGED <<resolution, receipt>>
  BY <1>2 DEF InvokeStep, ClaimProviderInvocation, ResumeClaimed, ReauthorizeNotStarted,
     HandOff, AdmissionRefused, Send
<1>3. ASSUME NEW o \in Owners, AnswerStep(o) PROVE UNCHANGED <<resolution, receipt>>
  BY <1>3, AnswerRows
<1>4. ASSUME NEW o \in Owners, NEW outcome \in Outcomes, NEW reported \in BOOLEAN,
             Observed(o, outcome, reported)
      PROVE  ResolutionStep /\ ReceiptStep
  <2> DEFINE c == observing[o].on
             k == observing[o].snap.attempt
  <2>1. UNCHANGED receipt
    BY <1>4 DEF Observed
  <2>2. CASE UNCHANGED resolution
    BY <2>1, <2>2 DEF ResolutionStep, ReceiptStep
  <2>3. CASE ~UNCHANGED resolution
    <3>1. /\ resolution' = [resolution EXCEPT ![c][k] = outcome] /\ resolution[c][k] = "none"
          /\ outcome = "not_started" => world[c][k] = "dropped"
          /\ outcome # "still_unknown" /\ call[c].attempt = k /\ call[c].state = "unknown"
      BY <1>4, <2>3 DEF Observed, RecordProviderReconciliation, Observable
    <3>2. c \in Calls /\ k \in Attempts
      <4>1. c \in Calls
        BY SectionTypes DEF ProviderInv
      <4> QED BY <3>1, <4>1, RowTypes DEF ProviderInv, HandoffsAccounted, Attempts
    <3>3. outcome \in {"not_started", "succeeded"}
      BY <3>1 DEF Outcomes
    <3> HIDE DEF c, k
    <3> QED BY <2>1, <3>1, <3>2, <3>3 DEF ResolutionStep, ReceiptStep
  <2> QED BY <2>2, <2>3
<1>5. ASSUME NEW o \in Owners,
             \/ StartReconcile(o)
             \/ \E c \in Calls : RecoverHandedOff(o, c) \/ ObserveUnknown(o, c) \/ PassOver(o, c)
      PROVE  UNCHANGED <<resolution, receipt>>
  BY <1>5 DEF StartReconcile, RecoverHandedOff, ObserveUnknown, PassOver
<1>6. ASSUME \/ \E o \in Owners : CrashProcess(o)
             \/ Outside \/ AuthorityMoves \/ UNCHANGED vars
      PROVE  UNCHANGED <<resolution, receipt>>
  BY <1>6 DEF CrashProcess, Outside, Land, Drop, AuthorityMoves, providerVars, passVars, vars
<1>7. ASSUME NEW c \in Calls, RecordProviderAccounting(c) PROVE ResolutionStep /\ ReceiptStep
  <2>1. UNCHANGED resolution
    BY <1>7 DEF RecordProviderAccounting
  <2> QED BY <1>7, <2>1 DEF ResolutionStep, ReceiptStep
<1> QED BY <1>1, <1>2, <1>3, <1>4, <1>5, <1>6, <1>7 DEF ProviderNext, ReconcileStep

\* The provider and the ledger move along WorldStep.
LEMMA StepWorld ==
    ASSUME ProviderInv, [ProviderNext]_vars
    PROVE  WorldStep
<1>t. ProviderTypeOK /\ world \in [Calls -> [Attempts -> {"unsent", "sent", "dropped"} \cup Served]]
  BY ProviderTypes DEF ProviderInv
<1>1. ASSUME NEW o \in Owners, Send(o) PROVE WorldStep
  <2> DEFINE c == invoke[o].on
             k == invoke[o].snap.attempt
  <2>1. /\ UNCHANGED <<call, authority, resolution, receipt, observing, cost>>
        /\ world' = [world EXCEPT ![c][k] = IF @ = "unsent" THEN "sent" ELSE @]
        /\ invoke[o].at = "invoke"
    BY <1>1 DEF Send
  <2>2. c \in Calls /\ k \in 1..call[c].attempt /\ call[c].attempt \in 0..2
    BY <1>t, <2>1, SectionTypes, RowTypes DEF ProviderInv, HandlersSound
  <2>3. k \in Attempts /\ k <= call[c].attempt
    BY <2>2 DEF Attempts
  <2>4. CASE world[c][k] = "unsent"
    <3>1. world' = [world EXCEPT ![c][k] = "sent"]
      BY <1>t, <2>1, <2>4
    <3> HIDE DEF c, k
    <3> QED BY <2>1, <2>2, <2>3, <2>4, <3>1 DEF WorldStep
  <2>5. CASE world[c][k] # "unsent"
    <3>1. world' = world
      BY <1>t, <2>1, <2>5
    <3> QED BY <2>1, <3>1 DEF WorldStep
  <2> QED BY <2>4, <2>5
<1>2. ASSUME Outside PROVE WorldStep
  <2>1. PICK c \in Calls, k \in Attempts :
           Drop(c, k) \/ \E model \in Models, amount \in Costs : Land(c, k, model, amount)
    BY <1>2 DEF Outside
  <2>2. UNCHANGED <<call, authority, resolution, receipt, observing>>
    BY <2>1 DEF Drop, Land
  <2> QED BY <2>1, <2>2 DEF WorldStep, Drop
<1>3. ASSUME UNCHANGED <<world, cost>> PROVE WorldStep
  BY <1>3 DEF WorldStep
<1>4. ASSUME NEW o \in Owners, InvokeStep(o), ~Send(o) PROVE UNCHANGED <<world, cost>>
  BY <1>4 DEF InvokeStep, ClaimProviderInvocation, ResumeClaimed, ReauthorizeNotStarted,
     HandOff, AdmissionRefused
<1>5. ASSUME NEW o \in Owners, AnswerStep(o) PROVE UNCHANGED <<world, cost>>
  BY <1>5, AnswerRows
<1>6. ASSUME NEW o \in Owners, ReconcileStep(o) PROVE UNCHANGED <<world, cost>>
  BY <1>6 DEF ReconcileStep, StartReconcile, RecoverHandedOff, ObserveUnknown,
     PassOver, Observed
<1>7. ASSUME \/ \E o \in Owners : CrashProcess(o)
             \/ \E c \in Calls : RecordProviderAccounting(c)
             \/ AuthorityMoves \/ UNCHANGED vars
      PROVE  UNCHANGED <<world, cost>>
  BY <1>7 DEF CrashProcess, RecordProviderAccounting, AuthorityMoves, providerVars, passVars, vars
<1> QED BY <1>1, <1>2, <1>3, <1>4, <1>5, <1>6, <1>7 DEF ProviderNext

\* The lists of the startup keep their types.
LEMMA StepPasses ==
    ASSUME ProviderInv, [ProviderNext]_vars
    PROVE  starting' \subseteq Owners /\ listed' \in [Owners -> SUBSET Calls]
<1>t. starting \subseteq Owners /\ listed \in [Owners -> SUBSET Calls]
  BY ProviderTypes DEF ProviderInv
<1>1. ASSUME UNCHANGED passVars
      PROVE  starting' \subseteq Owners /\ listed' \in [Owners -> SUBSET Calls]
  BY <1>1, <1>t DEF passVars
<1>2. ASSUME NEW o \in Owners, InvokeStep(o) PROVE UNCHANGED passVars
  BY <1>2 DEF InvokeStep, ClaimProviderInvocation, ResumeClaimed, ReauthorizeNotStarted,
     HandOff, AdmissionRefused, Send
<1>3. ASSUME NEW o \in Owners, AnswerStep(o) PROVE UNCHANGED passVars
  BY <1>3 DEF AnswerStep, ProviderSucceeds, ResponseNotDurable, ProviderFails,
     ProviderInterrupted
<1>4. ASSUME NEW o \in Owners, NEW c \in Calls, Visits(o, c)
      PROVE  starting' \subseteq Owners /\ listed' \in [Owners -> SUBSET Calls]
  BY <1>4, <1>t DEF Visits
<1>5. ASSUME NEW o \in Owners, StartReconcile(o) \/ CrashProcess(o)
      PROVE  starting' \subseteq Owners /\ listed' \in [Owners -> SUBSET Calls]
  BY <1>5, <1>t DEF StartReconcile, CrashProcess
<1>6. ASSUME NEW o \in Owners, ReconcileStep(o)
      PROVE  starting' \subseteq Owners /\ listed' \in [Owners -> SUBSET Calls]
  <2>1. \/ StartReconcile(o) \/ UNCHANGED passVars \/ \E c \in Calls : Visits(o, c)
    BY <1>6 DEF ReconcileStep, RecoverHandedOff, ObserveUnknown, PassOver, Observed
  <2> QED BY <1>1, <1>4, <1>5, <2>1
<1>7. ASSUME \/ \E c \in Calls : RecordProviderAccounting(c)
             \/ Outside \/ AuthorityMoves \/ UNCHANGED vars
      PROVE  UNCHANGED passVars
  BY <1>7 DEF RecordProviderAccounting, Outside, Land, Drop, AuthorityMoves, providerVars, vars
<1> QED BY <1>1, <1>2, <1>3, <1>5, <1>6, <1>7 DEF ProviderNext

-----------------------------------------------------------------------------
(* The invariant.                                                          *)

\* The types are kept.
LEMMA ProviderTypeStep ==
    ASSUME ProviderInv, [ProviderNext]_vars
    PROVE  ProviderTypeOK'
<1>t. ProviderTypeOK
  BY DEF ProviderInv
<1>1. TypeOK'
  BY <1>t, TypeStep, ProviderIsAuthority DEF ProviderTypeOK
<1>2. call' \in [Calls -> Rows]
  BY StepRows
<1>3. authority' \in [Calls -> [Attempts -> [owner : Owners \cup {NoOwner}, epoch : Nat]]]
  <2>1. authority \in [Calls -> [Attempts -> [owner : Owners \cup {NoOwner}, epoch : Nat]]]
    BY <1>t, ProviderTypes
  <2>2. ASSUME NEW o \in Owners, HandedOffBy(o)
        PROVE  authority' \in [Calls -> [Attempts -> [owner : Owners \cup {NoOwner}, epoch : Nat]]]
    <3>1. invoke[o].lease \in Nat
      BY <1>t, SectionTypes
    <3> QED BY <2>1, <2>2, <3>1 DEF HandedOffBy
  <2> QED BY <2>1, <2>2, StepSections DEF SectionStep
<1>4. resolution' \in [Calls -> [Attempts -> {"none", "not_started", "succeeded"}]]
  <2>1. resolution \in [Calls -> [Attempts -> {"none", "not_started", "succeeded"}]]
    BY <1>t, ProviderTypes
  <2> QED BY <2>1, StepResolutions DEF ResolutionStep
<1>5. receipt' \in [Calls -> {Unknown} \cup Nat]
  <2>1. receipt \in [Calls -> {Unknown} \cup Nat] /\ cost \in [Calls -> Nat]
    BY <1>t, ProviderTypes
  <2>2. ASSUME NEW c \in Calls, RecordProviderAccounting(c)
        PROVE  receipt' \in [Calls -> {Unknown} \cup Nat]
    BY <2>1, <2>2 DEF RecordProviderAccounting
  <2> QED BY <2>1, <2>2, StepResolutions DEF ReceiptStep
<1>6. invoke' \in [Owners -> Sections]
  BY <1>t, ProviderTypes, StepSections DEF SectionStep
<1>7. observing' \in [Owners -> Sections]
  BY <1>t, ProviderTypes, StepObserving DEF ObservingStep
<1>8. /\ world' \in [Calls -> [Attempts -> {"unsent", "sent", "dropped"} \cup Served]]
      /\ cost' \in [Calls -> Nat]
  <2>1. /\ world \in [Calls -> [Attempts -> {"unsent", "sent", "dropped"} \cup Served]]
        /\ cost \in [Calls -> Nat]
    BY <1>t, ProviderTypes
  <2>2. ASSUME NEW c \in Calls, NEW k \in Attempts, NEW model \in Models, NEW amount \in Costs,
               Land(c, k, model, amount)
        PROVE  /\ world' \in [Calls -> [Attempts -> {"unsent", "sent", "dropped"} \cup Served]]
               /\ cost' \in [Calls -> Nat]
    <3>1. amount \in Nat /\ model \in Served
      BY ProviderConstants DEF Served
    <3>2. cost[c] + amount \in Nat
      BY <2>1, <3>1
    <3> QED BY <2>1, <2>2, <3>1, <3>2 DEF Land
  <2>3. CASE UNCHANGED <<world, cost>>
    BY <2>1, <2>3
  <2>4. ASSUME NEW c \in Calls, NEW k \in Attempts, NEW v \in {"sent", "dropped"},
               world' = [world EXCEPT ![c][k] = v], UNCHANGED cost
        PROVE  /\ world' \in [Calls -> [Attempts -> {"unsent", "sent", "dropped"} \cup Served]]
               /\ cost' \in [Calls -> Nat]
    BY <2>1, <2>4
  <2> QED BY <2>2, <2>3, <2>4, StepWorld DEF WorldStep
<1>9. starting' \subseteq Owners /\ listed' \in [Owners -> SUBSET Calls]
  BY StepPasses
<1> QED BY <1>1, <1>2, <1>3, <1>4, <1>5, <1>6, <1>7, <1>8, <1>9 DEF ProviderTypeOK

\* The fields of a row that is closed.
LEMMA ClosedFields ==
    ASSUME ProviderTypeOK, NEW c \in Calls, NEW s, NEW n, NEW u, RowClosed(c, s, n, u)
    PROVE  /\ call'[c].state = s /\ call'[c].charge = n /\ call'[c].usage = u
           /\ call'[c].version = call[c].version + 1
           /\ call'[c].attempt = call[c].attempt /\ call'[c].retries = call[c].retries
<1>1. call[c] \in Rows
  BY RowTypes
<1> QED BY <1>1 DEF RowClosed, Rows

\* A row is lost or answered by closing it.
LEMMA LostOrAnswered ==
    ASSUME ProviderTypeOK, NEW c \in Calls, RowLost(c) \/ RowAnswered(c)
    PROVE  /\ call[c].state \in {"handed_off", "unknown"}
           /\ call'[c].state \in {"unknown", "succeeded", "failed"}
           /\ call'[c].version = call[c].version + 1
           /\ call'[c].attempt = call[c].attempt /\ call'[c].retries = call[c].retries
           /\ \/ call'[c].state = "unknown" /\ call'[c].charge = Unknown
              \/ /\ call'[c].state \in Answers /\ AnswerCharge(c, call'[c].charge)
                 /\ call'[c].state = "succeeded" => world[c][call[c].attempt] \in Served
<1>1. CASE RowLost(c)
  BY <1>1, ClosedFields DEF RowLost
<1>2. ASSUME NEW s \in Answers, NEW n \in {Unknown} \cup Nat, NEW u \in BOOLEAN,
             call[c].state \in {"handed_off", "unknown"},
             RowClosed(c, s, n, u), AnswerCharge(c, n),
             s = "succeeded" => world[c][call[c].attempt] \in Served
      PROVE  /\ call'[c].state \in Answers /\ AnswerCharge(c, call'[c].charge)
             /\ call'[c].version = call[c].version + 1
             /\ call'[c].attempt = call[c].attempt /\ call'[c].retries = call[c].retries
             /\ call'[c].state = "succeeded" => world[c][call[c].attempt] \in Served
  BY <1>2, ClosedFields
<1>3. CASE RowAnswered(c)
  BY <1>2, <1>3 DEF RowAnswered, Answers
<1> QED BY <1>1, <1>3

\* A row that moves has a larger version, never counts fewer handoffs, and is handed
\* off only by the next handoff.
LEMMA RowProgress ==
    ASSUME ProviderInv, NEW c \in Calls, RowMoves(c)
    PROVE  /\ call'[c] # call[c] => call'[c].version > call[c].version
           /\ call'[c].attempt >= call[c].attempt
           /\ call'[c] # call[c] /\ call'[c].state = "handed_off" =>
                 call'[c].attempt > call[c].attempt
<1>t. ProviderTypeOK /\ call[c] \in Rows /\ call[c].version \in Nat /\ call[c].attempt \in 0..2
  BY RowTypes DEF ProviderInv
<1>1. CASE call'[c] = call[c]
  BY <1>1, <1>t
<1>2. CASE RowClaimed(c)
  <2>1. call[c] = NoCall
    BY <1>2 DEF RowClaimed, ProviderInv, ChargesAccounted
  <2> QED BY <1>2, <2>1 DEF RowClaimed, NoCall
<1>3. CASE RowReauthorized(c)
  BY <1>3, <1>t DEF RowReauthorized, Rows
<1>4. CASE RowHandedOff(c)
  BY <1>4, <1>t DEF RowHandedOff, Rows
<1>5. CASE RowLost(c) \/ RowAnswered(c)
  BY <1>5, <1>t, LostOrAnswered
<1> QED BY <1>1, <1>2, <1>3, <1>4, <1>5 DEF RowMoves

\* RowsPinned is kept: what changes has a larger version.
LEMMA PinnedStep ==
    ASSUME ProviderInv, [ProviderNext]_vars
    PROVE  RowsPinned'
<1>t. ProviderTypeOK /\ ProviderTypeOK'
  BY ProviderTypeStep DEF ProviderInv
<1>1. ASSUME NEW s \in Sections,
             /\ s.snap.version <= call[s.on].version
             /\ s.snap.version = call[s.on].version => s.snap = call[s.on]
      PROVE  /\ s.snap.version <= call'[s.on].version
             /\ s.snap.version = call'[s.on].version => s.snap = call'[s.on]
  <2>1. s.on \in Calls /\ s.snap.version \in Nat
    BY DEF Sections, Rows
  <2>2. call[s.on].version \in Nat /\ call'[s.on].version \in Nat
    BY <1>t, <2>1, ProviderTypes, StepRows DEF Rows
  <2>3. call'[s.on] # call[s.on] => call'[s.on].version > call[s.on].version
    BY <2>1, StepRows, RowProgress
  <2> QED BY <1>1, <2>1, <2>2, <2>3
<1>2. ASSUME NEW s \in Sections, s.snap = call'[s.on]
      PROVE  /\ s.snap.version <= call'[s.on].version
             /\ s.snap.version = call'[s.on].version => s.snap = call'[s.on]
  BY <1>2 DEF Sections, Rows
<1>3. ASSUME NEW o \in Owners, invoke'[o].at # "idle"
      PROVE  /\ invoke'[o].snap.version <= call'[invoke'[o].on].version
             /\ invoke'[o].snap.version = call'[invoke'[o].on].version =>
                   invoke'[o].snap = call'[invoke'[o].on]
  <2>0. invoke \in [Owners -> Sections] /\ invoke[o] \in Sections /\ invoke'[o] \in Sections
    BY <1>t, ProviderTypes DEF ProviderTypeOK
  <2>1. CASE invoke'[o] = invoke[o]
    BY <1>1, <1>3, <2>0, <2>1 DEF ProviderInv, RowsPinned
  <2>2. ASSUME NEW t \in Sections, SectionMoves(o, t), invoke' = [invoke EXCEPT ![o] = t]
        PROVE  /\ invoke'[o].snap.version <= call'[invoke'[o].on].version
               /\ invoke'[o].snap.version = call'[invoke'[o].on].version =>
                     invoke'[o].snap = call'[invoke'[o].on]
    <3>0. invoke'[o] = t
      BY <2>0, <2>2
    <3>1. CASE t = Idle
      BY <1>3, <3>0, <3>1, ConstantTypes
    <3>2. CASE invoke[o].at = "invoke" /\ t = [invoke[o] EXCEPT !.at = "handler"]
      <4>1. t.snap = invoke[o].snap /\ t.on = invoke[o].on
        BY <2>0, <3>2 DEF Sections
      <4>2. /\ t.snap.version <= call[t.on].version
            /\ t.snap.version = call[t.on].version => t.snap = call[t.on]
        BY <3>2, <4>1 DEF ProviderInv, RowsPinned
      <4> QED BY <1>1, <3>0, <4>2
    <3>3. CASE t.snap = call'[t.on]
      BY <1>2, <3>0, <3>3
    <3>4. CASE HandedOffBy(o) /\ t = [invoke[o] EXCEPT !.at = "invoke", !.snap = call'[invoke[o].on]]
      <4>1. t.snap = call'[t.on]
        BY <2>0, <3>4 DEF Sections
      <4> QED BY <3>3, <4>1
    <3> QED BY <2>2, <3>1, <3>2, <3>3, <3>4 DEF SectionMoves
  <2>3. invoke'[o] = invoke[o]
        \/ \E t \in Sections : SectionMoves(o, t) /\ invoke' = [invoke EXCEPT ![o] = t]
    BY <2>0, StepSections DEF SectionStep
  <2> QED BY <2>1, <2>2, <2>3
<1>4. ASSUME NEW o \in Owners, observing'[o].at # "idle"
      PROVE  /\ observing'[o].snap.version <= call'[observing'[o].on].version
             /\ observing'[o].snap.version = call'[observing'[o].on].version =>
                   observing'[o].snap = call'[observing'[o].on]
  <2>0. observing \in [Owners -> Sections] /\ observing[o] \in Sections
        /\ observing'[o] \in Sections
    BY <1>t, ProviderTypes DEF ProviderTypeOK
  <2>1. CASE observing'[o] = observing[o]
    BY <1>1, <1>4, <2>0, <2>1 DEF ProviderInv, RowsPinned
  <2>2. CASE observing'[o] = Idle
    BY <1>4, <2>2, ConstantTypes
  <2>3. CASE observing'[o].snap = call'[observing'[o].on]
    BY <1>2, <2>0, <2>3
  <2> QED BY <2>0, <2>1, <2>2, <2>3, StepObserving DEF ObservingStep
<1> QED BY <1>3, <1>4 DEF RowsPinned

\* The lease epoch only grows.
LEMMA LeaseGrows ==
    ASSUME AuthorityInv, [ProviderNext]_vars
    PROVE  lease.epoch <= lease'.epoch /\ lease.epoch \in Nat /\ lease'.epoch \in Nat
<1>1. TypeOK /\ TypeOK'
  BY TypeStep, ProviderIsAuthority DEF AuthorityInv
<1>2. lease.epoch \in Nat /\ lease'.epoch \in Nat
  BY <1>1 DEF TypeOK
<1> QED BY <1>2, RowSteps, ProviderIsAuthority

\* HandlersSound is kept.
LEMMA HandlersStep ==
    ASSUME ProviderInv, AuthorityInv, [ProviderNext]_vars
    PROVE  HandlersSound'
<1>t. ProviderTypeOK /\ ProviderTypeOK'
  BY ProviderTypeStep DEF ProviderInv
<1>l. lease.epoch <= lease'.epoch /\ lease.epoch \in Nat /\ lease'.epoch \in Nat
  BY LeaseGrows
<1> DEFINE Sound(o, s) ==
              /\ s.lease <= lease'.epoch
              /\ s.at \in {"invoke", "handler"} =>
                   /\ s.snap.state = "handed_off" /\ s.snap.attempt \in 1..call'[s.on].attempt
                   /\ authority'[s.on][s.snap.attempt] = [owner |-> o, epoch |-> s.lease]
                   /\ call'[s.on].state = "handed_off" /\ call'[s.on].attempt = s.snap.attempt =>
                         call'[s.on] = s.snap
<1>1. ASSUME NEW o \in Owners, NEW s \in Sections,
             s.on = invoke[o].on, s.snap = invoke[o].snap, s.lease = invoke[o].lease,
             s.at \in {"invoke", "handler"} => invoke[o].at \in {"invoke", "handler"}
      PROVE  Sound(o, s)
  <2> DEFINE c == s.on
             k == s.snap.attempt
  <2>1. c \in Calls /\ s.lease \in Nat /\ k \in 0..2
    BY DEF Sections, Rows
  <2>2. s.lease <= lease'.epoch
    <3>1. s.lease <= lease.epoch
      BY <1>1 DEF ProviderInv, HandlersSound
    <3> QED BY <1>l, <2>1, <3>1
  <2>3. CASE s.at \in {"invoke", "handler"}
    <3>1. /\ s.snap.state = "handed_off" /\ k \in 1..call[c].attempt
          /\ authority[c][k] = [owner |-> o, epoch |-> s.lease]
          /\ call[c].state = "handed_off" /\ call[c].attempt = k => call[c] = s.snap
      BY <1>1, <2>3 DEF ProviderInv, HandlersSound
    <3>2. call[c].attempt \in 0..2 /\ call'[c].attempt \in 0..2
      BY <1>t, <2>1, RowTypes, StepRows DEF Rows
    <3>3. /\ call'[c].attempt >= call[c].attempt
          /\ call'[c] # call[c] /\ call'[c].state = "handed_off" =>
                call'[c].attempt > call[c].attempt
      BY <2>1, StepRows, RowProgress
    <3>4. k \in 1..call'[c].attempt
      BY <3>1, <3>2, <3>3
    <3>5. call'[c].state = "handed_off" /\ call'[c].attempt = k => call'[c] = s.snap
      BY <3>1, <3>2, <3>3
    <3>6. authority'[c][k] = authority[c][k]
      <4>0. authority \in [Calls -> [Attempts -> [owner : Owners \cup {NoOwner}, epoch : Nat]]]
        BY <1>t, ProviderTypes
      <4>1. ASSUME NEW p \in Owners, HandedOffBy(p) PROVE authority'[c][k] = authority[c][k]
        <5>1. invoke[p].on = c => k # call[c].attempt + 1
          BY <3>1, <3>2
        <5>2. k \in Attempts
          BY <3>1, <3>2 DEF Attempts
        <5> QED BY <2>1, <4>0, <4>1, <5>1, <5>2 DEF HandedOffBy
      <4> QED BY <4>1, StepSections DEF SectionStep
    <3> QED BY <2>2, <3>1, <3>4, <3>5, <3>6
  <2> QED BY <2>2, <2>3
<1>2. ASSUME NEW o \in Owners PROVE Sound(o, invoke'[o])
  <2>0. invoke \in [Owners -> Sections] /\ invoke[o] \in Sections /\ invoke'[o] \in Sections
    BY <1>t, ProviderTypes DEF ProviderTypeOK
  <2>1. CASE invoke'[o] = invoke[o]
    <3> HIDE DEF Sound
    <3> QED BY <1>1, <2>0, <2>1
  <2>2. ASSUME NEW t \in Sections, SectionMoves(o, t), invoke' = [invoke EXCEPT ![o] = t]
        PROVE  Sound(o, t)
    <3>1. CASE t = Idle
      BY <1>l, <3>1, ConstantTypes
    <3>2. CASE invoke[o].at = "invoke" /\ t = [invoke[o] EXCEPT !.at = "handler"]
      <4>1. t.snap = invoke[o].snap /\ t.on = invoke[o].on /\ t.lease = invoke[o].lease
        BY <2>0, <3>2 DEF Sections
      <4> HIDE DEF Sound
      <4> QED BY <1>1, <3>2, <4>1
    <3>3. CASE t.at = "admission" /\ t.lease = heldLease[o]
      <4>1. heldLease[o] \in Nat /\ heldLease[o] <= lease.epoch
        <5>1. heldLease[o] \in Nat
          BY <1>t DEF ProviderTypeOK, TypeOK
        <5>2. heldLease[o] # 0 => heldLease[o] \in KnownEpochs(o)
          BY DEF KnownEpochs
        <5> QED BY <1>l, <5>1, <5>2 DEF AuthorityInv, LeaseTokensIssued
      <4> QED BY <1>l, <3>3, <4>1
    <3>4. CASE HandedOffBy(o) /\ t = [invoke[o] EXCEPT !.at = "invoke", !.snap = call'[invoke[o].on]]
      <4> DEFINE c == invoke[o].on
      <4>1. /\ t.snap = call'[c] /\ t.on = c /\ t.lease = invoke[o].lease /\ t.lease \in Nat
            /\ c \in Calls
        BY <2>0, <3>4 DEF Sections
      <4>2. call[c] \in Rows /\ call[c].attempt \in 0..2
        BY <1>t, <4>1, RowTypes
      <4>3. /\ call'[c].state = "handed_off" /\ call'[c].attempt = call[c].attempt + 1
            /\ call[c].attempt + 1 \in Attempts
        BY <3>4, <4>2 DEF HandedOffBy, RowHandedOff, Rows
      <4>4. authority'[c][call[c].attempt + 1] = [owner |-> o, epoch |-> invoke[o].lease]
        <5>1. authority \in [Calls -> [Attempts -> [owner : Owners \cup {NoOwner}, epoch : Nat]]]
          BY <1>t, ProviderTypes
        <5> QED BY <3>4, <4>1, <4>3, <5>1 DEF HandedOffBy
      <4>5. t.lease <= lease'.epoch
        <5>1. t.lease <= lease.epoch
          BY <4>1 DEF ProviderInv, HandlersSound
        <5> QED BY <1>l, <4>1, <5>1
      <4>6. call'[c].attempt \in 1..call'[c].attempt
        BY <4>2, <4>3
      <4> QED BY <4>1, <4>3, <4>4, <4>5, <4>6
    <3>5. t = Idle \/ (t.at = "admission" /\ t.lease = heldLease[o])
          \/ (invoke[o].at = "invoke" /\ t = [invoke[o] EXCEPT !.at = "handler"])
          \/ (HandedOffBy(o) /\ t = [invoke[o] EXCEPT !.at = "invoke", !.snap = call'[invoke[o].on]])
      BY <2>2 DEF SectionMoves
    <3> QED BY <3>1, <3>2, <3>3, <3>4, <3>5
  <2>3. invoke'[o] = invoke[o]
        \/ \E t \in Sections : SectionMoves(o, t) /\ invoke' = [invoke EXCEPT ![o] = t]
    BY <2>0, StepSections DEF SectionStep
  <2> HIDE DEF Sound
  <2> QED BY <2>0, <2>1, <2>2, <2>3
<1> QED BY <1>2 DEF HandlersSound

\* What becomes of a handoff: it is sent once recorded, and served or dropped for good.
LEMMA WorldFacts ==
    ASSUME ProviderInv, [ProviderNext]_vars, NEW c \in Calls, NEW k \in Attempts
    PROVE  /\ world[c][k] \in Served \cup {"dropped"} => world'[c][k] = world[c][k]
           /\ world'[c][k] # "unsent" => world[c][k] # "unsent" \/ k <= call[c].attempt
<1>t. world \in [Calls -> [Attempts -> {"unsent", "sent", "dropped"} \cup Served]]
  BY ProviderTypes DEF ProviderInv
<1>1. CASE UNCHANGED <<world, cost>>
  BY <1>1
<1>2. ASSUME NEW d \in Calls, NEW j \in Attempts, NEW v \in {"sent", "dropped"},
             world[d][j] \in {"unsent", "sent"}, j <= call[d].attempt,
             world' = [world EXCEPT ![d][j] = v]
      PROVE  /\ world[c][k] \in Served \cup {"dropped"} => world'[c][k] = world[c][k]
             /\ world'[c][k] # "unsent" => world[c][k] # "unsent" \/ k <= call[c].attempt
  BY <1>t, <1>2 DEF Served
<1>3. ASSUME NEW d \in Calls, NEW j \in Attempts, NEW model \in Models, NEW amount \in Costs,
             Land(d, j, model, amount)
      PROVE  /\ world[c][k] \in Served \cup {"dropped"} => world'[c][k] = world[c][k]
             /\ world'[c][k] # "unsent" => world[c][k] # "unsent" \/ k <= call[c].attempt
  BY <1>t, <1>3 DEF Served, Land
<1> QED BY <1>1, <1>2, <1>3, StepWorld DEF WorldStep

\* What was resolved stays resolved, and a new resolution tells what became of the
\* handoff.
LEMMA ResolutionFacts ==
    ASSUME ProviderInv, [ProviderNext]_vars, NEW c \in Calls, NEW k \in Attempts
    PROVE  /\ resolution[c][k] = "not_started" => resolution'[c][k] = "not_started"
           /\ resolution'[c][k] = "not_started" =>
                 resolution[c][k] = "not_started" \/ world[c][k] = "dropped"
<1>t. resolution \in [Calls -> [Attempts -> {"none", "not_started", "succeeded"}]]
  BY ProviderTypes DEF ProviderInv
<1> QED BY <1>t, StepResolutions DEF ResolutionStep

\* HandoffsAccounted is kept.
LEMMA HandoffsStep ==
    ASSUME ProviderInv, [ProviderNext]_vars
    PROVE  HandoffsAccounted'
<1>t. ProviderTypeOK /\ ProviderTypeOK'
  BY ProviderTypeStep DEF ProviderInv
<1> SUFFICES ASSUME NEW c \in Calls
             PROVE  /\ call'[c].state \in {"none", "claimed"} => call'[c].attempt = call'[c].retries
                    /\ call'[c].state \notin {"none", "claimed"} =>
                          call'[c].attempt = call'[c].retries + 1
                    /\ call'[c].retries = 1 => resolution'[c][1] = "not_started"
                    /\ \A k \in Attempts : resolution'[c][k] = "not_started" => world'[c][k] = "dropped"
                    /\ \A k \in Attempts : world'[c][k] # "unsent" => k <= call'[c].attempt
  BY DEF HandoffsAccounted
<1>0. /\ call[c].state \in {"none", "claimed"} => call[c].attempt = call[c].retries
      /\ call[c].state \notin {"none", "claimed"} => call[c].attempt = call[c].retries + 1
      /\ call[c].retries = 1 => resolution[c][1] = "not_started"
      /\ \A k \in Attempts : resolution[c][k] = "not_started" => world[c][k] = "dropped"
      /\ \A k \in Attempts : world[c][k] # "unsent" => k <= call[c].attempt
  BY DEF ProviderInv, HandoffsAccounted
<1>r. /\ call[c] \in Rows /\ call[c].attempt \in 0..2 /\ call[c].retries \in 0..1
      /\ call'[c].attempt \in 0..2 /\ RowMoves(c)
  BY <1>t, RowTypes, StepRows DEF Rows
<1>1. /\ call'[c].state \in {"none", "claimed"} => call'[c].attempt = call'[c].retries
      /\ call'[c].state \notin {"none", "claimed"} => call'[c].attempt = call'[c].retries + 1
      /\ call'[c].retries = 1 => resolution[c][1] = "not_started"
  <2>1. CASE call'[c] = call[c]
    BY <1>0, <2>1
  <2>2. CASE RowClaimed(c)
    BY <2>2 DEF RowClaimed, NoCall
  <2>3. CASE RowReauthorized(c)
    <3>1. /\ call[c].state = "unknown" /\ call[c].retries = 0
          /\ resolution[c][call[c].attempt] = "not_started"
      BY <2>3 DEF RowReauthorized, CanReauthorize
    <3>2. call[c].attempt = 1
      BY <1>0, <3>1
    <3>3. call'[c].state = "claimed" /\ call'[c].retries = 1 /\ call'[c].attempt = call[c].attempt
      BY <2>3, <1>r DEF RowReauthorized, Rows
    <3> QED BY <3>1, <3>2, <3>3
  <2>4. CASE RowHandedOff(c)
    <3>1. /\ call'[c].state = "handed_off" /\ call'[c].retries = call[c].retries
          /\ call'[c].attempt = call[c].attempt + 1 /\ call[c].state = "claimed"
      BY <2>4, <1>r DEF RowHandedOff, Rows
    <3> QED BY <1>0, <3>1
  <2>5. CASE RowLost(c) \/ RowAnswered(c)
    <3>1. /\ call[c].state \in {"handed_off", "unknown"}
          /\ call'[c].state \in {"unknown", "succeeded", "failed"}
          /\ call'[c].attempt = call[c].attempt /\ call'[c].retries = call[c].retries
      BY <1>t, <2>5, LostOrAnswered
    <3> QED BY <1>0, <3>1
  <2> QED BY <1>r, <2>1, <2>2, <2>3, <2>4, <2>5 DEF RowMoves
<1>2. call'[c].retries = 1 => resolution'[c][1] = "not_started"
  <2>1. 1 \in Attempts
    BY DEF Attempts
  <2> QED BY <1>1, <2>1, ResolutionFacts
<1>3. ASSUME NEW k \in Attempts, resolution'[c][k] = "not_started"
      PROVE  world'[c][k] = "dropped"
  <2>1. world[c][k] = "dropped"
    BY <1>0, <1>3, ResolutionFacts
  <2> QED BY <2>1, WorldFacts
<1>4. ASSUME NEW k \in Attempts, world'[c][k] # "unsent" PROVE k <= call'[c].attempt
  <2>1. k <= call[c].attempt
    BY <1>0, <1>4, WorldFacts
  <2>2. call'[c].attempt >= call[c].attempt
    BY <1>r, RowProgress
  <2> QED BY <1>r, <2>1, <2>2 DEF Attempts
<1> QED BY <1>1, <1>2, <1>3, <1>4

\* A request in flight is the last handoff of a call that has cost nothing yet.
LEMMA InFlight ==
    ASSUME ProviderInv, NEW c \in Calls, NEW k \in Attempts, world[c][k] = "sent"
    PROVE  /\ call[c].attempt = k /\ cost[c] = 0
           /\ \A j \in Attempts : world[c][j] \notin Served
<1>1. call[c].attempt \in 0..2 /\ call[c].retries \in 0..1
  BY RowTypes DEF ProviderInv
<1>2. k <= call[c].attempt
  BY DEF ProviderInv, HandoffsAccounted
<1>3. call[c].attempt = 2 => world[c][1] = "dropped"
  BY <1>1 DEF ProviderInv, HandoffsAccounted, Attempts
<1>4. call[c].attempt = k
  BY <1>1, <1>2, <1>3 DEF Attempts
<1>5. \A j \in Attempts : world[c][j] # "unsent" => j <= call[c].attempt
  BY DEF ProviderInv, HandoffsAccounted
<1>6. \A j \in Attempts : world[c][j] \notin Served
  BY <1>3, <1>4, <1>5 DEF Attempts, Served
<1>7. cost[c] = 0
  BY <1>6 DEF ProviderInv, ChargesAccounted
<1> QED BY <1>4, <1>6, <1>7

\* A call that has not been answered has no receipt, and may come to its estimate.
LEMMA OpenCall ==
    ASSUME ProviderInv, NEW c \in Calls, call[c].state \in {"claimed", "handed_off", "unknown"}
    PROVE  receipt[c] = Unknown /\ call[c].charge \in {Unknown, Estimate}
BY DEF ProviderInv, ChargesAccounted, Answers

\* A row that moves has no receipt and gets none in the same step.
LEMMA MovedRowReceipt ==
    ASSUME ProviderInv, [ProviderNext]_vars, NEW c \in Calls, call'[c] # call[c]
    PROVE  call[c].state \notin Answers /\ receipt[c] = Unknown /\ receipt'[c] = Unknown
<1>1. RowMoves(c)
  BY StepRows
<1>2. call[c].state \notin Answers
  BY <1>1 DEF RowMoves, RowClaimed, RowReauthorized, CanReauthorize, RowHandedOff, RowLost,
     RowAnswered, Answers
<1>3. receipt[c] = Unknown
  BY <1>2 DEF ProviderInv, ChargesAccounted
<1>4. UNCHANGED receipt
  BY StepResolutions DEF ReceiptStep, RecordProviderAccounting
<1> QED BY <1>2, <1>3, <1>4

\* The charge of a row after a step of the ledger: reserved, kept, unknown, or the cost.
LEMMA ChargeMoves ==
    ASSUME ProviderInv, [ProviderNext]_vars, NEW c \in Calls, call'[c] # call[c]
    PROVE  \/ RowClaimed(c) /\ call'[c].state = "claimed" /\ call'[c].charge = Estimate
           \/ /\ call[c].state \in {"claimed", "handed_off", "unknown"}
              /\ call[c].charge \in {Unknown, Estimate}
              /\ \/ /\ call'[c].state \in {"claimed", "handed_off"}
                    /\ call'[c].charge = call[c].charge
                 \/ call'[c].state = "unknown" /\ call'[c].charge = Unknown
                 \/ /\ call'[c].state \in Answers
                    /\ \/ call'[c].charge \in {Unknown, Estimate}
                       \/ call'[c].charge = cost[c] /\ world[c][call'[c].attempt] \in Served
<1>t. ProviderTypeOK /\ call[c] \in Rows /\ RowMoves(c)
  BY RowTypes, StepRows DEF ProviderInv
<1>1. CASE RowClaimed(c)
  BY <1>1 DEF RowClaimed, NoCall
<1>2. CASE RowReauthorized(c)
  <2>1. call[c].state = "unknown" /\ call'[c].state = "claimed" /\ call'[c].charge = call[c].charge
    BY <1>2, <1>t DEF RowReauthorized, CanReauthorize, Rows
  <2> QED BY <2>1, OpenCall
<1>3. CASE RowHandedOff(c)
  <2>1. /\ call[c].state = "claimed" /\ call'[c].state = "handed_off"
        /\ call'[c].charge = call[c].charge
    BY <1>3, <1>t DEF RowHandedOff, Rows
  <2> QED BY <2>1, OpenCall
<1>4. CASE RowLost(c) \/ RowAnswered(c)
  BY <1>t, <1>4, LostOrAnswered, OpenCall DEF AnswerCharge
<1> QED BY <1>t, <1>1, <1>2, <1>3, <1>4 DEF RowMoves

\* ChargesAccounted of one call.
CallAccounted(c) ==
    /\ cost[c] <= Estimate
    /\ cost[c] # 0 => \E k \in Attempts : world[c][k] \in Served
    /\ call[c].state = "none" => call[c] = NoCall
    /\ call[c].state \in {"claimed", "handed_off"} => call[c].charge \in {Unknown, Estimate}
    /\ call[c].state = "unknown" => call[c].charge = Unknown
    /\ call[c].state \in Answers =>
          \/ call[c].charge \in {Unknown, Estimate}
          \/ call[c].charge = cost[c] /\ world[c][call[c].attempt] \in Served
    /\ receipt[c] # Unknown =>
          /\ call[c].state \in Answers /\ receipt[c] = cost[c]
          /\ world[c][call[c].attempt] \in Served \cup {"dropped"}

\* ChargesAccounted is kept.
LEMMA ChargesStep ==
    ASSUME ProviderInv, [ProviderNext]_vars
    PROVE  ChargesAccounted'
<1>t. ProviderTypeOK /\ ProviderTypeOK'
  BY ProviderTypeStep DEF ProviderInv
<1> SUFFICES ASSUME NEW c \in Calls PROVE CallAccounted(c)'
  BY DEF ChargesAccounted, CallAccounted
<1>0. CallAccounted(c)
  BY DEF ProviderInv, ChargesAccounted, CallAccounted
<1>a. call[c].state \in Answers => call[c].attempt \in Attempts
  BY <1>t, RowTypes DEF ProviderInv, HandoffsAccounted, Attempts, Answers
<1>1. CASE UNCHANGED <<world, cost>>
  <2>1. CASE call'[c] = call[c]
    <3>1. receipt'[c] = receipt[c] \/ RecordProviderAccounting(c)
      <4>1. receipt \in [Calls -> {Unknown} \cup Nat]
        BY <1>t, ProviderTypes
      <4> QED BY <4>1, StepResolutions DEF ReceiptStep, RecordProviderAccounting
    <3>2. CASE receipt'[c] = receipt[c]
      BY <1>0, <1>1, <2>1, <3>2 DEF CallAccounted
    <3>3. CASE RecordProviderAccounting(c)
      <4>1. receipt'[c] = cost[c]
        BY <1>t, <3>3, ProviderTypes DEF RecordProviderAccounting
      <4> QED BY <1>0, <1>1, <2>1, <3>3, <4>1 DEF CallAccounted, RecordProviderAccounting
    <3> QED BY <3>1, <3>2, <3>3
  <2>2. CASE call'[c] # call[c]
    <3>1. receipt'[c] = Unknown
      BY <2>2, MovedRowReceipt
    <3>2. /\ call'[c].state # "none"
          /\ call'[c].state \in {"claimed", "handed_off"} => call'[c].charge \in {Unknown, Estimate}
          /\ call'[c].state = "unknown" => call'[c].charge = Unknown
          /\ call'[c].state \in Answers =>
                \/ call'[c].charge \in {Unknown, Estimate}
                \/ call'[c].charge = cost[c] /\ world[c][call'[c].attempt] \in Served
      BY <2>2, ChargeMoves DEF Answers
    <3> QED BY <1>0, <1>1, <3>1, <3>2 DEF CallAccounted
  <2> QED BY <2>1, <2>2
<1>2. ASSUME UNCHANGED <<call, receipt>>, cost'[c] = cost[c] PROVE CallAccounted(c)'
  <2>1. \A k \in Attempts : world[c][k] \in Served \cup {"dropped"} => world'[c][k] = world[c][k]
    BY WorldFacts
  <2> QED BY <1>0, <1>a, <1>2, <2>1 DEF CallAccounted
<1>3. ASSUME UNCHANGED <<call, receipt>>, NEW k \in Attempts, NEW model \in Models,
             NEW amount \in Costs, Land(c, k, model, amount)
      PROVE  CallAccounted(c)'
  <2>0. /\ world \in [Calls -> [Attempts -> {"unsent", "sent", "dropped"} \cup Served]]
        /\ cost \in [Calls -> Nat]
    BY <1>t, ProviderTypes
  <2>1. amount \in Nat /\ amount <= Estimate /\ model \in Served
    BY ProviderConstants DEF Served
  <2>2. world[c][k] = "sent" /\ world'[c][k] = model
    BY <1>3, <2>0 DEF Land
  <2>3. /\ call[c].attempt = k /\ cost[c] = 0
        /\ \A j \in Attempts : world[c][j] \notin Served
    BY <2>2, InFlight
  <2>4. cost'[c] <= Estimate
    BY <1>3, <2>0, <2>1, <2>3 DEF Land
  <2>5. receipt[c] = Unknown
    BY <1>0, <2>2, <2>3 DEF CallAccounted, Served
  <2>6. call[c].state \in Answers => call[c].charge \in {Unknown, Estimate}
    BY <1>0, <2>3 DEF CallAccounted
  <2> QED BY <1>0, <1>3, <2>1, <2>2, <2>4, <2>5, <2>6 DEF CallAccounted
<1>4. ASSUME UNCHANGED <<call, receipt>>, NEW d \in Calls, NEW k \in Attempts, NEW model \in Models,
             NEW amount \in Costs, Land(d, k, model, amount), d # c
      PROVE  cost'[c] = cost[c]
  BY <1>4, <1>t, ProviderTypes DEF Land
<1> QED BY <1>1, <1>2, <1>3, <1>4, StepWorld DEF WorldStep

\* The known charges cover the costs: what was not served has cost nothing.
LEMMA CoverCosts ==
    ProviderTypeOK /\ HandoffsAccounted /\ ChargesAccounted => ChargesCoverCosts
<1> SUFFICES ASSUME ProviderTypeOK, HandoffsAccounted, ChargesAccounted,
                    NEW c \in Calls, Charge(c) # Unknown
             PROVE  cost[c] <= Charge(c)
  BY DEF ChargesCoverCosts
<1>1. cost[c] \in Nat /\ Estimate \in Nat
  BY ProviderTypes, ProviderConstants
<1>2. CASE receipt[c] # Unknown
  BY <1>1, <1>2 DEF ChargesAccounted, Charge
<1>3. CASE receipt[c] = Unknown /\ call[c].state = "none"
  <2>1. call[c] = NoCall
    BY <1>3 DEF ChargesAccounted
  <2>2. \A k \in Attempts : world[c][k] = "unsent"
    BY <2>1 DEF HandoffsAccounted, NoCall, Attempts
  <2>3. cost[c] = 0
    BY <2>2 DEF ChargesAccounted, Served
  <2> QED BY <1>3, <2>1, <2>3 DEF Charge, NoCall
<1>4. CASE receipt[c] = Unknown /\ call[c].state # "none"
  <2>1. call[c].charge = Estimate \/ call[c].charge = cost[c]
    BY <1>4, RowTypes DEF ChargesAccounted, Charge
  <2> QED BY <1>1, <1>4, <2>1 DEF ChargesAccounted, Charge
<1> QED BY <1>2, <1>3, <1>4

\* What a call may come to.
LEMMA LiabilityTypes ==
    ASSUME ProviderTypeOK
    PROVE  \A c \in Calls : Charge(c) \in {Unknown} \cup Nat /\ Liability[c] \in Nat
<1> SUFFICES ASSUME NEW c \in Calls
             PROVE  Charge(c) \in {Unknown} \cup Nat /\ Liability[c] \in Nat
  OBVIOUS
<1>1. /\ receipt[c] \in {Unknown} \cup Nat /\ call[c].charge \in {Unknown} \cup Nat
      /\ Estimate \in Nat
  BY ProviderTypes, RowTypes, ProviderConstants
<1> QED BY <1>1 DEF Charge, Liability

\* Except for a call that is claimed, no call comes to more than before.
LEMMA LiabilityShrinks ==
    ASSUME ProviderInv, [ProviderNext]_vars, NEW c \in Calls, ~RowClaimed(c)
    PROVE  Liability'[c] <= Liability[c]
<1>t. ProviderTypeOK /\ ProviderTypeOK'
  BY ProviderTypeStep DEF ProviderInv
<1>0. /\ Liability[c] \in Nat /\ cost[c] \in Nat /\ cost[c] <= Estimate /\ Estimate \in Nat
      /\ Estimate # Unknown /\ cost[c] # Unknown
  BY <1>t, LiabilityTypes, ProviderTypes, ProviderConstants DEF ProviderInv, ChargesAccounted, Unknown
<1>e. /\ Liability[c] = IF Charge(c) = Unknown THEN Estimate ELSE Charge(c)
      /\ Liability'[c] = IF Charge(c)' = Unknown THEN Estimate ELSE Charge(c)'
  BY DEF Liability
<1>1. CASE call'[c] = call[c] /\ receipt'[c] = receipt[c]
  BY <1>0, <1>e, <1>1 DEF Charge
<1>2. CASE RecordProviderAccounting(c)
  <2>1. receipt[c] = Unknown /\ receipt'[c] = cost[c] /\ call[c].state \in Answers
    BY <1>t, <1>2, ProviderTypes DEF RecordProviderAccounting
  <2>2. call[c].charge \in {Unknown, Estimate, cost[c]}
    BY <2>1 DEF ProviderInv, ChargesAccounted
  <2> QED BY <1>0, <1>e, <2>1, <2>2 DEF Charge
<1>3. CASE call'[c] # call[c]
  <2>1. receipt[c] = Unknown /\ receipt'[c] = Unknown
    BY <1>3, MovedRowReceipt
  <2>2. /\ call[c].charge \in {Unknown, Estimate}
        /\ call'[c].charge \in {Unknown, Estimate, cost[c]}
    BY <1>3, ChargeMoves
  <2> QED BY <1>0, <1>e, <2>1, <2>2 DEF Charge
<1>4. call'[c] = call[c] /\ receipt'[c] # receipt[c] => RecordProviderAccounting(c)
  <2>1. receipt \in [Calls -> {Unknown} \cup Nat]
    BY <1>t, ProviderTypes
  <2> QED BY <2>1, StepResolutions DEF ReceiptStep, RecordProviderAccounting
<1> QED BY <1>1, <1>2, <1>3, <1>4

\* LiabilityWithinCap is kept: a claim adds its estimate to charges that are all known
\* and within the cap with it, and nothing else adds anything.
LEMMA LiabilityStep ==
    ASSUME ProviderInv, [ProviderNext]_vars
    PROVE  LiabilityWithinCap'
<1>t. ProviderTypeOK /\ ProviderTypeOK' /\ IsFiniteSet(Calls) /\ Estimate \in Nat /\ Cap \in Nat
      /\ SumFunction(Liability) <= Cap
  BY ProviderTypeStep, ProviderConstants DEF ProviderInv, LiabilityWithinCap
<1>1. \A c \in Calls : Liability[c] \in Nat /\ Liability'[c] \in Nat
  <2>1. \A c \in Calls : Liability[c] \in Nat
    BY <1>t, LiabilityTypes
  <2>2. \A c \in Calls : Charge(c)' \in {Unknown} \cup Nat
    <3> SUFFICES ASSUME NEW c \in Calls PROVE Charge(c)' \in {Unknown} \cup Nat
      OBVIOUS
    <3>1. receipt'[c] \in {Unknown} \cup Nat /\ call'[c].charge \in {Unknown} \cup Nat
      BY <1>t DEF ProviderTypeOK, Rows
    <3> QED BY <3>1 DEF Charge
  <2> QED BY <1>t, <2>1, <2>2 DEF Liability
<1>2. /\ SumFunction(Liability) = SumFunctionOnSet(Liability, Calls)
      /\ SumFunction(Liability)' = SumFunctionOnSet(Liability', Calls)
  <2>1. DOMAIN Liability = Calls /\ DOMAIN Liability' = Calls
    BY DEF Liability
  <2> QED BY <2>1 DEF SumFunction
<1>3. CASE \A c \in Calls : ~RowClaimed(c)
  <2>1. \A c \in Calls : Liability'[c] <= Liability[c]
    BY <1>3, LiabilityShrinks
  <2>2. SumFunctionOnSet(Liability', Calls) <= SumFunctionOnSet(Liability, Calls)
    BY <1>t, <1>1, <2>1, SumMonotonic
  <2>3. SumFunctionOnSet(Liability', Calls) \in Nat /\ SumFunctionOnSet(Liability, Calls) \in Nat
    BY <1>t, <1>1, SumRemove
  <2> QED BY <1>t, <1>2, <2>2, <2>3 DEF LiabilityWithinCap
<1>4. ASSUME NEW c \in Calls, RowClaimed(c) PROVE LiabilityWithinCap'
  <2>0. /\ call[c] = NoCall /\ Authorize /\ call'[c].charge = Estimate /\ receipt[c] = Unknown
        /\ call'[c] # call[c]
    BY <1>4 DEF RowClaimed, ProviderInv, ChargesAccounted, NoCall, Answers
  <2>1. (\A d \in Calls \ {c} : call'[d] = call[d]) /\ UNCHANGED receipt
    BY <1>4, <2>0, StepRows DEF RowMoves, RowClaimed, RowReauthorized, CanReauthorize,
       RowHandedOff, RowLost, RowAnswered
  <2>2. \A d \in Calls \ {c} : Liability'[d] = Liability[d]
    BY <2>1 DEF Liability, Charge
  <2>3. Liability[c] = 0 /\ Liability'[c] = Estimate
    BY <1>t, <2>0, <2>1 DEF Liability, Charge, NoCall, Unknown
  <2>4. SumFunctionOnSet(Liability', Calls) + 0 = SumFunctionOnSet(Liability, Calls) + Estimate
    BY <1>t, <1>1, <2>2, <2>3, SumUpdate
  <2>5. Charged = SumFunctionOnSet(Liability, Calls)
    <3>1. DOMAIN KnownCharges = Calls /\ \A d \in Calls : KnownCharges[d] = Liability[d]
      BY <2>0 DEF KnownCharges, Liability, Authorize
    <3>2. SumFunctionOnSet(Liability, Calls) = SumFunctionOnSet(KnownCharges, Calls)
      BY <1>t, <1>1, <3>1, SumSame
    <3> QED BY <3>1, <3>2 DEF Charged, SumFunction
  <2>6. SumFunctionOnSet(Liability', Calls) \in Nat /\ SumFunctionOnSet(Liability, Calls) \in Nat
    BY <1>t, <1>1, SumRemove
  <2> QED BY <1>t, <1>2, <2>0, <2>4, <2>5, <2>6 DEF LiabilityWithinCap, Authorize
<1> QED BY <1>3, <1>4

\* The invariant holds initially and is kept by every step.
LEMMA ProviderInitInv == ProviderInit => ProviderInv
<1> SUFFICES ASSUME ProviderInit PROVE ProviderInv
  OBVIOUS
<1>t. ProviderTypeOK
  <2>1. TypeOK
    BY AuthorityInit DEF ProviderInit, AuthorityInv
  <2> QED BY <2>1, ConstantTypes DEF ProviderInit, ProviderTypeOK
<1>1. HandoffsAccounted
  BY DEF ProviderInit, HandoffsAccounted, NoCall
<1>2. RowsPinned
  BY ConstantTypes DEF ProviderInit, RowsPinned
<1>3. HandlersSound
  <2>1. lease.epoch = 0
    BY DEF ProviderInit, Init
  <2>2. \A o \in Owners : invoke[o].lease = 0 /\ invoke[o].at = "idle"
    BY ConstantTypes DEF ProviderInit
  <2> SUFFICES ASSUME NEW o \in Owners
               PROVE  invoke[o].lease <= lease.epoch /\ invoke[o].at \notin {"invoke", "handler"}
    BY DEF HandlersSound
  <2> QED BY <2>1, <2>2
<1>4. ChargesAccounted
  BY ProviderConstants DEF ProviderInit, ChargesAccounted, NoCall, Answers
<1>5. LiabilityWithinCap
  <2>1. \A c \in Calls : Liability[c] = 0
    BY DEF ProviderInit, Liability, Charge, NoCall, Unknown
  <2>2. IsFiniteSet(Calls) /\ DOMAIN Liability = Calls /\ Cap \in Nat
    BY ProviderConstants DEF Liability
  <2> HIDE DEF Liability
  <2>3. SumFunctionOnSet(Liability, Calls) = 0
    BY <2>1, <2>2, SumZero
  <2> QED BY <2>2, <2>3 DEF LiabilityWithinCap, SumFunction
<1> QED BY <1>t, <1>1, <1>2, <1>3, <1>4, <1>5, CoverCosts DEF ProviderInv

LEMMA ProviderStep ==
    ProviderInv /\ AuthorityInv /\ [ProviderNext]_vars => ProviderInv' /\ AuthorityInv'
<1> SUFFICES ASSUME ProviderInv, AuthorityInv, [ProviderNext]_vars
             PROVE  ProviderInv' /\ AuthorityInv'
  OBVIOUS
<1>1. AuthorityInv'
  BY AuthorityStep, ProviderIsAuthority
<1>2. ProviderTypeOK' /\ HandoffsAccounted' /\ ChargesAccounted'
  BY ProviderTypeStep, HandoffsStep, ChargesStep
<1>3. ChargesCoverCosts'
  BY <1>2, CoverCosts, PTL
<1> QED BY <1>1, <1>2, <1>3, PinnedStep, HandlersStep, LiabilityStep DEF ProviderInv

-----------------------------------------------------------------------------
(* The theorems.                                                           *)

\* The invariant of the Provider ledger holds in every behaviour, for every finite set
\* of calls and every set of processes: the rows count their handoffs, a row read
\* earlier is still the row while its version is, charges are known or bounded, and what
\* the calls may come to stays within the cap.
THEOREM ProviderInvariant == ProviderSpec => []ProviderInv
<1>1. ProviderInit => ProviderInv /\ AuthorityInv
  BY ProviderInitInv, AuthorityInit DEF ProviderInit
<1> QED BY <1>1, ProviderStep, PTL DEF ProviderSpec

\* The authority under the ledger keeps its own invariant.
LEMMA AuthorityUnderLedger == ProviderSpec => []AuthorityInv
<1>1. ProviderInit => AuthorityInv
  BY AuthorityInit DEF ProviderInit
<1>2. AuthorityInv /\ [ProviderNext]_vars => AuthorityInv'
  BY AuthorityStep, ProviderIsAuthority
<1> QED BY <1>1, <1>2, PTL DEF ProviderSpec

\* What the calls cost is within what they may come to.
LEMMA InvImpliesHardCap == ProviderInv => HardCapHolds
<1> SUFFICES ASSUME ProviderInv PROVE HardCapHolds
  OBVIOUS
<1>1. /\ IsFiniteSet(Calls) /\ Cap \in Nat /\ Estimate \in Nat /\ cost \in [Calls -> Nat]
      /\ ProviderTypeOK
  BY ProviderConstants, ProviderTypes DEF ProviderInv
<1>2. \A c \in Calls : Liability[c] \in Nat /\ cost[c] \in Nat
  BY <1>1, LiabilityTypes
<1>3. \A c \in Calls : cost[c] <= Liability[c]
  <2> SUFFICES ASSUME NEW c \in Calls PROVE cost[c] <= Liability[c]
    OBVIOUS
  <2>1. cost[c] <= Estimate /\ (Charge(c) # Unknown => cost[c] <= Charge(c))
    BY DEF ProviderInv, ChargesAccounted, ChargesCoverCosts
  <2> QED BY <2>1 DEF Liability
<1>4. SumFunctionOnSet(cost, Calls) <= SumFunctionOnSet(Liability, Calls)
  BY <1>1, <1>2, <1>3, SumMonotonic
<1>5. SumFunctionOnSet(cost, Calls) \in Nat /\ SumFunctionOnSet(Liability, Calls) \in Nat
  BY <1>1, <1>2, SumRemove
<1>6. SumFunctionOnSet(Liability, Calls) <= Cap
  <2>1. DOMAIN Liability = Calls
    BY DEF Liability
  <2> QED BY <2>1 DEF ProviderInv, LiabilityWithinCap, SumFunction
<1>7. DOMAIN cost = Calls
  BY <1>1
<1> QED BY <1>1, <1>4, <1>5, <1>6, <1>7 DEF HardCapHolds, SumFunction

\* What the provider calls of a Run really cost never exceeds its hard cap, whatever is
\* lost, retried, answered late or accounted for afterwards.
THEOREM HardCap == ProviderSpec => []HardCapHolds
BY ProviderInvariant, InvImpliesHardCap, PTL

\* A lease that is live after a step, and was issued before it, was live before it.
LEMMA LiveBefore ==
    ASSUME AuthorityInv, [ProviderNext]_vars, NEW o, NEW e \in Nat, e <= lease.epoch,
           lease'.owner = o, lease'.epoch = e, lease'.ttl > 0
    PROVE  RequireRuntimeLease(o, e)
<1>1. lease.epoch \in Nat /\ lease'.epoch \in Nat
  BY LeaseGrows
<1>2. ~(lease'.epoch > lease.epoch)
  BY <1>1
<1> QED BY <1>2, RowSteps, ProviderIsAuthority DEF RequireRuntimeLease, Live

\* The row of a live handoff moves only when the process that made it leaves.
LEMMA LiveRowStays ==
    ASSUME ProviderInv, [ProviderNext]_vars, NEW o \in Owners,
           invoke[o].at \in {"invoke", "handler"}, invoke'[o].at # "idle",
           RequireRuntimeLease(o, invoke[o].lease), call[invoke[o].on] = invoke[o].snap
    PROVE  call'[invoke[o].on] = call[invoke[o].on]
<1> DEFINE c == invoke[o].on
<1>1. c \in Calls
  BY SectionTypes DEF ProviderInv
<1>2. /\ call[c].state = "handed_off"
      /\ authority[c][call[c].attempt] = [owner |-> o, epoch |-> invoke[o].lease]
  BY DEF ProviderInv, HandlersSound
<1>3. HandoffLive(c)
  BY <1>2 DEF HandoffLive
<1>4. ASSUME NEW p \in Owners, WorksOn(p, c), invoke'[p] = Idle PROVE FALSE
  <2>1. authority[c][call[c].attempt] = [owner |-> p, epoch |-> invoke[p].lease]
    BY <1>4 DEF WorksOn, ProviderInv, HandlersSound
  <2>2. p = o
    BY <1>2, <2>1
  <2> QED BY <1>4, <2>2, ConstantTypes
<1>5. ~RowReleased(c)
  BY <1>3, <1>4 DEF RowReleased
<1>6. RowMoves(c)
  BY <1>1, StepRows
<1> QED BY <1>2, <1>5, <1>6 DEF RowMoves, RowClaimed, RowReauthorized, CanReauthorize, RowHandedOff

\* The process that called the provider keeps its row while it keeps its lease.
LEMMA LiveCallStep ==
    ASSUME ProviderInv, AuthorityInv, LiveCallKeepsItsRow, [ProviderNext]_vars
    PROVE  LiveCallKeepsItsRow'
<1>t. ProviderTypeOK /\ ProviderTypeOK'
  BY ProviderTypeStep DEF ProviderInv
<1> SUFFICES ASSUME NEW o \in Owners, invoke'[o].at \in {"invoke", "handler"},
                    lease'.owner = o, lease'.epoch = invoke'[o].lease, lease'.ttl > 0
             PROVE  call'[invoke'[o].on] = invoke'[o].snap
  BY DEF LiveCallKeepsItsRow, RequireRuntimeLease, Live
<1>0. invoke \in [Owners -> Sections] /\ invoke[o] \in Sections /\ invoke[o].lease \in Nat
  BY <1>t, ProviderTypes, SectionTypes
<1>1. ASSUME invoke'[o].on = invoke[o].on, invoke'[o].snap = invoke[o].snap,
             invoke'[o].lease = invoke[o].lease, invoke[o].at \in {"invoke", "handler"}
      PROVE  call'[invoke'[o].on] = invoke'[o].snap
  <2>1. invoke[o].lease <= lease.epoch
    BY DEF ProviderInv, HandlersSound
  <2>2. RequireRuntimeLease(o, invoke[o].lease)
    <3> DEFINE e == invoke[o].lease
    <3>1. lease'.owner = o /\ lease'.epoch = e /\ lease'.ttl > 0
      BY <1>1
    <3> QED BY <1>0, <2>1, <3>1, LiveBefore
  <2>3. call[invoke[o].on] = invoke[o].snap
    BY <1>1, <2>2 DEF LiveCallKeepsItsRow
  <2> QED BY <1>1, <2>2, <2>3, LiveRowStays
<1>2. ASSUME NEW t \in Sections, SectionMoves(o, t), invoke' = [invoke EXCEPT ![o] = t]
      PROVE  call'[invoke'[o].on] = invoke'[o].snap
  <2>0. invoke'[o] = t
    BY <1>0, <1>2
  <2>1. CASE invoke[o].at = "invoke" /\ t = [invoke[o] EXCEPT !.at = "handler"]
    <3>1. t.on = invoke[o].on /\ t.snap = invoke[o].snap /\ t.lease = invoke[o].lease
      BY <1>0, <2>1 DEF Sections
    <3> QED BY <1>1, <2>0, <2>1, <3>1
  <2>2. CASE t = [invoke[o] EXCEPT !.at = "invoke", !.snap = call'[invoke[o].on]]
    BY <1>0, <2>0, <2>2 DEF Sections
  <2>3. t # Idle /\ t.at # "admission"
    BY <2>0, ConstantTypes
  <2> QED BY <1>2, <2>1, <2>2, <2>3 DEF SectionMoves
<1>3. CASE invoke'[o] = invoke[o]
  BY <1>1, <1>3
<1>4. invoke'[o] = invoke[o]
      \/ \E t \in Sections : SectionMoves(o, t) /\ invoke' = [invoke EXCEPT ![o] = t]
  BY <1>0, StepSections DEF SectionStep
<1> QED BY <1>2, <1>3, <1>4

\* In every behaviour, a process that waits for the provider under a live lease still
\* has the row it handed off: no recovery takes the answer of a live call away.
THEOREM LiveCall == ProviderSpec => []LiveCallKeepsItsRow
<1>1. ProviderInit => LiveCallKeepsItsRow
  <2> SUFFICES ASSUME ProviderInit PROVE LiveCallKeepsItsRow
    OBVIOUS
  <2>1. \A o \in Owners : invoke[o].at = "idle"
    BY ConstantTypes DEF ProviderInit
  <2> QED BY <2>1 DEF LiveCallKeepsItsRow
<1>2. ProviderInv /\ AuthorityInv /\ LiveCallKeepsItsRow /\ [ProviderNext]_vars
         => LiveCallKeepsItsRow'
  BY LiveCallStep
<1> QED BY <1>1, <1>2, ProviderInvariant, AuthorityUnderLedger, PTL DEF ProviderSpec

\* Every step of the ledger is a step of a one-shot call, or none, for every call.
LEMMA OneShotStep ==
    ASSUME ProviderInv, ProviderInv', [ProviderNext]_vars, NEW c \in Calls
    PROVE  OneShot(c)!Next \/ UNCHANGED <<Happened(c), Answer(c)>>
<1>t. ProviderTypeOK /\ world \in [Calls -> [Attempts -> {"unsent", "sent", "dropped"} \cup Served]]
  BY ProviderTypes DEF ProviderInv
<1>1. CASE UNCHANGED <<world, cost>>
  <2>1. Happened(c)' = Happened(c)
    BY <1>1 DEF Happened
  <2>2. CASE call[c].state \in Answers \/ call'[c].state \notin Answers
    <3>1. call[c].state \in Answers => call'[c] = call[c]
      BY MovedRowReceipt
    <3> QED BY <2>1, <2>2, <3>1 DEF Answer
  <2>3. CASE call[c].state \notin Answers /\ call'[c].state \in Answers
    <3>1. RowAnswered(c) \/ RowLost(c)
      <4>1. RowMoves(c) /\ call[c] \in Rows
        BY <1>t, StepRows, RowTypes
      <4> QED BY <2>3, <4>1 DEF RowMoves, RowClaimed, RowReauthorized, RowHandedOff, NoCall,
              Answers, Rows
    <3>2. /\ call'[c].state = "succeeded" => world[c][call[c].attempt] \in Served
          /\ call[c].state \in {"handed_off", "unknown"}
      BY <1>t, <2>3, <3>1, LostOrAnswered DEF Answers
    <3>3. call[c].attempt \in Attempts
      BY <1>t, <3>2, RowTypes DEF ProviderInv, HandoffsAccounted, Attempts
    <3>4. call'[c].state = "succeeded" => Happened(c) # {}
      BY <3>2, <3>3 DEF Happened
    <3>5. Answer(c) = "none" /\ Answer(c)' = call'[c].state
      BY <2>3 DEF Answer
    <3> QED BY <2>1, <2>3, <3>4, <3>5 DEF OneShot!Next, OneShot!Answer
  <2> QED BY <2>2, <2>3
<1>2. CASE UNCHANGED call /\ Happened(c)' = Happened(c)
  BY <1>2 DEF Answer
<1>3. ASSUME UNCHANGED call, NEW d \in Calls, NEW k \in Attempts, NEW v \in {"sent", "dropped"},
             world[d][k] \in {"unsent", "sent"}, world' = [world EXCEPT ![d][k] = v]
      PROVE  Happened(c)' = Happened(c)
  BY <1>t, <1>3 DEF Happened, Served
<1>4. ASSUME UNCHANGED call, NEW d \in Calls, NEW k \in Attempts, NEW model \in Models,
             NEW amount \in Costs, Land(d, k, model, amount)
      PROVE  OneShot(c)!Next \/ UNCHANGED <<Happened(c), Answer(c)>>
  <2>1. CASE d # c
    <3>1. Happened(c)' = Happened(c)
      BY <1>t, <1>4, <2>1 DEF Happened, Land
    <3> QED BY <1>2, <1>4, <3>1
  <2>2. CASE d = c
    <3>1. model \in Served
      BY ProviderConstants DEF Served
    <3>2. world[c][k] = "sent" /\ world' = [world EXCEPT ![c][k] = model]
      BY <1>4, <2>2 DEF Land
    <3>3. \A j \in Attempts : world[c][j] \notin Served
      BY <3>2, InFlight
    <3>4. Happened(c) = {}
      BY <3>3 DEF Happened
    <3>5. Happened(c)' = {k}
      BY <1>t, <3>1, <3>2, <3>3 DEF Happened
    <3>6. Answer(c)' = Answer(c)
      BY <1>4 DEF Answer
    <3> QED BY <3>4, <3>5, <3>6 DEF OneShot!Next, OneShot!Happen
  <2> QED BY <2>1, <2>2
<1>5. UNCHANGED call \/ UNCHANGED <<world, cost>>
  BY StepWorld DEF WorldStep
<1> QED BY <1>1, <1>2, <1>3, <1>4, <1>5, StepWorld DEF WorldStep

\* In every behaviour, each call takes the steps of a one-shot call only: the provider
\* serves it at most once, although it may be handed off twice, and it is answered for
\* good, never with success before it was served.
THEOREM CallsOneShot == ProviderSpec => CallsAreOneShot
<1> DEFINE A == \A c \in Calls : OneShot(c)!Next \/ UNCHANGED <<Happened(c), Answer(c)>>
<1>1. ProviderInv /\ ProviderInv' /\ [ProviderNext]_vars => [A]_vars
  BY OneShotStep
<1> QED BY <1>1, ProviderInvariant, PTL DEF ProviderSpec, CallsAreOneShot

=============================================================================
