---------------------- MODULE ContinuationQueueProofs ----------------------
(***************************************************************************)
(* The continuation inputs of a Run are served in their order, for any     *)
(* number of kernels, inputs and claims; and the kernels that serve them   *)
(* keep to the authority protocol.                                         *)
(***************************************************************************)
EXTENDS ContinuationQueue, RunAuthorityProofs, TLAPS

-----------------------------------------------------------------------------
(* The steps of a drive are steps of the authority protocol.               *)

\* Every step of the queue is a step of the authority protocol or leaves its
\* variables alone.
LEMMA QueueStepIsAuthorityStep == [QueueNext]_vars => [Next]_authorityVars
<1> SUFFICES ASSUME [QueueNext]_vars PROVE [Next]_authorityVars
  OBVIOUS
<1>1. CASE EnqueueContinuation
  BY <1>1 DEF EnqueueContinuation
<1>2. ASSUME NEW o \in Owners, DriveStep(o) PROVE [Next]_authorityVars
  <2>1. CASE \/ ClaimContinuation(o) \/ DriveWithoutInput(o) \/ ClaimAtEndedRun(o)
             \/ DriverAcks(o) \/ DriverReturns(o) \/ DriverRaises(o) \/ CommitConflict(o)
             \/ DriverGivesUp(o) \/ FailureConflict(o) \/ DriveCancelled(o)
    BY <2>1 DEF ClaimContinuation, DriveWithoutInput, ClaimAtEndedRun, DriverAcks, DriverReturns,
                DriverRaises, CommitConflict, DriverGivesUp, FailureConflict, DriveCancelled
  <2>2. CASE CommitProgress(o) \/ SuspendTurn(o)
    BY <2>2 DEF CommitProgress, SuspendTurn, Next, KernelStep
  <2>3. CASE \E s \in {"completed", "failed"} : CommitTerminal(o, s)
    <3>1. PICK s \in {"completed", "failed"} : CommitRootTerminal(o, s)
      BY <2>3 DEF CommitTerminal
    <3>2. s \in Terminal
      BY DEF Terminal
    <3> QED BY <3>1, <3>2 DEF Next, KernelStep
  <2>4. CASE AuthorizationWait(o)
    BY <2>4 DEF AuthorizationWait, Next
  <2>5. CASE DriveAbandons(o)
    BY <2>5 DEF DriveAbandons, Next, KernelStep
  <2>6. CASE TerminalizeCancelled(o)
    <3>1. CommitRootTerminal(o, "cancelled") /\ "cancelled" \in Terminal
      BY <2>6 DEF TerminalizeCancelled, Terminal
    <3> QED BY <3>1 DEF Next, KernelStep
  <2> QED BY <1>2, <2>1, <2>2, <2>3, <2>4, <2>5, <2>6 DEF DriveStep
<1>3. ASSUME NEW o \in Owners, KernelAuthorityStep(o) PROVE [Next]_authorityVars
  BY <1>3 DEF KernelAuthorityStep, Next, KernelStep
<1>4. ASSUME NEW o \in Owners, ProcessCrash(o) PROVE [Next]_authorityVars
  BY <1>4 DEF ProcessCrash, Next
<1>5. CASE OtherStep
  BY <1>5 DEF OtherStep, Next
<1>6. CASE UNCHANGED vars
  BY <1>6 DEF vars
<1> QED BY <1>1, <1>2, <1>3, <1>4, <1>5, <1>6 DEF QueueNext

\* The kernels that serve continuation inputs write the Run, the lease and the
\* fence only as the authority protocol allows, so what is proved of it holds
\* of them.
THEOREM QueueImplementsAuthority == QueueSpec => Spec
<1>1. QueueInit => Init
  BY DEF QueueInit
<1> QED BY <1>1, QueueStepIsAuthorityStep, PTL DEF QueueSpec, Spec

-----------------------------------------------------------------------------
(* What a step does to the rows.                                           *)

\* The rows keep their states.
KeepsStates == last' = last /\ \A i \in Seqs : input'[i].state = input[i].state

\* A new input.
AcceptsInput ==
    /\ last < MaxInputs /\ last' = last + 1
    /\ input'[last'].state = "pending"
    /\ \A i \in Seqs \ {last'} : input'[i].state = input[i].state

\* The head is claimed.
ClaimsInput ==
    /\ last' = last
    /\ \E i \in Seqs :
          /\ IsHead(i)
          /\ input'[i].state = "claimed"
          /\ \A j \in Seqs \ {i} : input'[j].state = input[j].state

\* A claimed input is answered.
AnswersInput ==
    /\ last' = last
    /\ \E i \in Seqs :
          /\ input[i].state = "claimed"
          /\ input'[i].state = "acked"
          /\ \A j \in Seqs \ {i} : input'[j].state = input[j].state

\* The Run ends: claimed inputs of A, at most one, are answered, the others that
\* are open quarantined.
EndsQueue(A) ==
    /\ last' = last
    /\ \A i \in A : input[i].state = "claimed" /\ input'[i].state = "acked"
    /\ \A i \in Seqs \ A : input'[i].state = IF input[i].state \in Open THEN "quarantined"
                                                                  ELSE input[i].state

\* What SettleAll writes.
LEMMA SettleAllStates ==
    ASSUME QueueTypeOK, NEW A \in SUBSET Seqs, SettleAll(A), last' = last,
           \A i \in A : input[i].state = "claimed"
    PROVE  EndsQueue(A)
BY DEF QueueTypeOK, SettleAll, EndsQueue

\* A commit that passes its checks finds the input of its drive claimed.
LEMMA CommitFindsClaim ==
    ASSUME QueueTypeOK, NEW o \in Owners, CanCommit(o), drive[o].on # 0
    PROVE  drive[o].on \in Seqs /\ input[drive[o].on].state = "claimed"
<1>1. drive[o].on \in 0..MaxInputs
  BY DEF QueueTypeOK
<1> QED BY <1>1, QueueConstants DEF CanCommit, RequireContinuationClaim, Seqs

\* A driver that acks its input finds it claimed.
LEMMA AckFindsClaim ==
    ASSUME QueueTypeOK, NEW o \in Owners, DriverAcks(o)
    PROVE  drive[o].on \in Seqs /\ input[drive[o].on].state = "claimed"
<1>1. drive[o].on \in 0..MaxInputs /\ drive[o].on # 0
  BY DEF QueueTypeOK, DriverAcks
<1> QED BY <1>1, QueueConstants DEF DriverAcks, RequireContinuationClaim, Seqs

\* A driver that returns leaves its input, or goes on to the commit with it, or
\* without it if it is acked.
GoesToCommit(o, k) ==
    /\ k \in {drive[o].on, 0}
    /\ k # drive[o].on => drive[o].on # 0 /\ input[drive[o].on].state = "acked"
    /\ drive' = [drive EXCEPT ![o].at = "commit", ![o].version = run.version, ![o].on = k]

LEMMA ReturnCases ==
    ASSUME QueueTypeOK, NEW o \in Owners, DriverReturns(o)
    PROVE  /\ input' = input /\ last' = last /\ UNCHANGED authorityVars
           /\ LeaveInput(o) \/ \E k \in 0..MaxInputs : GoesToCommit(o, k)
<1>1. CASE ~RequireRuntimeLease(o, drive[o].lease)
  BY <1>1 DEF DriverReturns
<1>2. CASE RequireRuntimeLease(o, drive[o].lease)
  <2> DEFINE k == IF drive[o].on # 0 /\ input[drive[o].on].state = "acked" THEN 0 ELSE drive[o].on
  <2>1. drive' = [drive EXCEPT ![o].at = "commit", ![o].version = run.version, ![o].on = k]
    BY <1>2 DEF DriverReturns
  <2>2. k \in 0..MaxInputs
    BY QueueConstants DEF QueueTypeOK
  <2>3. GoesToCommit(o, k)
    BY <2>1 DEF GoesToCommit, QueueTypeOK
  <2> QED BY <2>2, <2>3 DEF DriverReturns
<1> QED BY <1>1, <1>2

\* Every step is of one of these kinds.
LEMMA QueueStepKinds ==
    ASSUME QueueTypeOK, [QueueNext]_vars
    PROVE  \/ KeepsStates \/ AcceptsInput \/ ClaimsInput \/ AnswersInput
           \/ EndsQueue({}) \/ \E i \in Seqs : EndsQueue({i})
<1> DEFINE Kind == \/ KeepsStates \/ AcceptsInput \/ ClaimsInput \/ AnswersInput
                   \/ EndsQueue({}) \/ \E i \in Seqs : EndsQueue({i})
<1>1. CASE EnqueueContinuation
  <2>1. last \in Nat /\ last < MaxInputs /\ last' = last + 1
    BY <1>1 DEF EnqueueContinuation, QueueTypeOK
  <2>2. last' \in Seqs
    BY <2>1, QueueConstants DEF Seqs
  <2>3. AcceptsInput
    BY <1>1, <2>1, <2>2 DEF EnqueueContinuation, AcceptsInput, QueueTypeOK
  <2> QED BY <2>3
<1>2. ASSUME NEW o \in Owners, DriveStep(o) PROVE Kind
  <2>1. CASE ClaimContinuation(o)
    <3>1. PICK i \in Seqs :
              /\ IsHead(i)
              /\ input' = [input EXCEPT ![i] =
                    [state |-> "claimed", by |-> o, lease |-> heldLease[o],
                     claim |-> @.claim + 1, orphan |-> FALSE]]
      BY <2>1 DEF ClaimContinuation
    <3>2. input'[i].state = "claimed" /\ \A j \in Seqs \ {i} : input'[j].state = input[j].state
      BY <3>1 DEF QueueTypeOK
    <3> QED BY <2>1, <3>1, <3>2 DEF ClaimContinuation, ClaimsInput
  <2>2. CASE \/ DriveWithoutInput(o) \/ DriverReturns(o) \/ DriverRaises(o) \/ SuspendTurn(o)
             \/ AuthorizationWait(o) \/ CommitConflict(o) \/ DriverGivesUp(o)
             \/ DriveAbandons(o) \/ DriveCancelled(o)
    BY <2>2 DEF DriveWithoutInput, DriverReturns, DriverRaises, SuspendTurn, AuthorizationWait,
                CommitConflict, DriverGivesUp, DriveAbandons, DriveCancelled, KeepsStates
  <2>3. CASE ClaimAtEndedRun(o) \/ TerminalizeCancelled(o)
    <3>1. SettleAll({}) /\ last' = last
      BY <2>3 DEF ClaimAtEndedRun, TerminalizeCancelled
    <3> QED BY <3>1, SettleAllStates
  <2>4. CASE CommitProgress(o)
    <3>1. CASE drive[o].on = 0
      BY <2>4, <3>1 DEF CommitProgress, KeepsStates
    <3>2. CASE drive[o].on # 0
      <4>1. drive[o].on \in Seqs /\ input[drive[o].on].state = "claimed"
        BY <2>4, <3>2, CommitFindsClaim DEF CommitProgress
      <4>2. input' = [input EXCEPT ![drive[o].on].state = "acked"] /\ last' = last
        BY <2>4, <3>2 DEF CommitProgress
      <4> QED BY <4>1, <4>2 DEF AnswersInput, QueueTypeOK
    <3> QED BY <3>1, <3>2
  <2>5. CASE \E s \in {"completed", "failed"} : CommitTerminal(o, s)
    <3>1. CanCommit(o) /\ SettleAll({drive[o].on} \ {0}) /\ last' = last
      BY <2>5 DEF CommitTerminal
    <3>2. CASE drive[o].on = 0
      BY <3>1, <3>2, SettleAllStates
    <3>3. CASE drive[o].on # 0
      <4>1. drive[o].on \in Seqs /\ input[drive[o].on].state = "claimed"
        BY <3>1, <3>3, CommitFindsClaim
      <4>2. {drive[o].on} \ {0} = {drive[o].on}
        BY <3>3
      <4>3. EndsQueue({drive[o].on})
        BY <3>1, <4>1, <4>2, SettleAllStates
      <4> QED BY <4>1, <4>3
    <3> QED BY <3>2, <3>3
  <2>6. CASE FailureConflict(o)
    BY <2>6 DEF FailureConflict, KeepsStates, QueueTypeOK
  <2>7. CASE DriverAcks(o)
    <3>1. input' = [input EXCEPT ![drive[o].on].state = "acked"] /\ last' = last
      BY <2>7 DEF DriverAcks
    <3> QED BY <2>7, <3>1, AckFindsClaim DEF AnswersInput, QueueTypeOK
  <2> QED BY <1>2, <2>1, <2>2, <2>3, <2>4, <2>5, <2>6, <2>7 DEF DriveStep
<1>3. ASSUME NEW o \in Owners, ProcessCrash(o) PROVE Kind
  BY <1>3 DEF ProcessCrash, KeepsStates, QueueTypeOK
<1>4. CASE OtherStep \/ \E o \in Owners : KernelAuthorityStep(o)
  BY <1>4 DEF OtherStep, KernelAuthorityStep, queueVars, KeepsStates
<1>5. CASE UNCHANGED vars
  BY <1>5 DEF vars, queueVars, KeepsStates
<1> QED BY <1>1, <1>2, <1>3, <1>4, <1>5 DEF QueueNext

-----------------------------------------------------------------------------
(* The inductive invariant.                                                *)

\* The rows and the drives keep their types.
LEMMA QueueTypeStep ==
    ASSUME TypeOK, QueueTypeOK, [QueueNext]_vars
    PROVE  QueueTypeOK'
<1> DEFINE Row  == [state : {"none"} \cup Open \cup Settled, by : Owners \cup {NoOwner},
                    lease : Nat, claim : Nat, orphan : BOOLEAN]
           Task == [at : {"idle", "driver", "commit", "failing", "abandon"},
                    on : 0..MaxInputs, claim : Nat, lease : Nat, version : Nat]
<1>0. last \in 0..MaxInputs /\ input \in [Seqs -> Row] /\ drive \in [Owners -> Task]
  BY DEF QueueTypeOK
<1>a. NoDrive \in Task
  BY QueueConstants DEF NoDrive
<1>b. \A r \in Row, s \in {"none"} \cup Open \cup Settled : [r EXCEPT !.state = s] \in Row
  OBVIOUS
<1>c. \A r \in Row : [r EXCEPT !.orphan = TRUE] \in Row
  OBVIOUS
<1>d. \A t \in Task, s \in {"idle", "driver", "commit", "abandon"} : [t EXCEPT !.at = s] \in Task
  OBVIOUS
<1>i. \A o \in Owners : DriveWithNone(o) \in Task
  <2>1. \A o \in Owners : heldLease[o] \in Nat
    BY DEF TypeOK
  <2> QED BY <2>1, QueueConstants DEF DriveWithNone
<1>e. {"pending", "acked", "quarantined"} \subseteq {"none"} \cup Open \cup Settled
  BY DEF Open, Settled
<1>f. ASSUME NEW A, SettleAll(A) PROVE input' \in [Seqs -> Row]
  BY <1>0, <1>b, <1>e, <1>f DEF SettleAll
<1>g. ASSUME NEW o \in Owners, EndDrive(o) PROVE drive' \in [Owners -> Task]
  BY <1>0, <1>a, <1>g DEF EndDrive
<1>h. ASSUME NEW o \in Owners, drive' = [drive EXCEPT ![o].at = "abandon"]
      PROVE  drive' \in [Owners -> Task]
  BY <1>0, <1>d, <1>h
<1> HIDE DEF Row, Task
<1> SUFFICES last' \in 0..MaxInputs /\ input' \in [Seqs -> Row] /\ drive' \in [Owners -> Task]
  BY DEF QueueTypeOK, Row, Task
<1>1. CASE EnqueueContinuation
  <2>1. last' \in 0..MaxInputs /\ drive' = drive
    BY <1>0, <1>1, QueueConstants DEF EnqueueContinuation
  <2>2. input' \in [Seqs -> Row]
    BY <1>0, <1>1, <1>b, <1>e DEF EnqueueContinuation
  <2> QED BY <1>0, <2>1, <2>2
<1>2. ASSUME NEW o \in Owners, DriveStep(o)
      PROVE  last' \in 0..MaxInputs /\ input' \in [Seqs -> Row] /\ drive' \in [Owners -> Task]
  <2>0. last' = last
    BY <1>2 DEF DriveStep, ClaimContinuation, DriveWithoutInput, ClaimAtEndedRun,
                DriverAcks, DriverReturns, DriverRaises, CommitProgress, CommitTerminal,
                SuspendTurn, AuthorizationWait, CommitConflict, DriverGivesUp, FailureConflict,
                DriveAbandons, DriveCancelled, TerminalizeCancelled
  <2>1. CASE ClaimContinuation(o)
    <3>1. PICK i \in Seqs :
              /\ input' = [input EXCEPT ![i] =
                    [state |-> "claimed", by |-> o, lease |-> heldLease[o],
                     claim |-> @.claim + 1, orphan |-> FALSE]]
              /\ drive' = [drive EXCEPT ![o] =
                    [at |-> "driver", on |-> i, claim |-> input'[i].claim,
                     lease |-> heldLease[o], version |-> 0]]
      BY <2>1 DEF ClaimContinuation
    <3>2. input[i].claim \in Nat /\ heldLease[o] \in Nat
      BY <1>0 DEF Row, TypeOK
    <3>3. [state |-> "claimed", by |-> o, lease |-> heldLease[o],
           claim |-> input[i].claim + 1, orphan |-> FALSE] \in Row
      BY <3>2 DEF Row, Open
    <3>4. input' \in [Seqs -> Row]
      BY <1>0, <3>1, <3>3
    <3>5. [at |-> "driver", on |-> i, claim |-> input'[i].claim,
           lease |-> heldLease[o], version |-> 0] \in Task
      BY <3>2, <3>4, QueueConstants DEF Task, Row, Seqs
    <3> QED BY <1>0, <2>0, <3>1, <3>4, <3>5
  <2>2. CASE DriveWithoutInput(o) \/ DriverReturns(o) \/ DriverRaises(o) \/ DriverGivesUp(o)
    <3>1. input' = input
      BY <2>2 DEF DriveWithoutInput, DriverReturns, DriverRaises, DriverGivesUp
    <3>2. CASE DriveWithoutInput(o)
      BY <1>0, <1>i, <2>0, <3>1, <3>2 DEF DriveWithoutInput
    <3>v. run.version \in Nat
      BY DEF TypeOK
    <3>3. CASE DriverReturns(o)
      <4>1. CASE LeaveInput(o)
        BY <1>0, <1>g, <1>h, <2>0, <3>1, <4>1 DEF LeaveInput
      <4>2. CASE \E k \in 0..MaxInputs : GoesToCommit(o, k)
        <5>1. PICK k \in 0..MaxInputs : GoesToCommit(o, k)
          BY <4>2
        <5>2. drive' \in [Owners -> Task]
          BY <1>0, <3>v, <5>1 DEF GoesToCommit, Task
        <5> QED BY <1>0, <2>0, <3>1, <5>2
      <4> QED BY <3>3, <4>1, <4>2, ReturnCases
    <3>5. CASE DriverRaises(o)
      <4>1. drive' = [drive EXCEPT ![o].at = "failing", ![o].version = run.version]
        BY <3>5 DEF DriverRaises
      <4>2. drive' \in [Owners -> Task]
        BY <1>0, <3>v, <4>1 DEF Task
      <4> QED BY <1>0, <2>0, <3>1, <4>2
    <3>4. CASE DriverGivesUp(o)
      BY <1>0, <1>h, <2>0, <3>1, <3>4 DEF DriverGivesUp
    <3> QED BY <2>2, <3>2, <3>3, <3>4, <3>5
  <2>3. CASE ClaimAtEndedRun(o)
    <3>2. drive' \in [Owners -> Task]
      BY <1>0, <1>i, <2>3 DEF ClaimAtEndedRun
    <3> QED BY <1>0, <1>f, <2>0, <2>3, <3>2 DEF ClaimAtEndedRun
  <2>4. CASE CommitProgress(o)
    <3>1. input' \in [Seqs -> Row]
      BY <1>0, <1>b, <1>e, <2>4 DEF CommitProgress
    <3> QED BY <1>0, <1>g, <2>0, <2>4, <3>1 DEF CommitProgress
  <2>5. CASE \E s \in {"completed", "failed"} : CommitTerminal(o, s)
    BY <1>0, <1>f, <1>g, <2>0, <2>5 DEF CommitTerminal
  <2>6. CASE SuspendTurn(o) \/ AuthorizationWait(o) \/ CommitConflict(o)
             \/ DriveAbandons(o) \/ DriveCancelled(o)
    <3>1. input' = input
      BY <2>6 DEF SuspendTurn, AuthorizationWait, CommitConflict, DriveAbandons, DriveCancelled
    <3>2. drive' = [drive EXCEPT ![o].at = "abandon"] \/ EndDrive(o)
      BY <2>6 DEF SuspendTurn, AuthorizationWait, CommitConflict, DriveAbandons, DriveCancelled,
                  LeaveInput
    <3> QED BY <1>0, <1>g, <1>h, <2>0, <3>1, <3>2
  <2>7. CASE FailureConflict(o)
    <3>1. input' \in [Seqs -> Row]
      BY <1>0, <1>c, <2>7 DEF FailureConflict
    <3> QED BY <1>0, <1>g, <2>0, <2>7, <3>1 DEF FailureConflict
  <2>8. CASE TerminalizeCancelled(o)
    BY <1>0, <1>f, <2>0, <2>8 DEF TerminalizeCancelled
  <2>9. CASE DriverAcks(o)
    <3>1. input' \in [Seqs -> Row]
      BY <1>0, <1>b, <1>e, <2>9 DEF DriverAcks
    <3> QED BY <1>0, <2>0, <2>9, <3>1 DEF DriverAcks
  <2> QED BY <1>2, <2>1, <2>2, <2>3, <2>4, <2>5, <2>6, <2>7, <2>8, <2>9 DEF DriveStep
<1>3. ASSUME NEW o \in Owners, ProcessCrash(o)
      PROVE  last' \in 0..MaxInputs /\ input' \in [Seqs -> Row] /\ drive' \in [Owners -> Task]
  <2>1. input' \in [Seqs -> Row]
    BY <1>0, <1>c, <1>3 DEF ProcessCrash
  <2>2. drive' \in [Owners -> Task]
    BY <1>0, <1>a, <1>3 DEF ProcessCrash
  <2> QED BY <1>0, <1>3, <2>1, <2>2 DEF ProcessCrash
<1>4. CASE OtherStep \/ \E o \in Owners : KernelAuthorityStep(o)
  BY <1>0, <1>4 DEF OtherStep, KernelAuthorityStep, queueVars
<1>5. CASE UNCHANGED vars
  BY <1>0, <1>5 DEF vars, queueVars
<1> QED BY <1>1, <1>2, <1>3, <1>4, <1>5 DEF QueueNext

\* The rows in use stay those up to last.
LEMMA NumberedStep ==
    ASSUME QueueTypeOK, Numbered, [QueueNext]_vars
    PROVE  Numbered'
<1>0. last \in Nat /\ Seqs \subseteq Nat
  BY DEF QueueTypeOK, Seqs
<1>1. CASE KeepsStates
  BY <1>1 DEF KeepsStates, Numbered
<1>2. CASE AcceptsInput
  BY <1>0, <1>2 DEF AcceptsInput, Numbered
<1>3. CASE ClaimsInput
  BY <1>3 DEF ClaimsInput, Numbered, IsHead, Open
<1>4. CASE AnswersInput
  BY <1>4 DEF AnswersInput, Numbered
<1>5. CASE EndsQueue({}) \/ \E i \in Seqs : EndsQueue({i})
  BY <1>5 DEF EndsQueue, Numbered, Open
<1> QED BY <1>1, <1>2, <1>3, <1>4, <1>5, QueueStepKinds

\* The queue stays served from the front: a claim goes to the head, before which
\* every row is in use and not open, and an answer to a claimed input.
LEMMA ServedFromFrontStep ==
    ASSUME QueueTypeOK, Numbered, ServedFromFront, [QueueNext]_vars
    PROVE  ServedFromFront'
<1>0. last \in Nat /\ Seqs \subseteq Nat
  BY DEF QueueTypeOK, Seqs
<1>a. \A i \in Seqs : input[i].state \in {"none"} \cup Open \cup Settled
  BY DEF QueueTypeOK
<1> SUFFICES ASSUME NEW i \in Seqs, NEW j \in Seqs, i < j,
                    input'[j].state \in {"claimed", "acked"}
             PROVE  input'[i].state \in Settled
  BY DEF ServedFromFront
<1>1. CASE KeepsStates
  BY <1>1 DEF KeepsStates, ServedFromFront
<1>2. CASE AcceptsInput
  <2>1. j # last'
    BY <1>2 DEF AcceptsInput
  <2>2. input[i].state \in Settled
    BY <1>2, <2>1 DEF AcceptsInput, ServedFromFront
  <2>3. i # last'
    BY <1>0, <1>2, <2>2 DEF AcceptsInput, Numbered, Settled
  <2> QED BY <1>2, <2>2, <2>3 DEF AcceptsInput
<1>3. CASE ClaimsInput
  <2>1. PICK h \in Seqs : /\ IsHead(h) /\ input'[h].state = "claimed"
                          /\ \A k \in Seqs \ {h} : input'[k].state = input[k].state
    BY <1>3 DEF ClaimsInput
  <2>2. CASE j = h
    <3>1. input[i].state \notin Open /\ input[h].state # "none"
      BY <2>1, <2>2 DEF IsHead, Open
    <3>2. input[i].state # "none"
      BY <1>0, <2>2, <3>1 DEF Numbered
    <3>3. i # h
      BY <1>0, <2>2
    <3> QED BY <1>a, <2>1, <3>1, <3>2, <3>3
  <2>3. CASE j # h
    <3>1. input[i].state \in Settled
      BY <2>1, <2>3 DEF ServedFromFront
    <3>2. i # h
      BY <2>1, <3>1 DEF IsHead, Open, Settled
    <3> QED BY <2>1, <3>1, <3>2
  <2> QED BY <2>2, <2>3
<1>4. CASE AnswersInput
  <2>1. input[i].state \in Settled
    BY <1>4 DEF AnswersInput, ServedFromFront
  <2> QED BY <1>4, <2>1 DEF AnswersInput, Settled
<1>5. CASE EndsQueue({}) \/ \E k \in Seqs : EndsQueue({k})
  <2>1. input[j].state \in {"claimed", "acked"}
    BY <1>5 DEF EndsQueue, Open
  <2>2. input[i].state \in Settled
    BY <2>1 DEF ServedFromFront
  <2> QED BY <1>5, <2>2 DEF EndsQueue, Open, Settled
<1> QED BY <1>1, <1>2, <1>3, <1>4, <1>5, QueueStepKinds

\* The queue begins empty.
LEMMA QueueInitInv == QueueInit => QueueInv
<1> SUFFICES ASSUME QueueInit PROVE QueueInv
  OBVIOUS
<1>1. TypeOK
  BY AuthorityInit DEF QueueInit, AuthorityInv
<1>2. QueueTypeOK
  BY QueueConstants DEF QueueInit, QueueTypeOK, NoInput, NoDrive
<1>3. Numbered /\ ServedFromFront
  BY DEF QueueInit, Numbered, ServedFromFront, NoInput, Seqs
<1> QED BY <1>1, <1>2, <1>3 DEF QueueInv

\* The invariant is inductive.
LEMMA QueueInvStep == QueueInv /\ [QueueNext]_vars => QueueInv'
<1> SUFFICES ASSUME QueueInv, [QueueNext]_vars PROVE QueueInv'
  OBVIOUS
<1>1. TypeOK'
  BY QueueStepIsAuthorityStep, TypeStep DEF QueueInv
<1>2. QueueTypeOK' /\ Numbered' /\ ServedFromFront'
  BY QueueTypeStep, NumberedStep, ServedFromFrontStep DEF QueueInv
<1> QED BY <1>1, <1>2 DEF QueueInv

\* Whatever is claimed or answered has only settled inputs before it, however
\* many kernels claim, lose and retake the Run and die while they serve it.
THEOREM InputsServedFromFront == QueueSpec => []ServedFromFront
<1>1. QueueInv => ServedFromFront
  BY DEF QueueInv
<1> QED BY <1>1, QueueInitInv, QueueInvStep, PTL DEF QueueSpec

-----------------------------------------------------------------------------
(* The refinement.                                                         *)

\* claim_continuation and the acks of the commits implement a FIFO queue: inputs
\* are answered one at a time in the order of fifo_seq, each at most once, and
\* dropped only all together, with the Run.
THEOREM ContinuationsAreFifo == QueueSpec => ImplementsFifo
<1> DEFINE open     == {i \in Seqs : input[i].state \in Open}
           answered == {i \in Seqs : input[i].state = "acked"}
<1>1. QueueInit => Fifo!Init
  BY DEF QueueInit, Fifo!Init, NoInput, Open
<1>2. QueueInv /\ [QueueNext]_vars => [Fifo!Next]_<<last, open, answered>>
  <2> SUFFICES ASSUME QueueInv, [QueueNext]_vars
               PROVE  Fifo!Next \/ (last' = last /\ open' = open /\ answered' = answered)
    OBVIOUS
  <2>0. QueueTypeOK /\ Numbered /\ ServedFromFront /\ last \in Nat /\ Seqs \subseteq Nat
    BY DEF QueueInv, QueueTypeOK, Seqs
  <2>a. \A i \in Seqs : input[i].state = "claimed" =>
            i \in open /\ \A j \in open : i <= j
    BY <2>0 DEF ServedFromFront, Open, Settled
  <2>1. CASE KeepsStates
    BY <2>1 DEF KeepsStates
  <2>2. CASE AcceptsInput
    <3>1. last' \in Seqs
      BY <2>0, <2>2, QueueConstants DEF AcceptsInput, Seqs
    <3>2. input[last'].state = "none"
      BY <2>0, <2>2, <3>1 DEF AcceptsInput, Numbered
    <3>3. open' = open \cup {last'} /\ answered' = answered
      BY <2>2, <3>1, <3>2 DEF AcceptsInput, Open
    <3> QED BY <2>2, <3>3 DEF AcceptsInput, Fifo!Next, Fifo!Accept
  <2>3. CASE ClaimsInput
    BY <2>3 DEF ClaimsInput, IsHead, Open
  <2>4. CASE AnswersInput
    <3>1. PICK i \in Seqs : /\ input[i].state = "claimed" /\ input'[i].state = "acked"
                            /\ \A j \in Seqs \ {i} : input'[j].state = input[j].state
      BY <2>4 DEF AnswersInput
    <3>2. open' = open \ {i} /\ answered' = answered \cup {i}
      BY <3>1 DEF Open
    <3> QED BY <2>a, <2>4, <3>1, <3>2 DEF AnswersInput, Fifo!Next, Fifo!Answer
  <2>5. CASE EndsQueue({})
    <3>1. open' = {} /\ answered' = answered
      BY <2>5 DEF EndsQueue, Open
    <3> QED BY <2>5, <3>1 DEF EndsQueue, Fifo!Next, Fifo!Drop
  <2>6. CASE \E i \in Seqs : EndsQueue({i})
    <3>1. PICK i \in Seqs : EndsQueue({i})
      BY <2>6
    <3>2. open' = {} /\ answered' = answered \cup {i}
      BY <3>1 DEF EndsQueue, Open
    <3> QED BY <2>a, <3>1, <3>2 DEF EndsQueue, Fifo!Next, Fifo!Answer
  <2> QED BY <2>0, <2>1, <2>2, <2>3, <2>4, <2>5, <2>6, QueueStepKinds
<1> QED BY <1>1, <1>2, QueueInitInv, QueueInvStep, PTL
        DEF QueueSpec, ImplementsFifo, Fifo!Spec

-----------------------------------------------------------------------------
(* Claims are worked on.                                                   *)

\* A claim that is live, and whose drive is not gone, has its drive at work or its
\* authority about to be given up; and its kernel knows the lease and has not lost
\* it.
Worked(i) ==
    ClaimIsLive(i) /\ ~input[i].orphan =>
        LET o == lease.owner
        IN  /\ \/ drive[o].on = i /\ drive[o].claim = input[i].claim
               \/ pc[o] = "release"
            /\ heldLease[o] = lease.epoch /\ ~IsRetiring(o)

\* Claims are made by kernels, under leases that were issued.
RowsUnderLease ==
    \A i \in Seqs : /\ input[i].lease <= lease.epoch
                    /\ input[i].state = "claimed" => input[i].by \in Owners

\* A kernel that drives nothing works on no input.
IdleDrives == \A o \in Owners : drive[o].at = "idle" => drive[o].on = 0

\* A call that has claimed the lease knows its epoch while the lease is its own.
ClaimersKnow ==
    \A o \in Owners :
        pc[o] \in {"acquire", "acquireWake"} /\ lease.owner = o => claimed[o] = lease.epoch

\* The inductive invariant of the claims.
ClaimsInv ==
    /\ AuthorityInv /\ QueueInv
    /\ RowsUnderLease /\ IdleDrives /\ ClaimersKnow
    /\ \A i \in Seqs : Worked(i)

\* It is what the two properties say together.
LEMMA ClaimsInvMeaning ==
    ClaimsInv <=> AuthorityInv /\ QueueInv /\ ClaimsUnderLease /\ ClaimIsWorked
BY DEF ClaimsInv, RowsUnderLease, IdleDrives, ClaimersKnow, Worked, ClaimsUnderLease, ClaimIsWorked

\* A step either keeps the lease's epoch and cannot revive it, or issues a later one.
LEMMA LeaseMoves ==
    ASSUME AuthorityInv, [QueueNext]_vars
    PROVE  \/ lease'.owner = lease.owner /\ lease'.epoch = lease.epoch /\ (Live' => Live)
           \/ lease'.epoch > lease.epoch
BY QueueStepIsAuthorityStep, RowSteps DEF Live

\* A row that a step does not claim anew.
RowNotClaimed(i) ==
    /\ input'[i].lease = input[i].lease
    /\ (input'[i].state = "claimed" /\ ~input'[i].orphan) =>
          /\ input[i].state = "claimed" /\ ~input[i].orphan
          /\ input'[i].by = input[i].by /\ input'[i].claim = input[i].claim

\* A later lease makes every claim a claim of the past.
LEMMA NewLeaseNoClaims ==
    ASSUME TypeOK, QueueTypeOK, RowsUnderLease, lease'.epoch > lease.epoch, TypeOK',
           NEW i \in Seqs, RowNotClaimed(i)
    PROVE  Worked(i)'
<1>1. input[i].lease \in Nat /\ lease.epoch \in Nat /\ lease'.epoch \in Nat
  BY DEF TypeOK, QueueTypeOK
<1>2. input'[i].lease < lease'.epoch
  BY <1>1 DEF RowsUnderLease, RowNotClaimed
<1> QED BY <1>1, <1>2 DEF Worked, ClaimIsLive

\* While the lease stays, a claim stays worked on if the holder's drive and
\* dictionaries stay, or it is about to give up.
HolderKeeps(o) ==
    /\ heldLease'[o] = heldLease[o] \/ heldLease'[o] = lease.epoch
    /\ retiring'[o] = retiring[o]
    /\ pc[o] = "release" => pc'[o] = "release"
    /\ \/ pc'[o] = "release"
       \/ drive[o].on = 0
       \/ drive'[o].on = drive[o].on /\ drive'[o].claim = drive[o].claim

\* The lease is kept and not revived.
LeaseKept == lease'.owner = lease.owner /\ lease'.epoch = lease.epoch /\ (Live' => Live)

LEMMA KeptWorked ==
    ASSUME LeaseKept, NEW i \in Seqs, Worked(i), RowNotClaimed(i),
           HolderKeeps(lease.owner)
    PROVE  Worked(i)'
<1>1. 0 \notin Seqs
  BY DEF Seqs
<1> QED BY <1>1 DEF Worked, ClaimIsLive, LeaseKept, RowNotClaimed, HolderKeeps, IsRetiring

\* There is nothing to show of a claim whose owner cannot have one.
LEMMA IdleWorked ==
    ASSUME LeaseKept, NEW i \in Seqs, Worked(i), RowNotClaimed(i),
           \/ ~Live'
           \/ heldLease[lease.owner] # lease.epoch
           \/ IsRetiring(lease.owner)
           \/ pc[lease.owner] # "release" /\ drive[lease.owner].on # i
           \/ input'[i].state # "claimed"
           \/ input'[i].orphan
    PROVE  Worked(i)'
BY DEF Worked, ClaimIsLive, LeaseKept, RowNotClaimed

\* The rows that settling leaves claimed: none.
LEMMA SettledWorked ==
    ASSUME QueueTypeOK, NEW A, SettleAll(A), NEW i \in Seqs
    PROVE  Worked(i)' /\ input'[i].lease = input[i].lease /\ input'[i].by = input[i].by
           /\ input'[i].state # "claimed"
<1>1. input'[i].state # "claimed" /\ input'[i].lease = input[i].lease /\ input'[i].by = input[i].by
  BY DEF SettleAll, Open, QueueTypeOK
<1> QED BY <1>1 DEF Worked, ClaimIsLive

\* What a step of kernel o does to what the other kernels remember.
OthersKept(o) ==
    \A p \in Owners \ {o} :
        /\ heldLease'[p] = heldLease[p] /\ retiring'[p] = retiring[p]
        /\ pc'[p] = pc[p] /\ claimed'[p] = claimed[p] /\ drive'[p] = drive[p]

\* A claim of another kernel is none of o's business.
LEMMA OthersWorked ==
    ASSUME LeaseKept, NEW o \in Owners, OthersKept(o), lease.owner \in Owners \ {o},
           NEW i \in Seqs, Worked(i), RowNotClaimed(i)
    PROVE  Worked(i)'
<1>1. HolderKeeps(lease.owner)
  BY DEF OthersKept, HolderKeeps
<1> QED BY <1>1, KeptWorked

\* A row that is only kept is not claimed anew.
LEMMA SameRow == \A i \in Seqs : input'[i] = input[i] => RowNotClaimed(i)
BY DEF RowNotClaimed

\* The owner of a live claim is a kernel.
LEMMA ClaimOwner ==
    ASSUME RowsUnderLease, NEW i \in Seqs, lease.owner \notin Owners
    PROVE  ~ClaimIsLive(i)
BY DEF RowsUnderLease, ClaimIsLive

\* It is enough to look at the claims of o when o makes a step that keeps the lease.
LEMMA OwnWorked ==
    ASSUME RowsUnderLease, LeaseKept, NEW o \in Owners, OthersKept(o),
           NEW i \in Seqs, Worked(i), RowNotClaimed(i),
           lease.owner = o => Worked(i)'
    PROVE  Worked(i)'
<1>1. CASE lease.owner \notin Owners
  BY <1>1, ClaimOwner DEF Worked, ClaimIsLive, LeaseKept, RowNotClaimed
<1>2. CASE lease.owner \in Owners \ {o}
  BY <1>2, OthersWorked
<1> QED BY <1>1, <1>2

\* Claims stay under leases that were issued.
LEMMA RowsUnderLeaseStep ==
    ASSUME AuthorityInv, QueueInv, RowsUnderLease, [QueueNext]_vars
    PROVE  RowsUnderLease'
<1>t. TypeOK /\ QueueTypeOK /\ TypeOK'
  BY AuthorityStep, QueueStepIsAuthorityStep DEF AuthorityInv, QueueInv
<1>e. lease.epoch \in Nat /\ lease'.epoch \in Nat /\ lease'.epoch >= lease.epoch
  BY <1>t, LeaseMoves DEF TypeOK
<1>r. \A i \in Seqs : input[i].lease \in Nat
  BY <1>t DEF QueueTypeOK
<1> DEFINE Same(i) == /\ input'[i].lease = input[i].lease
                      /\ input'[i].state = "claimed" => input[i].state = "claimed" /\ input'[i].by = input[i].by
<1>a. (\A i \in Seqs : Same(i)) => RowsUnderLease'
  BY <1>e, <1>r DEF RowsUnderLease
<1>1. CASE EnqueueContinuation
  <2>1. \A i \in Seqs : Same(i)
    BY <1>1, <1>t DEF EnqueueContinuation, QueueTypeOK
  <2> QED BY <1>a, <2>1
<1>2. ASSUME NEW o \in Owners, DriveStep(o) PROVE RowsUnderLease'
  <2>1. CASE ClaimContinuation(o)
    <3>1. PICK i \in Seqs :
              input' = [input EXCEPT ![i] =
                    [state |-> "claimed", by |-> o, lease |-> heldLease[o],
                     claim |-> @.claim + 1, orphan |-> FALSE]]
      BY <2>1 DEF ClaimContinuation
    <3>2. heldLease[o] = lease.epoch /\ lease' = lease
      BY <2>1 DEF ClaimContinuation, MayDrive, RequireRuntimeLease, authorityVars
    <3>3. input'[i].lease <= lease'.epoch /\ input'[i].by \in Owners
      BY <1>t, <1>e, <3>1, <3>2 DEF QueueTypeOK
    <3>4. \A j \in Seqs \ {i} : input'[j] = input[j]
      BY <1>t, <3>1 DEF QueueTypeOK
    <3> QED BY <1>e, <1>r, <3>2, <3>3, <3>4 DEF RowsUnderLease
  <2>2. CASE \/ DriveWithoutInput(o) \/ DriverReturns(o) \/ DriverRaises(o) \/ SuspendTurn(o)
             \/ AuthorizationWait(o) \/ CommitConflict(o) \/ DriverGivesUp(o)
             \/ DriveAbandons(o) \/ DriveCancelled(o)
    <3>1. input' = input
      BY <2>2 DEF DriveWithoutInput, DriverReturns, DriverRaises, SuspendTurn, AuthorizationWait,
                CommitConflict, DriverGivesUp, DriveAbandons, DriveCancelled
    <3> QED BY <1>a, <3>1
  <2>3. CASE ClaimAtEndedRun(o) \/ TerminalizeCancelled(o)
              \/ \E s \in {"completed", "failed"} : CommitTerminal(o, s)
    <3>1. \E A : SettleAll(A)
      BY <2>3 DEF ClaimAtEndedRun, TerminalizeCancelled, CommitTerminal
    <3> QED BY <1>a, <1>t, <3>1, SettledWorked
  <2>4. CASE CommitProgress(o) \/ FailureConflict(o) \/ DriverAcks(o)
    <3>1. \A i \in Seqs : Same(i)
      BY <2>4, <1>t DEF CommitProgress, FailureConflict, DriverAcks, QueueTypeOK
    <3> QED BY <1>a, <3>1
  <2> QED BY <1>2, <2>1, <2>2, <2>3, <2>4 DEF DriveStep
<1>3. ASSUME NEW o \in Owners, ProcessCrash(o) PROVE RowsUnderLease'
  <2>1. \A i \in Seqs : Same(i)
    BY <1>3, <1>t DEF ProcessCrash, QueueTypeOK
  <2> QED BY <1>a, <2>1
<1>4. CASE OtherStep \/ (\E o \in Owners : KernelAuthorityStep(o)) \/ UNCHANGED vars
  <2>1. input' = input
    BY <1>4 DEF OtherStep, KernelAuthorityStep, vars, queueVars
  <2> QED BY <1>a, <2>1
<1> QED BY <1>1, <1>2, <1>3, <1>4 DEF QueueNext

\* A drive that ends lets go of its input.
LEMMA IdleDrivesStep ==
    ASSUME QueueTypeOK, IdleDrives, [QueueNext]_vars
    PROVE  IdleDrives'
<1>0. NoDrive.at = "idle" /\ NoDrive.on = 0 /\ \A o : DriveWithNone(o).at = "driver"
  BY DEF NoDrive, DriveWithNone
<1> DEFINE Good(d) == d.at = "idle" => d.on = 0
<1>a. ASSUME NEW o \in Owners, NEW d, drive' = [drive EXCEPT ![o] = d], Good(d)
      PROVE  IdleDrives'
  BY <1>a DEF IdleDrives, QueueTypeOK
<1>1. ASSUME NEW o \in Owners, DriveStep(o) PROVE IdleDrives'
  <2>1. CASE ClaimContinuation(o)
    <3>1. PICK i \in Seqs : drive' = [drive EXCEPT ![o] =
                 [at |-> "driver", on |-> i, claim |-> input'[i].claim,
                  lease |-> heldLease[o], version |-> 0]]
      BY <2>1 DEF ClaimContinuation
    <3> QED BY <1>a, <3>1
  <2>2. CASE DriveWithoutInput(o) \/ ClaimAtEndedRun(o)
    <3>1. drive' = drive \/ drive' = [drive EXCEPT ![o] = DriveWithNone(o)]
      BY <2>2 DEF DriveWithoutInput, ClaimAtEndedRun
    <3> QED BY <1>0, <1>a, <3>1 DEF IdleDrives
  <2>4. CASE EndDrive(o)
    BY <1>0, <1>a, <2>4 DEF EndDrive
  <2>5. CASE drive' = [drive EXCEPT ![o].at = "abandon"]
    BY <2>5 DEF IdleDrives, QueueTypeOK
  <2>3. CASE DriverReturns(o)
    <3>1. CASE LeaveInput(o)
      BY <2>4, <2>5, <3>1 DEF LeaveInput
    <3>2. CASE \E k \in 0..MaxInputs : GoesToCommit(o, k)
      BY <3>2 DEF GoesToCommit, IdleDrives, QueueTypeOK
    <3> QED BY <2>3, <3>1, <3>2, ReturnCases
  <2>8. CASE DriverRaises(o) \/ DriverAcks(o)
    <3>1. \/ drive' = [drive EXCEPT ![o].at = "failing", ![o].version = run.version]
          \/ drive' = drive
      BY <2>8 DEF DriverRaises, DriverAcks
    <3> QED BY <3>1 DEF IdleDrives, QueueTypeOK
  <2>6. CASE \/ CommitProgress(o) \/ SuspendTurn(o) \/ AuthorizationWait(o) \/ CommitConflict(o)
             \/ DriverGivesUp(o) \/ FailureConflict(o) \/ DriveAbandons(o) \/ DriveCancelled(o)
             \/ \E s \in {"completed", "failed"} : CommitTerminal(o, s)
    <3>1. EndDrive(o) \/ drive' = [drive EXCEPT ![o].at = "abandon"]
      BY <2>6 DEF CommitProgress, SuspendTurn, AuthorizationWait, CommitConflict, DriverGivesUp,
         FailureConflict, DriveAbandons, DriveCancelled, CommitTerminal, LeaveInput
    <3> QED BY <2>4, <2>5, <3>1
  <2>7. CASE TerminalizeCancelled(o)
    BY <2>7 DEF TerminalizeCancelled, IdleDrives
  <2> QED BY <1>1, <2>1, <2>2, <2>3, <2>6, <2>7, <2>8 DEF DriveStep
<1>2. ASSUME NEW o \in Owners, ProcessCrash(o) PROVE IdleDrives'
  BY <1>0, <1>2, <1>a DEF ProcessCrash
<1>3. CASE \/ EnqueueContinuation \/ OtherStep \/ UNCHANGED vars
           \/ \E o \in Owners : KernelAuthorityStep(o)
  BY <1>3 DEF EnqueueContinuation, OtherStep, KernelAuthorityStep, vars, queueVars, IdleDrives
<1> QED BY <1>1, <1>2, <1>3 DEF QueueNext

\* The epoch a call has claimed is the lease's until somebody else takes the lease.
LEMMA ClaimersKnowStep ==
    ASSUME TypeOK, ClaimersKnow, [Next]_authorityVars
    PROVE  ClaimersKnow'
<1>l. lease.epoch \in Nat
  BY DEF TypeOK
<1>1. ASSUME NEW o \in Owners, ClaimRuntimeActivation(o) \/ ConsumeResolvedWait(o)
      PROVE  ClaimersKnow'
  <2>1. /\ lease'.owner = o /\ claimed' = [claimed EXCEPT ![o] = lease'.epoch]
        /\ (lease.owner = o /\ lease'.epoch = lease.epoch) \/ lease'.epoch # lease.epoch
    <3>1. CASE ClaimRuntimeActivation(o)
      BY <1>l, <3>1, ClaimCases, ClaimedEpochFacts
    <3>2. CASE ConsumeResolvedWait(o)
      BY <1>l, <3>2 DEF ConsumeResolvedWait
    <3> QED BY <1>1, <3>1, <3>2
  <2>2. claimed'[o] = lease'.epoch
    BY <2>1 DEF TypeOK
  <2> QED BY <2>1, <2>2 DEF ClaimersKnow
<1>2. ASSUME NEW o \in Owners,
             \/ AcquireFence(o) \/ AcquireConflict(o) \/ HeartbeatLost(o) \/ RetireDone(o)
             \/ AbandonRunAuthority(o) \/ BeginRelease(o) \/ Crash(o)
      PROVE  ClaimersKnow'
  <2>1. /\ lease' = lease /\ \A p \in Owners \ {o} : pc'[p] = pc[p] /\ claimed'[p] = claimed[p]
        /\ pc'[o] \in {"acquire", "acquireWake"} => pc'[o] = pc[o] /\ claimed'[o] = claimed[o]
    BY <1>2 DEF AcquireFence, AcquireConflict, HeartbeatLost, RetireDone, AbandonRunAuthority,
                BeginRelease, Crash, TypeOK
  <2> QED BY <2>1 DEF ClaimersKnow
<1>3. ASSUME NEW o \in Owners, ReleaseRuntimeLease(o) \/ RenewLease(o) PROVE ClaimersKnow'
  <2>1. /\ lease'.owner = lease.owner /\ lease'.epoch = lease.epoch /\ claimed' = claimed
        /\ \A p \in Owners \ {o} : pc'[p] = pc[p]
        /\ pc'[o] \in {"acquire", "acquireWake"} => pc'[o] = pc[o]
    BY <1>3 DEF ReleaseRuntimeLease, RenewLease, TypeOK
  <2> QED BY <2>1 DEF ClaimersKnow
<1>4. CASE \/ Tick \/ RunOnlyStep \/ UNCHANGED authorityVars
           \/ \E o \in Owners, s \in Terminal : CommitRootTerminal(o, s)
  <2>1. lease'.owner = lease.owner /\ lease'.epoch = lease.epoch /\ claimed' = claimed /\ pc' = pc
    BY <1>4, RunOnlyFrame DEF Tick, authorityVars, CommitRootTerminal, kernelVars, TypeOK
  <2> QED BY <2>1 DEF ClaimersKnow
<1> QED BY <1>1, <1>2, <1>3, <1>4 DEF Next, KernelStep, RunOnlyStep

\* A kernel that may begin a drive has no live claim of its own to work on.
LEMMA BeginsFree ==
    ASSUME IdleDrives, NEW o \in Owners, MayDrive(o), NEW i \in Seqs, Worked(i),
           ~input[i].orphan
    PROVE  ~ClaimIsLive(i)
<1>1. drive[o].on = 0 /\ pc[o] = "idle" /\ lease.owner = o /\ 0 \notin Seqs
  BY DEF IdleDrives, MayDrive, RequireRuntimeLease, Seqs
<1> QED BY <1>1 DEF Worked

\* A drive that ends without an input, or goes on with the one it has, leaves no
\* claim alone.
LEMMA DriveKeepsClaim ==
    ASSUME QueueTypeOK, RowsUnderLease, NEW o \in Owners, NEW i \in Seqs, Worked(i),
           RowNotClaimed(i), lease' = lease, UNCHANGED <<heldLease, retiring, pc, claimed>>,
           \/ drive[o].on = 0 /\ EndDrive(o)
           \/ drive' = [drive EXCEPT ![o].at = "abandon"]
           \/ drive' = [drive EXCEPT ![o].at = "failing", ![o].version = run.version]
           \/ GoesToCommit(o, drive[o].on)
    PROVE  Worked(i)'
<1>1. OthersKept(o) /\ LeaseKept
  BY DEF OthersKept, LeaseKept, Live, EndDrive, GoesToCommit, QueueTypeOK
<1>2. HolderKeeps(o)
  BY DEF HolderKeeps, EndDrive, GoesToCommit, QueueTypeOK
<1>3. lease.owner = o => Worked(i)'
  BY <1>1, <1>2, KeptWorked
<1> QED BY <1>1, <1>3, OwnWorked

\* Nor does a drive that forgets an input that is acked.
LEMMA ForgetsAcked ==
    ASSUME QueueTypeOK, RowsUnderLease, NEW o \in Owners, NEW i \in Seqs, Worked(i),
           input' = input, lease' = lease, UNCHANGED <<heldLease, retiring, pc, claimed>>,
           GoesToCommit(o, 0), drive[o].on # 0
    PROVE  Worked(i)'
<1>1. OthersKept(o) /\ LeaseKept /\ RowNotClaimed(i)
  BY SameRow DEF OthersKept, LeaseKept, Live, GoesToCommit, QueueTypeOK
<1>2. CASE i = drive[o].on
  BY <1>1, <1>2, IdleWorked DEF GoesToCommit
<1>3. CASE i # drive[o].on /\ lease.owner = o /\ pc[o] # "release"
  BY <1>1, <1>3, IdleWorked
<1>4. CASE lease.owner = o /\ pc[o] = "release"
  <2>1. HolderKeeps(o)
    BY <1>4 DEF HolderKeeps
  <2> QED BY <1>1, <1>4, <2>1, KeptWorked
<1> QED BY <1>1, <1>2, <1>3, <1>4, OwnWorked

\* The steps of a drive.
LEMMA DriveWorked ==
    ASSUME ClaimsInv, NEW o \in Owners, DriveStep(o), NEW i \in Seqs
    PROVE  Worked(i)'
<1>t. TypeOK /\ QueueTypeOK /\ RowsUnderLease /\ IdleDrives /\ \A j \in Seqs : Worked(j)
  BY DEF ClaimsInv, QueueInv
<1>z. drive[o].on \in 0..MaxInputs /\ 0 \notin Seqs
  BY <1>t DEF QueueTypeOK, Seqs
<1>1. CASE ClaimContinuation(o)
  <2>1. PICK h \in Seqs :
            /\ input' = [input EXCEPT ![h] =
                 [state |-> "claimed", by |-> o, lease |-> heldLease[o],
                  claim |-> @.claim + 1, orphan |-> FALSE]]
            /\ drive' = [drive EXCEPT ![o] =
                 [at |-> "driver", on |-> h, claim |-> input'[h].claim,
                  lease |-> heldLease[o], version |-> 0]]
    BY <1>1 DEF ClaimContinuation
  <2>2. MayDrive(o) /\ UNCHANGED authorityVars
    BY <1>1 DEF ClaimContinuation
  <2>3. /\ lease' = lease /\ lease.owner = o /\ lease.epoch = heldLease[o]
        /\ heldLease' = heldLease /\ retiring' = retiring /\ pc' = pc /\ ~IsRetiring(o)
    BY <2>2 DEF MayDrive, RequireRuntimeLease, authorityVars
  <2>4. ASSUME i = h PROVE Worked(i)'
    <3>1. drive'[o].on = i /\ drive'[o].claim = input'[i].claim
      BY <1>t, <2>1, <2>4 DEF QueueTypeOK
    <3> QED BY <2>3, <3>1 DEF Worked, IsRetiring
  <2>5. ASSUME i # h PROVE Worked(i)'
    <3>1. input'[i] = input[i]
      BY <1>t, <2>1, <2>5 DEF QueueTypeOK
    <3>2. ~ClaimIsLive(i) \/ input[i].orphan
      BY <1>t, <2>2, BeginsFree
    <3> QED BY <2>3, <3>1, <3>2 DEF Worked, ClaimIsLive, Live
  <2> QED BY <2>4, <2>5
<1>2. CASE DriveWithoutInput(o)
  <2>1. ~ClaimIsLive(i) \/ input[i].orphan
    BY <1>2, <1>t, BeginsFree DEF DriveWithoutInput
  <2>2. lease' = lease /\ input' = input
    BY <1>2 DEF DriveWithoutInput, authorityVars
  <2> QED BY <2>1, <2>2 DEF Worked, ClaimIsLive, Live
<1>3. CASE \/ ClaimAtEndedRun(o) \/ TerminalizeCancelled(o)
           \/ \E s \in {"completed", "failed"} : CommitTerminal(o, s)
  <2>1. \E A : SettleAll(A)
    BY <1>3 DEF ClaimAtEndedRun, TerminalizeCancelled, CommitTerminal
  <2> QED BY <1>t, <2>1, SettledWorked
<1>4. CASE DriverRaises(o) \/ DriverGivesUp(o) \/ CommitConflict(o)
  <2>1. /\ lease' = lease /\ UNCHANGED <<heldLease, retiring, pc, claimed>> /\ input' = input
        /\ \/ drive[o].on = 0 /\ EndDrive(o)
           \/ drive' = [drive EXCEPT ![o].at = "abandon"]
           \/ drive' = [drive EXCEPT ![o].at = "failing", ![o].version = run.version]
    BY <1>4 DEF DriverRaises, DriverGivesUp, CommitConflict, LeaveInput, authorityVars
  <2> QED BY <1>t, <2>1, SameRow, DriveKeepsClaim
<1>10. CASE DriverReturns(o)
  <2>1. /\ lease' = lease /\ UNCHANGED <<heldLease, retiring, pc, claimed>> /\ input' = input
        /\ RowNotClaimed(i)
    BY <1>10, <1>t, ReturnCases, SameRow DEF authorityVars
  <2>2. CASE LeaveInput(o)
    BY <1>t, <2>1, <2>2, DriveKeepsClaim DEF LeaveInput
  <2>3. CASE \E k \in 0..MaxInputs : GoesToCommit(o, k)
    <3>1. GoesToCommit(o, drive[o].on) \/ (drive[o].on # 0 /\ GoesToCommit(o, 0))
      BY <2>3 DEF GoesToCommit
    <3> QED BY <1>t, <2>1, <3>1, DriveKeepsClaim, ForgetsAcked
  <2> QED BY <1>10, <1>t, <2>2, <2>3, ReturnCases
<1>11. CASE DriverAcks(o)
  <2>1. /\ lease' = lease /\ UNCHANGED <<heldLease, retiring, pc, claimed, drive>>
        /\ RowNotClaimed(i)
    BY <1>11, <1>t DEF DriverAcks, authorityVars, RowNotClaimed, QueueTypeOK
  <2>2. LeaseKept /\ HolderKeeps(lease.owner)
    BY <2>1 DEF LeaseKept, HolderKeeps, Live
  <2> QED BY <1>t, <2>1, <2>2, KeptWorked
<1>5. CASE SuspendTurn(o) \/ AuthorizationWait(o)
  <2>1. /\ lease' = lease /\ UNCHANGED <<heldLease, retiring, pc, claimed>> /\ input' = input
        /\ \/ drive[o].on = 0 /\ EndDrive(o)
           \/ drive' = [drive EXCEPT ![o].at = "abandon"]
    BY <1>5 DEF SuspendTurn, AuthorizationWait, LeaveInput, CommitRuntimeState, CommitDecisionOpen, kernelVars
  <2> QED BY <1>t, <2>1, SameRow, DriveKeepsClaim
<1>6. CASE CommitProgress(o)
  <2>1. /\ lease' = lease /\ pc[o] = "idle" /\ lease.owner = o /\ LeaseKept
        /\ EndDrive(o)
    BY <1>6 DEF CommitProgress, CommitRuntimeState, RequireRuntimeLease, LeaseKept, Live
  <2>2. RowNotClaimed(i)
    BY <1>6, <1>t DEF CommitProgress, RowNotClaimed, QueueTypeOK
  <2>3. drive[o].on = i => input'[i].state # "claimed"
    BY <1>6, <1>t, <1>z DEF CommitProgress, QueueTypeOK
  <2> QED BY <1>t, <2>1, <2>2, <2>3, IdleWorked
<1>7. CASE FailureConflict(o)
  <2>1. /\ lease' = lease /\ UNCHANGED <<heldLease, retiring, pc, claimed>> /\ EndDrive(o)
    BY <1>7 DEF FailureConflict, authorityVars
  <2>2. RowNotClaimed(i) /\ OthersKept(o) /\ LeaseKept
    BY <1>7, <1>t, <2>1 DEF FailureConflict, RowNotClaimed, OthersKept, LeaseKept, Live, EndDrive,
                            QueueTypeOK
  <2>3. ASSUME lease.owner = o, ClaimIsLive(i), ~input[i].orphan, pc[o] # "release"
        PROVE  input'[i].orphan
    <3>1. drive[o].on = i /\ drive[o].claim = input[i].claim /\ heldLease[o] = lease.epoch
      BY <1>t, <2>3 DEF Worked
    <3>2. RequireContinuationClaim(o) /\ drive[o].on # 0
      BY <1>z, <2>3, <3>1 DEF RequireContinuationClaim, ClaimIsLive
    <3> QED BY <1>7, <1>t, <3>1, <3>2 DEF FailureConflict, QueueTypeOK
  <2>4. ASSUME lease.owner = o PROVE Worked(i)'
    <3>1. CASE pc[o] = "release"
      <4>1. HolderKeeps(o)
        BY <2>1, <3>1 DEF HolderKeeps
      <4> QED BY <1>t, <2>2, <2>4, <4>1, KeptWorked
    <3>2. CASE pc[o] # "release" /\ ClaimIsLive(i) /\ ~input[i].orphan
      BY <1>t, <2>2, <2>3, <2>4, <3>2, IdleWorked
    <3>3. CASE ~ClaimIsLive(i) \/ input[i].orphan
      BY <2>2, <3>3 DEF Worked, ClaimIsLive, LeaseKept, RowNotClaimed
    <3> QED BY <3>1, <3>2, <3>3
  <2> QED BY <1>t, <2>2, <2>4, OwnWorked
<1>8. CASE DriveAbandons(o)
  <2>1. /\ lease' = lease /\ UNCHANGED <<heldLease, retiring, claimed>> /\ EndDrive(o)
        /\ input' = input /\ pc' = [pc EXCEPT ![o] = "release"]
    BY <1>8 DEF DriveAbandons, AbandonRunAuthority
  <2>2. RowNotClaimed(i) /\ OthersKept(o) /\ LeaseKept
    BY <1>t, <2>1, SameRow DEF OthersKept, LeaseKept, Live, EndDrive, QueueTypeOK, TypeOK
  <2>3. HolderKeeps(o)
    BY <1>t, <2>1 DEF HolderKeeps, TypeOK
  <2> QED BY <1>t, <2>2, <2>3, OwnWorked, KeptWorked
<1>9. CASE DriveCancelled(o)
  <2>1. lease' = lease /\ UNCHANGED <<heldLease, retiring, pc, claimed>> /\ input' = input
    BY <1>9 DEF DriveCancelled, authorityVars
  <2>2. CASE IsRetiring(o) /\ EndDrive(o)
    <3>1. RowNotClaimed(i) /\ OthersKept(o) /\ LeaseKept
      BY <1>t, <2>1, <2>2, SameRow DEF OthersKept, LeaseKept, Live, EndDrive, QueueTypeOK
    <3>2. lease.owner = o => Worked(i)'
      BY <1>t, <2>2, <3>1, IdleWorked
    <3> QED BY <1>t, <3>1, <3>2, OwnWorked
  <2>3. CASE \/ drive[o].on = 0 /\ EndDrive(o)
             \/ drive' = [drive EXCEPT ![o].at = "abandon"]
    BY <1>t, <2>1, <2>3, SameRow, DriveKeepsClaim
  <2> QED BY <1>9, <2>2, <2>3 DEF DriveCancelled, LeaveInput
<1> QED BY <1>1, <1>2, <1>3, <1>4, <1>5, <1>6, <1>7, <1>8, <1>9, <1>10, <1>11 DEF DriveStep

\* The other steps of a kernel: only a lease that o holds and nobody works under is
\* touched.
LEMMA AuthorityWorked ==
    ASSUME ClaimsInv, TypeOK', NEW o \in Owners, KernelAuthorityStep(o), NEW i \in Seqs,
           LeaseKept \/ lease'.epoch > lease.epoch
    PROVE  Worked(i)'
<1>t. TypeOK /\ TypeOK' /\ QueueTypeOK /\ RowsUnderLease /\ ClaimersKnow /\ Worked(i)
  BY DEF ClaimsInv, QueueInv
<1>k. input' = input /\ drive' = drive
  BY DEF KernelAuthorityStep, queueVars
<1>r. RowNotClaimed(i)
  BY <1>k, SameRow
<1>n. ASSUME lease'.epoch > lease.epoch PROVE Worked(i)'
  BY <1>n, <1>r, <1>t, NewLeaseNoClaims
<1> SUFFICES ASSUME LeaseKept PROVE Worked(i)'
  BY <1>n
<1>o. OthersKept(o)
  BY <1>k, <1>t DEF KernelAuthorityStep, ClaimRuntimeActivation, ConsumeResolvedWait, AcquireFence,
     AcquireConflict, RenewLease, HeartbeatLost, RetireDone, AbandonRunAuthority, BeginRelease,
     ReleaseRuntimeLease, OthersKept, TypeOK
<1> SUFFICES ASSUME lease.owner = o PROVE Worked(i)'
  BY <1>t, <1>r, <1>o, OwnWorked
<1>1. CASE \/ ClaimRuntimeActivation(o) \/ ConsumeResolvedWait(o) \/ RenewLease(o)
           \/ AbandonRunAuthority(o) \/ BeginRelease(o)
  <2>1. HolderKeeps(o)
    BY <1>1, <1>k, <1>t DEF ClaimRuntimeActivation, ConsumeResolvedWait, RenewLease,
       AbandonRunAuthority, BeginRelease, HolderKeeps, TypeOK
  <2> QED BY <1>t, <1>r, <2>1, KeptWorked
<1>2. CASE AcquireFence(o)
  <2>1. HolderKeeps(o)
    BY <1>2, <1>k, <1>t DEF AcquireFence, RequireRuntimeLease, HolderKeeps, TypeOK
  <2> QED BY <1>t, <1>r, <2>1, KeptWorked
<1>3. CASE AcquireConflict(o)
  <2>1. ~Live /\ lease' = lease
    BY <1>3, <1>t DEF AcquireConflict, RequireRuntimeLease, ClaimersKnow
  <2> QED BY <1>t, <1>r, <2>1, IdleWorked DEF Live
<1>4. CASE HeartbeatLost(o)
  <2>1. heldLease[o] # lease.epoch \/ ~Live
    BY <1>4 DEF HeartbeatLost, RequireRuntimeLease
  <2>2. lease' = lease
    BY <1>4 DEF HeartbeatLost
  <2> QED BY <1>t, <1>r, <2>1, <2>2, IdleWorked DEF Live
<1>5. CASE RetireDone(o)
  <2>1. IsRetiring(o)
    BY <1>5 DEF RetireDone
  <2> QED BY <1>t, <1>r, <2>1, IdleWorked
<1>6. CASE ReleaseRuntimeLease(o)
  <2>1. heldLease[o] = lease.epoch => ~Live'
    BY <1>6, <1>t DEF ReleaseRuntimeLease, Live, TypeOK
  <2> QED BY <1>t, <1>r, <2>1, IdleWorked
<1> QED BY <1>1, <1>2, <1>3, <1>4, <1>5, <1>6 DEF KernelAuthorityStep

\* Every step keeps live claims worked on.
LEMMA WorkedStep ==
    ASSUME ClaimsInv, [QueueNext]_vars, NEW i \in Seqs
    PROVE  Worked(i)'
<1>t. TypeOK /\ QueueTypeOK /\ RowsUnderLease /\ Worked(i) /\ AuthorityInv
  BY DEF ClaimsInv, QueueInv
<1>u. TypeOK'
  BY <1>t, AuthorityStep, QueueStepIsAuthorityStep DEF AuthorityInv
<1>l. LeaseKept \/ lease'.epoch > lease.epoch
  BY <1>t, LeaseMoves DEF LeaseKept
<1>1. ASSUME NEW o \in Owners, DriveStep(o) PROVE Worked(i)'
  BY <1>1, DriveWorked
<1>2. ASSUME NEW o \in Owners, KernelAuthorityStep(o) PROVE Worked(i)'
  BY <1>2, <1>l, <1>u, AuthorityWorked
<1>3. ASSUME NEW o \in Owners, ProcessCrash(o) PROVE Worked(i)'
  <2>1. LeaseKept /\ RowNotClaimed(i) /\ OthersKept(o)
    BY <1>3, <1>t DEF ProcessCrash, Crash, LeaseKept, Live, RowNotClaimed, OthersKept, QueueTypeOK, TypeOK
  <2>2. input[i].state = "claimed" /\ input[i].by = o => input'[i].orphan
    BY <1>3, <1>t DEF ProcessCrash, QueueTypeOK
  <2>3. lease.owner = o => Worked(i)'
    BY <1>t, <2>1, <2>2 DEF Worked, ClaimIsLive, LeaseKept, RowNotClaimed
  <2> QED BY <1>t, <2>1, <2>3, OwnWorked
<1>4. CASE OtherStep \/ EnqueueContinuation \/ UNCHANGED vars
  <2>1. /\ lease'.epoch = lease.epoch
        /\ UNCHANGED <<heldLease, retiring, pc, claimed, drive>>
    BY <1>4, <1>t DEF OtherStep, Tick, RequestRunCancel, CommitDecisionResolved, kernelVars,
       EnqueueContinuation, vars, queueVars, authorityVars, TypeOK
  <2>2. LeaseKept
    BY <1>l, <2>1, <1>t DEF TypeOK
  <2>3. RowNotClaimed(i)
    <3>1. CASE EnqueueContinuation
      BY <1>t, <3>1 DEF EnqueueContinuation, RowNotClaimed, QueueTypeOK
    <3>2. CASE OtherStep \/ UNCHANGED vars
      BY <3>2, SameRow DEF OtherStep, vars, queueVars
    <3> QED BY <1>4, <3>1, <3>2
  <2>4. HolderKeeps(lease.owner)
    BY <2>1 DEF HolderKeeps
  <2> QED BY <1>t, <2>2, <2>3, <2>4, KeptWorked
<1> QED BY <1>1, <1>2, <1>3, <1>4 DEF QueueNext

\* The claims' invariant holds from the start and is kept by every step.
LEMMA ClaimsInvInit == QueueInit => ClaimsInv
<1> SUFFICES ASSUME QueueInit PROVE ClaimsInv
  OBVIOUS
<1>1. AuthorityInv /\ QueueInv
  BY AuthorityInit, QueueInitInv DEF QueueInit
<1>2. RowsUnderLease /\ IdleDrives /\ ClaimersKnow /\ \A i \in Seqs : Worked(i)
  BY DEF QueueInit, Init, RowsUnderLease, IdleDrives, ClaimersKnow, Worked, ClaimIsLive, NoInput,
         NoDrive
<1> QED BY <1>1, <1>2 DEF ClaimsInv

LEMMA ClaimsInvStep == ClaimsInv /\ [QueueNext]_vars => ClaimsInv'
<1> SUFFICES ASSUME ClaimsInv, [QueueNext]_vars PROVE ClaimsInv'
  OBVIOUS
<1>1. AuthorityInv' /\ QueueInv'
  BY AuthorityStep, QueueStepIsAuthorityStep, QueueInvStep DEF ClaimsInv
<1>2. RowsUnderLease' /\ IdleDrives' /\ ClaimersKnow'
  BY RowsUnderLeaseStep, IdleDrivesStep, ClaimersKnowStep, QueueStepIsAuthorityStep
     DEF ClaimsInv, QueueInv
<1>3. (\A i \in Seqs : Worked(i))'
  BY WorkedStep
<1> QED BY <1>1, <1>2, <1>3 DEF ClaimsInv

\* A claim that keeps the head from everybody has a drive working on it or is about
\* to be given up; only the two ways named in ClaimIsWorked leave an input stuck.
THEOREM ClaimsWorked == QueueSpec => []ClaimIsWorked
<1>1. ClaimsInv => ClaimIsWorked
  BY ClaimsInvMeaning
<1> QED BY <1>1, ClaimsInvInit, ClaimsInvStep, PTL DEF QueueSpec

=============================================================================
