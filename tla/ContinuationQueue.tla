------------------------- MODULE ContinuationQueue -------------------------
(***************************************************************************)
(* The continuation inputs of one Run (table continuations) and the drives *)
(* of the kernels that serve them: RuntimeKernel._drive claims the oldest  *)
(* open input under the runtime lease, hands it to the driver, and commits *)
(* the answer together with the Run.                                       *)
(*                                                                         *)
(* An input is known by its fifo_seq.  Its version column is left out: it  *)
(* changes with claim_epoch as long as the row is claimed.  A drive has    *)
(* three suspension points: inside the driver, between reading the Run and *)
(* the commit (a transaction of another process may come between), and     *)
(* inside the release of its authority.  When a drive is started, and by   *)
(* which wake, is left open.                                               *)
(***************************************************************************)
EXTENDS RunAuthority

CONSTANTS MaxInputs,   \* bound: inputs of the Run
          MaxClaims    \* bound: claims of one input

ASSUME QueueConstants == MaxInputs \in Nat /\ MaxClaims \in Nat

VARIABLES last,   \* MAX(fifo_seq)
          input,  \* continuations, by fifo_seq
          drive   \* the _drive task of each kernel

queueVars == <<last, input, drive>>
vars == <<authorityVars, queueVars>>

Seqs    == 1..MaxInputs
Open    == {"pending", "claimed"}
Settled == {"acked", "quarantined"}

\* orphan is history: the drive that made the claim is gone and has neither
\* settled it nor given its authority up.
NoInput == [state |-> "none", by |-> NoOwner, lease |-> 0, claim |-> 0, orphan |-> FALSE]
\* A drive carries the lease its driver was started under.
NoDrive == [at |-> "idle", on |-> 0, claim |-> 0, lease |-> 0, version |-> 0]

QueueInit ==
    /\ Init
    /\ last = 0
    /\ input = [i \in Seqs |-> NoInput]
    /\ drive = [o \in Owners |-> NoDrive]

-----------------------------------------------------------------------------
(* The rows.                                                               *)

\* Faulty: the queue moves on past an input that is claimed.
IsHeadPending(i) ==
    /\ input[i].state \in Open
    /\ \A j \in Seqs : j < i => input[j].state # "pending"

\* i is the open input of the lowest fifo_seq.
IsHead(i) ==
    /\ input[i].state \in Open
    /\ \A j \in Seqs : j < i => input[j].state \notin Open

\* The claim of i was made under the lease that is live now.
ClaimIsLive(i) ==
    /\ input[i].state = "claimed"
    /\ input[i].by = lease.owner /\ input[i].lease = lease.epoch
    /\ Live

\* _require_continuation_claim for the claim of o's drive and the lease o holds.
RequireContinuationClaim(o) ==
    LET row == input[drive[o].on]
    IN  /\ row.state = "claimed"
        /\ row.by = o /\ row.lease = heldLease[o]
        /\ row.claim = drive[o].claim

\* UPDATE continuations SET state = 'quarantined' WHERE state is open, after
\* the rows of `acked` were acked.
SettleAll(acked) ==
    input' = [i \in Seqs |->
                 IF i \in acked THEN [input[i] EXCEPT !.state = "acked"]
                 ELSE IF input[i].state \in Open
                      THEN [input[i] EXCEPT !.state = "quarantined"]
                 ELSE input[i]]

EndDrive(o) == drive' = [drive EXCEPT ![o] = NoDrive]

\* enqueue_continuation and apply_continue_command, from any process.
EnqueueContinuation ==
    /\ run.state \notin Terminal
    /\ last < MaxInputs
    /\ last' = last + 1
    /\ input' = [input EXCEPT ![last'].state = "pending"]
    /\ UNCHANGED <<authorityVars, drive>>

-----------------------------------------------------------------------------
(* _drive.                                                                 *)

\* A drive may begin: the kernel believes it holds the Run.
MayDrive(o) ==
    /\ drive[o].at = "idle" /\ pc[o] = "idle"
    /\ heldLease[o] # 0 /\ ~IsRetiring(o)
    /\ RequireRuntimeLease(o, heldLease[o])

\* claim_continuation: the head, new or claimed under a lease that is gone.  A
\* cancellation requested after the drive read the Run does not stop it.
ClaimContinuation(o) ==
    /\ MayDrive(o)
    /\ run.state \notin Terminal
    /\ \E i \in Seqs :
          /\ IsHead(i) /\ ~ClaimIsLive(i) /\ input[i].claim < MaxClaims
          /\ input' = [input EXCEPT ![i] =
                 [state |-> "claimed", by |-> o, lease |-> heldLease[o],
                  claim |-> @.claim + 1, orphan |-> FALSE]]
          /\ drive' = [drive EXCEPT ![o] =
                 [at |-> "driver", on |-> i, claim |-> input'[i].claim,
                  lease |-> heldLease[o], version |-> 0]]
    /\ UNCHANGED <<authorityVars, last>>

\* A drive of o that has claimed no input.
DriveWithNone(o) ==
    [at |-> "driver", on |-> 0, claim |-> 0, lease |-> heldLease[o], version |-> 0]

\* claim_continuation returns None: a Run that does not wait is driven without
\* an input, also when the head is claimed under the lease that is live.
DriveWithoutInput(o) ==
    /\ MayDrive(o)
    /\ run.state \notin Terminal \cup {"cancel_requested", "waiting"}
    /\ \A i \in Seqs : IsHead(i) => ClaimIsLive(i)
    /\ drive' = [drive EXCEPT ![o] = DriveWithNone(o)]
    /\ UNCHANGED <<authorityVars, last, input>>

\* claim_continuation of a Run that ended after the drive read it: the open
\* inputs are quarantined; a driver is started all the same unless the Run had
\* been waiting.
ClaimAtEndedRun(o) ==
    /\ MayDrive(o)
    /\ run.state \in Terminal
    /\ SettleAll({})
    /\ drive' \in {drive, [drive EXCEPT ![o] = DriveWithNone(o)]}
    /\ UNCHANGED <<authorityVars, last>>

\* ack_spawn_child_continuation_and_continue_batch: a driver that was waiting for
\* a child answers the child's signal itself and goes on.
DriverAcks(o) ==
    /\ drive[o].at = "driver" /\ drive[o].on # 0
    /\ run.state = "running"
    /\ HasAuthority(o) /\ drive[o].lease = heldLease[o]
    /\ RequireContinuationClaim(o)
    /\ input' = [input EXCEPT ![drive[o].on].state = "acked"]
    /\ UNCHANGED <<authorityVars, last, drive>>

\* A drive stops without settling its input: if it has one, it gives its
\* authority up, so that a later lease can claim the input again.
LeaveInput(o) ==
    IF drive[o].on # 0 THEN drive' = [drive EXCEPT ![o].at = "abandon"]
                       ELSE EndDrive(o)

\* The driver returns.  Recording that asks for the lease the driver was started
\* under; an input the driver has acked is forgotten; the Run is read again.
DriverReturns(o) ==
    /\ drive[o].at = "driver"
    /\ \/ /\ RequireRuntimeLease(o, drive[o].lease)
          /\ drive' = [drive EXCEPT
                 ![o].at = "commit", ![o].version = run.version,
                 ![o].on = IF @ # 0 /\ input[@].state = "acked" THEN 0 ELSE @]
       \/ ~RequireRuntimeLease(o, drive[o].lease) /\ LeaveInput(o)
    /\ UNCHANGED <<authorityVars, last, input>>

\* The driver of a Run that is not a BaseAgent raises; the Run is read again, to
\* be failed.  No lease is asked for.
DriverRaises(o) ==
    /\ drive[o].at = "driver"
    /\ drive' = [drive EXCEPT ![o].at = "failing", ![o].version = run.version]
    /\ UNCHANGED <<authorityVars, last, input>>

\* The checks of a commit of o's drive that do not depend on the result.
CanCommit(o) ==
    /\ run.state \notin Terminal
    /\ run.version = drive[o].version
    /\ drive[o].on # 0 => RequireContinuationClaim(o)

\* commit_runtime_state_and_ack_continuation, or commit_runtime_state.
CommitProgress(o) ==
    /\ drive[o].at = "commit" /\ CanCommit(o)
    /\ CommitRuntimeState(o)
    /\ input' = IF drive[o].on = 0 THEN input
                ELSE [input EXCEPT ![drive[o].on].state = "acked"]
    /\ EndDrive(o)
    /\ UNCHANGED last

\* commit_root_terminal_with_deliveries(_and_ack_continuation).
CommitTerminal(o, s) ==
    /\ drive[o].at = "commit" \/ (drive[o].at = "failing" /\ s = "failed")
    /\ CanCommit(o)
    /\ CommitRootTerminal(o, s)
    /\ SettleAll({drive[o].on} \ {0})
    /\ EndDrive(o)
    /\ UNCHANGED last

\* Faulty: the turn is suspended and the lease is kept.
SuspendTurnHeld(o) ==
    /\ drive[o].at = "commit" /\ drive[o].on # 0
    /\ run.version = drive[o].version
    /\ CommitRuntimeState(o)
    /\ EndDrive(o)
    /\ UNCHANGED <<last, input>>

\* A BaseAgent turn suspended by a wait: the input stays claimed while the Run
\* waits, and the authority is given up so that a later lease can claim it again.
SuspendTurn(o) ==
    /\ drive[o].at = "commit" /\ drive[o].on # 0
    /\ run.version = drive[o].version
    /\ CommitRuntimeState(o)
    /\ drive' = [drive EXCEPT ![o].at = "abandon"]
    /\ UNCHANGED <<last, input>>

\* _commit_authorization_wait: the Run is set to waiting without any check, also
\* when the lease was lost after the return was recorded.  A claimed input stays
\* claimed, and the drive that claimed it gives its authority up.
AuthorizationWait(o) ==
    /\ drive[o].at = "commit"
    /\ CommitDecisionOpen
    /\ LeaveInput(o)
    /\ UNCHANGED <<last, input>>

\* The commit conflicts.
CommitConflict(o) ==
    /\ drive[o].at = "commit"
    /\ ~(CanCommit(o) /\ HasAuthority(o))
    /\ LeaveInput(o)
    /\ UNCHANGED <<authorityVars, last, input>>

\* The driver of a BaseAgent raises, or the driver returns a wait that may not
\* answer an input (an authorization, a call of unknown outcome).
DriverGivesUp(o) ==
    /\ drive[o].at = "driver"
    /\ drive' = [drive EXCEPT ![o].at = "abandon"]
    /\ UNCHANGED <<authorityVars, last, input>>

\* Failing the Run conflicts, also because the driver has acked its input: the
\* drive ends with its authority kept.
FailureConflict(o) ==
    /\ drive[o].at = "failing"
    /\ ~(CanCommit(o) /\ HasAuthority(o))
    /\ EndDrive(o)
    /\ input' = IF drive[o].on # 0 /\ RequireContinuationClaim(o)
                THEN [input EXCEPT ![drive[o].on].orphan = TRUE] ELSE input
    /\ UNCHANGED <<authorityVars, last>>

\* _abandon_run_authority at the end of a drive.
DriveAbandons(o) ==
    /\ drive[o].at = "abandon"
    /\ AbandonRunAuthority(o)
    /\ EndDrive(o)
    /\ UNCHANGED <<last, input>>

\* The task is cancelled: by the heartbeat that lost the lease, or after a
\* cancellation request.  In the second case a drive with an input gives its
\* authority up, one without lets the cancellation be carried out.
DriveCancelled(o) ==
    /\ drive[o].at \in {"driver", "commit"}
    /\ \/ IsRetiring(o) /\ run.state # "cancel_requested" /\ EndDrive(o)
       \/ run.state = "cancel_requested" /\ LeaveInput(o)
    /\ UNCHANGED <<authorityVars, last, input>>

\* _terminalize_cancelled: by a drive that finds the request, or by the cancel
\* itself once the drive has ended.
TerminalizeCancelled(o) ==
    /\ drive[o].at = "idle"
    /\ run.state = "cancel_requested"
    /\ CommitRootTerminal(o, "cancelled")
    /\ SettleAll({})
    /\ UNCHANGED <<last, drive>>

-----------------------------------------------------------------------------
(* The authority protocol under the queue.                                 *)

\* Steps of the kernel's other tasks, of an idle BaseAgent that gives its
\* authority up and of close.  A heartbeat that lost the lease waits for the
\* drive to end.
KernelAuthorityStep(o) ==
    /\ \/ ClaimRuntimeActivation(o)
       \/ ConsumeResolvedWait(o)
       \/ AcquireFence(o)
       \/ AcquireConflict(o)
       \/ RenewLease(o)
       \/ HeartbeatLost(o)
       \/ drive[o].at = "idle" /\ RetireDone(o)
       \/ drive[o].at = "idle" /\ AbandonRunAuthority(o)
       \/ drive[o].at = "idle" /\ run.state \in Terminal /\ BeginRelease(o)
       \/ ReleaseRuntimeLease(o)
    /\ UNCHANGED queueVars

\* The process of o dies; the inputs it has claimed stay claimed.
ProcessCrash(o) ==
    /\ Crash(o)
    /\ drive' = [drive EXCEPT ![o] = NoDrive]
    /\ input' = [i \in Seqs |-> IF input[i].state = "claimed" /\ input[i].by = o
                                THEN [input[i] EXCEPT !.orphan = TRUE] ELSE input[i]]
    /\ UNCHANGED last

OtherStep ==
    /\ \/ Tick
       \/ RequestRunCancel
       \/ \E s \in {"queued", "failed"} : CommitDecisionResolved(s)
    /\ UNCHANGED queueVars

DriveStep(o) ==
    \/ ClaimContinuation(o)
    \/ DriveWithoutInput(o)
    \/ ClaimAtEndedRun(o)
    \/ DriverAcks(o)
    \/ DriverReturns(o)
    \/ DriverRaises(o)
    \/ CommitProgress(o)
    \/ \E s \in {"completed", "failed"} : CommitTerminal(o, s)
    \/ SuspendTurn(o)
    \/ AuthorizationWait(o)
    \/ CommitConflict(o)
    \/ DriverGivesUp(o)
    \/ FailureConflict(o)
    \/ DriveAbandons(o)
    \/ DriveCancelled(o)
    \/ TerminalizeCancelled(o)

QueueNext ==
    \/ EnqueueContinuation
    \/ \E o \in Owners : DriveStep(o) \/ KernelAuthorityStep(o) \/ ProcessCrash(o)
    \/ OtherStep

QueueSpec == QueueInit /\ [][QueueNext]_vars

-----------------------------------------------------------------------------
(* Properties.                                                             *)

\* Type correctness of the rows and the drives.
QueueTypeOK ==
    /\ last \in 0..MaxInputs
    /\ input \in [Seqs -> [state : {"none"} \cup Open \cup Settled,
                           by : Owners \cup {NoOwner}, lease : Nat, claim : Nat,
                           orphan : BOOLEAN]]
    /\ drive \in [Owners -> [at : {"idle", "driver", "commit", "failing", "abandon"},
                             on : 0..MaxInputs, claim : Nat, lease : Nat, version : Nat]]

\* The queue is served from the front: whatever is claimed or answered has only
\* settled inputs before it, through takeovers, late drives and restarts.
ServedFromFront ==
    \A i, j \in Seqs : i < j /\ input[j].state \in {"claimed", "acked"} =>
        input[i].state \in Settled

\* The rows in use are those up to last.
Numbered == \A i \in Seqs : input[i].state = "none" <=> last < i

\* The inductive invariant of the queue.
QueueInv == TypeOK /\ QueueTypeOK /\ Numbered /\ ServedFromFront

\* A claim that keeps the head from everybody (its lease is live) has a drive
\* working on it, or its authority is about to be given up.  The exceptions are
\* the two ways an input gets stuck: its process died and was restarted under the
\* lease it still had, or its driver raised and failing the Run conflicted.
ClaimIsWorked ==
    \A i \in Seqs : ClaimIsLive(i) =>
        LET o == lease.owner
        IN  \/ drive[o].on = i /\ drive[o].claim = input[i].claim
            \/ pc[o] = "release"
            \/ input[i].orphan

\* What ClaimIsWorked rests on: claims are made under leases that were issued; a
\* call that has claimed the lease knows its epoch as long as the lease is its
\* own; and whoever has a live claim knows the lease and has not lost it.
ClaimsUnderLease ==
    /\ \A i \in Seqs : /\ input[i].lease <= lease.epoch
                       /\ input[i].state = "claimed" => input[i].by \in Owners
    /\ \A o \in Owners :
          /\ drive[o].at = "idle" => drive[o].on = 0
          /\ pc[o] \in {"acquire", "acquireWake"} /\ lease.owner = o => claimed[o] = lease.epoch
    /\ \A i \in Seqs : ClaimIsLive(i) /\ ~input[i].orphan =>
          heldLease[lease.owner] = lease.epoch /\ ~IsRetiring(lease.owner)

\* The continuation inputs are a FIFO queue.
Fifo == INSTANCE FifoQueue WITH
            open <- {i \in Seqs : input[i].state \in Open},
            answered <- {i \in Seqs : input[i].state = "acked"}
ImplementsFifo == Fifo!Spec

=============================================================================
