---------------------------- MODULE RunAuthority ----------------------------
(***************************************************************************)
(* Who may write for one Run.  The durable rows are the Run itself (table  *)
(* runs), its runtime lease (workflow_leases, namespace "runtime.kernel")  *)
(* and its fence (run_fences), changed by the transactions of              *)
(* SqliteExecutionUnitOfWork.  Every kernel process also remembers, in     *)
(* dictionaries of RuntimeKernel, the lease and the fence it believes it   *)
(* holds, whether a heartbeat task renews the lease, and whether it is     *)
(* retiring a lease that the heartbeat found lost.                         *)
(*                                                                         *)
(* Each action is one transaction, or one transaction together with the    *)
(* dictionary updates that follow it without a suspension point.  pc says  *)
(* where a kernel is between two transactions of one call.  This module    *)
(* leaves open why a kernel makes a call; RunLifecycle adds the driver     *)
(* tasks, cancellations and wakes that decide it.                          *)
(*                                                                         *)
(* Time is a countdown: lease.ttl is what is left of expires_at, in ticks; *)
(* the lease is live while it is positive.                                 *)
(***************************************************************************)
EXTENDS Integers

CONSTANTS Owners,         \* the owner_ids of the kernel processes
          NoOwner,        \* the owner of a row that does not exist yet
          TTL,            \* lease_ttl_seconds, in ticks
          MaxLeaseEpoch,  \* bound: lease epochs explored
          MaxFenceEpoch,  \* bound: fence epochs explored
          MaxVersion      \* bound: run versions explored

ASSUME AuthorityConstants ==
    /\ NoOwner \notin Owners
    /\ TTL \in Nat \ {0}
    /\ MaxLeaseEpoch \in Nat /\ MaxFenceEpoch \in Nat /\ MaxVersion \in Nat

VARIABLES run,        \* runs: [state, version]
          lease,      \* workflow_leases: [owner, epoch, ttl]
          fence,      \* run_fences: [owner, leaseEpoch, epoch, active]
          heldLease,  \* kernel._leases: lease epoch believed held, 0 for none
          heldFence,  \* kernel._fences: [epoch, leaseEpoch], epoch 0 for none
          heartbeat,  \* kernel._heartbeats: a renewing task exists
          retiring,   \* kernel._retiring_leases, with what _heartbeat captured
          claimed,    \* the lease a call in progress has claimed
          pc          \* the transaction a call in progress performs next

authorityVars == <<run, lease, fence, heldLease, heldFence, heartbeat,
                   retiring, claimed, pc>>

Terminal  == {"completed", "failed", "cancelled"}
RunStates == {"created", "queued", "running", "waiting", "cancel_requested"}
             \cup Terminal

NoFence    == [epoch |-> 0, leaseEpoch |-> 0]
NotRetiring == [lease |-> 0, fence |-> 0]

Init ==
    /\ run = [state |-> "created", version |-> 0]
    /\ lease = [owner |-> NoOwner, epoch |-> 0, ttl |-> 0]
    /\ fence = [owner |-> NoOwner, leaseEpoch |-> 0, epoch |-> 0, active |-> FALSE]
    /\ heldLease = [o \in Owners |-> 0]
    /\ heldFence = [o \in Owners |-> NoFence]
    /\ heartbeat = [o \in Owners |-> FALSE]
    /\ retiring = [o \in Owners |-> NotRetiring]
    /\ claimed = [o \in Owners |-> 0]
    /\ pc = [o \in Owners |-> "idle"]

-----------------------------------------------------------------------------
(* The checks every fenced write begins with.                              *)

Live == lease.ttl > 0

\* _require_runtime_lease for an ExecutionLease of owner o and epoch e.
RequireRuntimeLease(o, e) ==
    /\ lease.owner = o
    /\ lease.epoch = e
    /\ Live

\* Faulty: only the lease of the fence is compared, not the fence epoch.
RequireRunFenceOfLease(o, f, e) ==
    /\ fence.owner = o
    /\ fence.leaseEpoch = f.leaseEpoch
    /\ fence.active
    /\ f.leaseEpoch = e

\* _require_run_fence for the fence token f of owner o and lease epoch e.
RequireRunFence(o, f, e) ==
    /\ fence.owner = o
    /\ fence.leaseEpoch = f.leaseEpoch
    /\ fence.epoch = f.epoch
    /\ fence.active
    /\ f.leaseEpoch = e

\* Both checks pass for what kernel o believes it holds.
HasAuthority(o) ==
    /\ RequireRuntimeLease(o, heldLease[o])
    /\ RequireRunFence(o, heldFence[o], heldLease[o])

IsRetiring(o) == retiring[o] # NotRetiring

\* UPDATE runs SET state = s, version = version + 1.
SetRun(s) ==
    /\ run.version < MaxVersion
    /\ run' = [state |-> s, version |-> run.version + 1]

\* UPDATE run_fences SET state = 'released' WHERE owner_id AND epoch AND active.
FenceReleasedBy(o, e) ==
    IF fence.owner = o /\ fence.epoch = e
    THEN [fence EXCEPT !.active = FALSE]
    ELSE fence

-----------------------------------------------------------------------------
(* Activation: RuntimeKernel._activate and _drain_resolved_waits_once.     *)

\* Faulty: a claim that finds no live lease does not raise the epoch.
ClaimedEpochKept ==
    IF lease.epoch >= fence.leaseEpoch THEN lease.epoch ELSE fence.leaseEpoch

\* The new lease row of a claim that finds no live lease.
ClaimedEpoch ==
    (IF lease.epoch >= fence.leaseEpoch THEN lease.epoch ELSE fence.leaseEpoch) + 1

\* claim_runtime_activation: refused for a terminal Run and while another owner
\* is live; a live own lease is returned as it is; otherwise a new epoch, and a
\* created or queued Run starts running.
ClaimRuntimeActivation(o) ==
    /\ pc[o] = "idle"
    /\ ~IsRetiring(o)
    /\ run.state \notin Terminal
    /\ \/ /\ Live /\ lease.owner = o
          /\ claimed' = [claimed EXCEPT ![o] = lease.epoch]
          /\ UNCHANGED <<run, lease>>
       \/ /\ ~Live
          /\ ClaimedEpoch <= MaxLeaseEpoch
          /\ lease' = [owner |-> o, epoch |-> ClaimedEpoch, ttl |-> TTL]
          /\ claimed' = [claimed EXCEPT ![o] = ClaimedEpoch]
          /\ IF run.state \in {"created", "queued"} THEN SetRun("running")
                                                    ELSE UNCHANGED run
    /\ pc' = [pc EXCEPT ![o] = "acquire"]
    /\ UNCHANGED <<fence, heldLease, heldFence, heartbeat, retiring>>

\* consume_resolved_wait_and_claim_activation: a waiting Run goes on running
\* under the own live lease, extended, or under the next epoch of a lapsed one.
\* Unlike a claim it does not look at run_fences.
ConsumeResolvedWait(o) ==
    /\ pc[o] = "idle"
    /\ run.state = "waiting"
    /\ Live => lease.owner = o
    /\ LET epoch == IF Live THEN lease.epoch ELSE lease.epoch + 1
       IN  /\ epoch <= MaxLeaseEpoch
           /\ lease' = [owner |-> o, epoch |-> epoch, ttl |-> TTL]
           /\ claimed' = [claimed EXCEPT ![o] = epoch]
    /\ SetRun("running")
    /\ pc' = [pc EXCEPT ![o] = "acquireWake"]
    /\ UNCHANGED <<fence, heldLease, heldFence, heartbeat, retiring>>

\* acquire, after either claim: the fence of the same lease is returned, any
\* other is superseded by the next fence epoch.  A heartbeat is started unless
\* one is running (a retiring one counts).
AcquireFence(o) ==
    /\ pc[o] \in {"acquire", "acquireWake"}
    /\ RequireRuntimeLease(o, claimed[o])
    /\ \/ /\ fence.owner = o /\ fence.leaseEpoch = claimed[o] /\ fence.active
          /\ UNCHANGED fence
       \/ /\ ~(fence.owner = o /\ fence.leaseEpoch = claimed[o] /\ fence.active)
          /\ fence.epoch < MaxFenceEpoch
          /\ fence' = [owner |-> o, leaseEpoch |-> claimed[o],
                       epoch |-> fence.epoch + 1, active |-> TRUE]
    /\ heldLease' = [heldLease EXCEPT ![o] = claimed[o]]
    /\ heldFence' = [heldFence EXCEPT ![o] =
                        [epoch |-> fence'.epoch, leaseEpoch |-> claimed[o]]]
    /\ heartbeat' = [heartbeat EXCEPT ![o] = TRUE]
    /\ claimed' = [claimed EXCEPT ![o] = 0]
    /\ pc' = [pc EXCEPT ![o] = "idle"]
    /\ UNCHANGED <<run, lease, retiring>>

\* acquire refused, because the lease lapsed since the claim: _activate has
\* already stored the lease, the drain of resolved waits has not.
AcquireConflict(o) ==
    /\ pc[o] \in {"acquire", "acquireWake"}
    /\ ~RequireRuntimeLease(o, claimed[o])
    /\ heldLease' = IF pc[o] = "acquire"
                    THEN [heldLease EXCEPT ![o] = claimed[o]] ELSE heldLease
    /\ claimed' = [claimed EXCEPT ![o] = 0]
    /\ pc' = [pc EXCEPT ![o] = "idle"]
    /\ UNCHANGED <<run, lease, fence, heldFence, heartbeat, retiring>>

-----------------------------------------------------------------------------
(* Keeping and losing the lease: _heartbeat, release, close, a crash.      *)

\* Faulty: renew_runtime_lease without the test of expires_at.
RenewLapsedLease(o) ==
    /\ pc[o] = "idle" /\ heartbeat[o] /\ ~IsRetiring(o) /\ heldLease[o] # 0
    /\ lease.owner = o /\ lease.epoch = heldLease[o]
    /\ lease' = [lease EXCEPT !.ttl = TTL]
    /\ UNCHANGED <<run, fence, heldLease, heldFence, heartbeat, retiring, claimed, pc>>

\* renew_runtime_lease by the heartbeat task.
RenewLease(o) ==
    /\ pc[o] = "idle" /\ heartbeat[o] /\ ~IsRetiring(o) /\ heldLease[o] # 0
    /\ RequireRuntimeLease(o, heldLease[o])
    /\ lease' = [lease EXCEPT !.ttl = TTL]
    /\ UNCHANGED <<run, fence, heldLease, heldFence, heartbeat, retiring, claimed, pc>>

\* renew_runtime_lease conflicts: the heartbeat captures what it lost.
HeartbeatLost(o) ==
    /\ pc[o] = "idle" /\ heartbeat[o] /\ ~IsRetiring(o) /\ heldLease[o] # 0
    /\ ~RequireRuntimeLease(o, heldLease[o])
    /\ retiring' = [retiring EXCEPT ![o] =
                       [lease |-> heldLease[o], fence |-> heldFence[o].epoch]]
    /\ UNCHANGED <<run, lease, fence, heldLease, heldFence, heartbeat, claimed, pc>>

\* The rest of the heartbeat's conflict branch, once the driver has ended.  What
\* a different epoch installed meanwhile stays, but its heartbeat is this task.
RetireDone(o) ==
    /\ pc[o] = "idle" /\ IsRetiring(o)
    /\ heldLease' = IF heldLease[o] = retiring[o].lease
                    THEN [heldLease EXCEPT ![o] = 0] ELSE heldLease
    /\ heldFence' = IF /\ heldLease[o] \in {0, retiring[o].lease}
                       /\ heldFence[o].epoch = retiring[o].fence
                    THEN [heldFence EXCEPT ![o] = NoFence] ELSE heldFence
    /\ fence' = FenceReleasedBy(o, retiring[o].fence)
    /\ heartbeat' = [heartbeat EXCEPT ![o] = FALSE]
    /\ retiring' = [retiring EXCEPT ![o] = NotRetiring]
    /\ UNCHANGED <<run, lease, claimed, pc>>

\* _abandon_run_authority, and the release loop of close: first the fence ...
AbandonRunAuthority(o) ==
    /\ pc[o] = "idle"
    /\ fence' = FenceReleasedBy(o, heldFence[o].epoch)
    /\ heldFence' = [heldFence EXCEPT ![o] = NoFence]
    /\ pc' = [pc EXCEPT ![o] = "release"]
    /\ UNCHANGED <<run, lease, heldLease, heartbeat, retiring, claimed>>

\* ... or, after a terminal commit has taken the fence, straight to ...
BeginRelease(o) ==
    /\ pc[o] = "idle"
    /\ pc' = [pc EXCEPT ![o] = "release"]
    /\ UNCHANGED <<run, lease, fence, heldLease, heldFence, heartbeat, retiring, claimed>>

\* ... _release_runtime_lease: the lease lapses now if it is still this epoch,
\* whether or not it is live, and the heartbeat task is cancelled.
ReleaseRuntimeLease(o) ==
    /\ pc[o] = "release"
    /\ lease' = IF lease.owner = o /\ lease.epoch = heldLease[o]
                THEN [lease EXCEPT !.ttl = 0] ELSE lease
    /\ heldLease' = [heldLease EXCEPT ![o] = 0]
    /\ heartbeat' = [heartbeat EXCEPT ![o] = FALSE]
    /\ retiring' = [retiring EXCEPT ![o] = NotRetiring]
    /\ pc' = [pc EXCEPT ![o] = "idle"]
    /\ UNCHANGED <<run, fence, heldFence, claimed>>

\* The process dies.  A process started later may use the same owner_id.
Crash(o) ==
    /\ heldLease' = [heldLease EXCEPT ![o] = 0]
    /\ heldFence' = [heldFence EXCEPT ![o] = NoFence]
    /\ heartbeat' = [heartbeat EXCEPT ![o] = FALSE]
    /\ retiring' = [retiring EXCEPT ![o] = NotRetiring]
    /\ claimed' = [claimed EXCEPT ![o] = 0]
    /\ pc' = [pc EXCEPT ![o] = "idle"]
    /\ UNCHANGED <<run, lease, fence>>

\* Time passes.
Tick ==
    /\ Live
    /\ lease' = [lease EXCEPT !.ttl = @ - 1]
    /\ UNCHANGED <<run, fence, heldLease, heldFence, heartbeat, retiring, claimed, pc>>

-----------------------------------------------------------------------------
(* Writes of the Run row.                                                  *)

kernelVars == <<heldLease, heartbeat, retiring, claimed, pc>>

\* commit_root_terminal_with_deliveries: both checks, then the fence is released
\* and the Run closed, in one transaction; _terminalize drops the local fence.
CommitRootTerminal(o, s) ==
    /\ pc[o] = "idle"
    /\ run.state \notin Terminal
    /\ HasAuthority(o)
    /\ SetRun(s)
    /\ fence' = [fence EXCEPT !.active = FALSE]
    /\ heldFence' = [heldFence EXCEPT ![o] = NoFence]
    /\ UNCHANGED <<lease, kernelVars>>

\* commit_runtime_state(waiting) and commit_runtime_wait_with_blocker: the lease
\* is checked, the fence is not; any state but a terminal one is overwritten.
CommitRuntimeState(o) ==
    /\ pc[o] = "idle"
    /\ run.state \notin Terminal
    /\ RequireRuntimeLease(o, heldLease[o])
    /\ SetRun("waiting")
    /\ UNCHANGED <<lease, fence, heldFence, kernelVars>>

\* Faulty: a cancel is accepted of a Run that has ended.
RequestEndedRunCancel ==
    /\ run.state # "cancel_requested"
    /\ SetRun("cancel_requested")
    /\ UNCHANGED <<lease, fence, heldFence, kernelVars>>

\* _request_run_cancel_on_connection, from any process.
RequestRunCancel ==
    /\ run.state \notin Terminal \cup {"cancel_requested"}
    /\ SetRun("cancel_requested")
    /\ UNCHANGED <<lease, fence, heldFence, kernelVars>>

\* commit_decision with a new OPEN decision: the Run row is set to waiting
\* whatever its state and whoever holds the lease.
CommitDecisionOpen ==
    /\ SetRun("waiting")
    /\ UNCHANGED <<lease, fence, heldFence, kernelVars>>

\* commit_decision resolving an open decision, from any process.
CommitDecisionResolved(s) ==
    /\ run.state = "waiting"
    /\ SetRun(s)
    /\ UNCHANGED <<lease, fence, heldFence, kernelVars>>

-----------------------------------------------------------------------------

KernelStep(o) ==
    \/ ClaimRuntimeActivation(o)
    \/ ConsumeResolvedWait(o)
    \/ AcquireFence(o)
    \/ AcquireConflict(o)
    \/ RenewLease(o)
    \/ HeartbeatLost(o)
    \/ RetireDone(o)
    \/ AbandonRunAuthority(o)
    \/ BeginRelease(o)
    \/ ReleaseRuntimeLease(o)
    \/ \E s \in Terminal : CommitRootTerminal(o, s)
    \/ CommitRuntimeState(o)

Next ==
    \/ \E o \in Owners : KernelStep(o) \/ Crash(o)
    \/ Tick
    \/ RequestRunCancel
    \/ CommitDecisionOpen
    \/ \E s \in {"queued", "failed"} : CommitDecisionResolved(s)

Spec == Init /\ [][Next]_authorityVars

-----------------------------------------------------------------------------
(* Properties.                                                             *)

\* Type correctness of the rows and of the kernels' dictionaries.
TypeOK ==
    /\ run \in [state : RunStates, version : Nat]
    /\ lease \in [owner : Owners \cup {NoOwner}, epoch : Nat, ttl : Nat]
    /\ fence \in [owner : Owners \cup {NoOwner}, leaseEpoch : Nat,
                  epoch : Nat, active : BOOLEAN]
    /\ heldLease \in [Owners -> Nat]
    /\ heldFence \in [Owners -> [epoch : Nat, leaseEpoch : Nat]]
    /\ heartbeat \in [Owners -> BOOLEAN]
    /\ retiring \in [Owners -> [lease : Nat, fence : Nat]]
    /\ claimed \in [Owners -> Nat]
    /\ pc \in [Owners -> {"idle", "acquire", "acquireWake", "release"}]

\* The fence never belongs to a later lease than the lease row, and when it
\* belongs to the current one they have the same owner.  Waking a resolved wait
\* computes the next lease epoch without looking at run_fences; it is safe only
\* because of this.
FenceBehindLease ==
    /\ fence.leaseEpoch <= lease.epoch
    /\ fence.leaseEpoch = lease.epoch => fence.owner = lease.owner

\* The lease epochs a kernel remembers, in whatever dictionary.
KnownEpochs(o) == {heldLease[o], claimed[o], retiring[o].lease} \ {0}

\* A remembered lease epoch was issued, and the current one only to the owner
\* named in the row.
LeaseTokensIssued ==
    \A o \in Owners : \A e \in KnownEpochs(o) :
        /\ e <= lease.epoch
        /\ e = lease.epoch => lease.owner = o

\* A remembered fence token was issued; the current one was issued to the owner
\* in the row and for the lease in the row.
FenceTokensIssued ==
    \A o \in Owners :
        /\ heldFence[o].epoch <= fence.epoch
        /\ retiring[o].fence <= fence.epoch
        /\ heldFence[o].epoch # 0 /\ heldFence[o].epoch = fence.epoch =>
              fence.owner = o /\ fence.leaseEpoch = heldFence[o].leaseEpoch
        /\ retiring[o].fence # 0 /\ retiring[o].fence = fence.epoch =>
              fence.owner = o

\* No two kernels ever remember the same lease epoch or the same fence epoch,
\* however they crashed, retired or raced for the Run: an epoch names one
\* owner, which is what the rows fenced with it (effects, provider calls,
\* continuations) rely on.
EpochsNotShared ==
    \A o, p \in Owners : o # p =>
        /\ KnownEpochs(o) \cap KnownEpochs(p) = {}
        /\ heldFence[o].epoch # 0 => heldFence[o].epoch # heldFence[p].epoch

\* The inductive invariant of the authority protocol.
AuthorityInv ==
    /\ TypeOK
    /\ FenceBehindLease
    /\ LeaseTokensIssued
    /\ FenceTokensIssued
    /\ EpochsNotShared

\* Would an already issued fence token, of owner o, lease epoch e and fence epoch
\* f, pass both checks of a fenced write?
TokenValid(o, e, f) ==
    /\ RequireRuntimeLease(o, e)
    /\ RequireRunFence(o, [epoch |-> f, leaseEpoch |-> e], e)

\* Authority once lost stays lost: no step makes an issued token that the fenced
\* writes refuse acceptable again, so a driver, a late callback or a restarted
\* process working with an old token can never write after a gap in its lease.
StaleAuthorityNeverRevives ==
    [][\A o \in Owners, e \in 1..MaxLeaseEpoch, f \in 1..MaxFenceEpoch :
          f <= fence.epoch /\ ~TokenValid(o, e, f) => ~TokenValid(o, e, f)'
      ]_authorityVars

\* The lease changes hands, or revives after it lapsed, only with a larger epoch,
\* and the fence only with a larger fence epoch.
TakeoverRaisesEpoch ==
    [][/\ lease.epoch <= lease'.epoch /\ fence.epoch <= fence'.epoch
       /\ lease'.owner # lease.owner \/ (~Live /\ Live') => lease'.epoch > lease.epoch
       /\ fence'.owner # fence.owner \/ (~fence.active /\ fence'.active)
             => fence'.epoch > fence.epoch
      ]_authorityVars

=============================================================================
