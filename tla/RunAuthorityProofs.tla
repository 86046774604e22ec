------------------------- MODULE RunAuthorityProofs -------------------------
(***************************************************************************)
(* The authority protocol of RunAuthority, proved for every set of owners, *)
(* every time to live and every bound on epochs and versions.              *)
(***************************************************************************)
EXTENDS RunAuthority, TLAPS

\* The steps that write neither a lease nor a fence nor what a kernel remembers.
RunOnlyStep ==
    \/ \E o \in Owners : CommitRuntimeState(o)
    \/ RequestRunCancel
    \/ CommitDecisionOpen
    \/ \E s \in {"queued", "failed"} : CommitDecisionResolved(s)

\* A step of Next that only writes the Run leaves the authority state alone.
LEMMA RunOnlyFrame ==
    RunOnlyStep => UNCHANGED <<lease, fence, heldLease, heldFence, heartbeat,
                               retiring, claimed, pc>>
BY DEF RunOnlyStep, CommitRuntimeState, RequestRunCancel, CommitDecisionOpen,
       CommitDecisionResolved, kernelVars

\* A run write keeps the row well typed.
LEMMA SetRunType ==
    ASSUME run \in [state : RunStates, version : Nat],
           NEW s \in RunStates, SetRun(s)
    PROVE  run' \in [state : RunStates, version : Nat]
BY DEF SetRun

\* Releasing a fence deactivates it at most, and keeps its epochs and owner.
LEMMA FenceReleasedByFacts ==
    ASSUME fence \in [owner : Owners \cup {NoOwner}, leaseEpoch : Nat,
                      epoch : Nat, active : BOOLEAN],
           NEW o, NEW e
    PROVE  /\ FenceReleasedBy(o, e) \in [owner : Owners \cup {NoOwner},
                 leaseEpoch : Nat, epoch : Nat, active : BOOLEAN]
           /\ FenceReleasedBy(o, e).owner = fence.owner
           /\ FenceReleasedBy(o, e).leaseEpoch = fence.leaseEpoch
           /\ FenceReleasedBy(o, e).epoch = fence.epoch
           /\ FenceReleasedBy(o, e).active => fence.active
BY DEF FenceReleasedBy

\* The two ways a claim ends: a live own lease is kept, or the next epoch taken.
LEMMA ClaimCases ==
    ASSUME NEW o \in Owners, ClaimRuntimeActivation(o)
    PROVE  \/ /\ Live /\ lease.owner = o /\ lease' = lease
              /\ claimed' = [claimed EXCEPT ![o] = lease.epoch]
           \/ /\ ~Live
              /\ lease' = [owner |-> o, epoch |-> ClaimedEpoch, ttl |-> TTL]
              /\ claimed' = [claimed EXCEPT ![o] = ClaimedEpoch]
BY DEF ClaimRuntimeActivation

\* A claimed epoch is later than the lease and the fence.
LEMMA ClaimedEpochFacts ==
    ASSUME TypeOK
    PROVE  /\ ClaimedEpoch \in Nat
           /\ ClaimedEpoch > lease.epoch
           /\ ClaimedEpoch > fence.leaseEpoch
<1>1. lease.epoch \in Nat /\ fence.leaseEpoch \in Nat
  BY DEF TypeOK
<1> QED BY <1>1 DEF ClaimedEpoch

\* The two ways a fence is acquired: it was active already, or a new epoch.
LEMMA AcquireCases ==
    ASSUME NEW o \in Owners, AcquireFence(o)
    PROVE  \/ fence' = fence /\ fence.owner = o /\ fence.leaseEpoch = claimed[o]
           \/ fence' = [owner |-> o, leaseEpoch |-> claimed[o],
                        epoch |-> fence.epoch + 1, active |-> TRUE]
BY DEF AcquireFence

-----------------------------------------------------------------------------

\* Every step preserves the types of the rows and of the dictionaries.
LEMMA TypeStep == TypeOK /\ [Next]_authorityVars => TypeOK'
<1> USE AuthorityConstants
<1> SUFFICES ASSUME TypeOK, [Next]_authorityVars PROVE TypeOK'
  OBVIOUS
<1>1. ASSUME NEW o \in Owners, ClaimRuntimeActivation(o) PROVE TypeOK'
  <2>1. run' \in [state : RunStates, version : Nat]
    BY <1>1, SetRunType DEF ClaimRuntimeActivation, TypeOK, RunStates
  <2>2. /\ lease' \in [owner : Owners \cup {NoOwner}, epoch : Nat, ttl : Nat]
        /\ claimed' \in [Owners -> Nat]
    BY <1>1, ClaimCases, ClaimedEpochFacts DEF TypeOK
  <2> QED BY <1>1, <2>1, <2>2 DEF ClaimRuntimeActivation, TypeOK
<1>2. ASSUME NEW o \in Owners, ConsumeResolvedWait(o) PROVE TypeOK'
  <2>1. run' \in [state : RunStates, version : Nat]
    BY <1>2, SetRunType DEF ConsumeResolvedWait, TypeOK, RunStates
  <2> QED BY <1>2, <2>1 DEF ConsumeResolvedWait, TypeOK
<1>3. ASSUME NEW o \in Owners, AcquireFence(o) PROVE TypeOK'
  <2>1. fence' \in [owner : Owners \cup {NoOwner}, leaseEpoch : Nat,
                    epoch : Nat, active : BOOLEAN]
    <3>1. claimed[o] \in Nat /\ fence.epoch + 1 \in Nat
      BY DEF TypeOK
    <3>2. CASE fence' = fence
      BY <3>2 DEF TypeOK
    <3>3. CASE fence' = [owner |-> o, leaseEpoch |-> claimed[o],
                         epoch |-> fence.epoch + 1, active |-> TRUE]
      BY <3>1, <3>3
    <3> QED BY <1>3, <3>2, <3>3, AcquireCases
  <2> QED BY <1>3, <2>1 DEF AcquireFence, TypeOK
<1>4. ASSUME NEW o \in Owners, AcquireConflict(o) PROVE TypeOK'
  BY <1>4 DEF AcquireConflict, TypeOK
<1>5. ASSUME NEW o \in Owners, RenewLease(o) PROVE TypeOK'
  BY <1>5 DEF RenewLease, TypeOK
<1>6. ASSUME NEW o \in Owners, HeartbeatLost(o) PROVE TypeOK'
  BY <1>6 DEF HeartbeatLost, TypeOK
<1>7. ASSUME NEW o \in Owners, RetireDone(o) PROVE TypeOK'
  <2>1. fence' \in [owner : Owners \cup {NoOwner}, leaseEpoch : Nat,
                    epoch : Nat, active : BOOLEAN]
    BY <1>7, FenceReleasedByFacts DEF RetireDone, TypeOK
  <2> QED BY <1>7, <2>1 DEF RetireDone, TypeOK, NoFence, NotRetiring
<1>8. ASSUME NEW o \in Owners, AbandonRunAuthority(o) PROVE TypeOK'
  <2>1. fence' \in [owner : Owners \cup {NoOwner}, leaseEpoch : Nat,
                    epoch : Nat, active : BOOLEAN]
    BY <1>8, FenceReleasedByFacts DEF AbandonRunAuthority, TypeOK
  <2> QED BY <1>8, <2>1 DEF AbandonRunAuthority, TypeOK, NoFence
<1>9. ASSUME NEW o \in Owners, BeginRelease(o) PROVE TypeOK'
  BY <1>9 DEF BeginRelease, TypeOK
<1>10. ASSUME NEW o \in Owners, ReleaseRuntimeLease(o) PROVE TypeOK'
  BY <1>10 DEF ReleaseRuntimeLease, TypeOK, NotRetiring
<1>11. ASSUME NEW o \in Owners, Crash(o) PROVE TypeOK'
  BY <1>11 DEF Crash, TypeOK, NoFence, NotRetiring
<1>12. ASSUME NEW o \in Owners, NEW s \in Terminal, CommitRootTerminal(o, s)
       PROVE TypeOK'
  <2>1. run' \in [state : RunStates, version : Nat]
    BY <1>12, SetRunType DEF CommitRootTerminal, TypeOK, RunStates
  <2> QED BY <1>12, <2>1 DEF CommitRootTerminal, TypeOK, NoFence, kernelVars
<1>13. ASSUME Tick PROVE TypeOK'
  BY <1>13 DEF Tick, TypeOK, Live
<1>14. ASSUME RunOnlyStep PROVE TypeOK'
  <2>1. run' \in [state : RunStates, version : Nat]
    BY <1>14, SetRunType DEF RunOnlyStep, CommitRuntimeState, RequestRunCancel,
       CommitDecisionOpen, CommitDecisionResolved, TypeOK, RunStates, Terminal
  <2> QED BY <1>14, <2>1, RunOnlyFrame DEF TypeOK
<1>15. ASSUME UNCHANGED authorityVars PROVE TypeOK'
  BY <1>15 DEF authorityVars, TypeOK
<1> QED
  BY <1>1, <1>2, <1>3, <1>4, <1>5, <1>6, <1>7, <1>8, <1>9, <1>10, <1>11,
     <1>12, <1>13, <1>14, <1>15 DEF Next, KernelStep, RunOnlyStep

-----------------------------------------------------------------------------

\* A claim by o: the lease row names o, with a later epoch or with the one it
\* had, and o remembers it.  The fence need not be looked at.
LEMMA ClaimPreserves ==
    ASSUME AuthorityInv, TypeOK', NEW o \in Owners,
           lease'.epoch >= lease.epoch,
           lease'.epoch = lease.epoch => lease'.owner = lease.owner,
           lease'.owner = o, claimed'[o] = lease'.epoch,
           \A p \in Owners \ {o} : claimed'[p] = claimed[p],
           UNCHANGED <<fence, heldLease, heldFence, heartbeat, retiring>>
    PROVE  AuthorityInv'
<1>t. /\ TypeOK
      /\ lease.epoch \in Nat /\ lease'.epoch \in Nat /\ fence.leaseEpoch \in Nat
  BY DEF AuthorityInv, TypeOK
<1>1. /\ KnownEpochs(o)' \subseteq KnownEpochs(o) \cup {lease'.epoch}
      /\ \A p \in Owners \ {o} : KnownEpochs(p)' = KnownEpochs(p)
  BY DEF KnownEpochs
<1>2. \A p \in Owners : KnownEpochs(p) \subseteq Nat
  BY <1>t DEF KnownEpochs, TypeOK
<1>3. FenceBehindLease'
  BY <1>t DEF AuthorityInv, FenceBehindLease
<1>4. LeaseTokensIssued'
  BY <1>t, <1>1, <1>2 DEF AuthorityInv, LeaseTokensIssued
<1>5. FenceTokensIssued'
  BY DEF AuthorityInv, FenceTokensIssued
<1>6. \A p \in Owners \ {o} : lease'.epoch \notin KnownEpochs(p)
  BY <1>t, <1>2 DEF AuthorityInv, LeaseTokensIssued
<1>7. EpochsNotShared'
  BY <1>1, <1>6 DEF AuthorityInv, EpochsNotShared
<1> QED BY <1>3, <1>4, <1>5, <1>7 DEF AuthorityInv

\* Every step preserves the authority invariant.
LEMMA AuthorityStep == AuthorityInv /\ [Next]_authorityVars => AuthorityInv'
<1> USE AuthorityConstants
<1> SUFFICES ASSUME AuthorityInv, [Next]_authorityVars PROVE AuthorityInv'
  OBVIOUS
<1>t. TypeOK /\ TypeOK'
  BY TypeStep DEF AuthorityInv
<1>1. ASSUME NEW o \in Owners, ClaimRuntimeActivation(o) PROVE AuthorityInv'
  <2>1. /\ lease'.epoch >= lease.epoch
        /\ lease'.epoch = lease.epoch => lease'.owner = lease.owner
        /\ lease'.owner = o /\ claimed'[o] = lease'.epoch
        /\ \A p \in Owners \ {o} : claimed'[p] = claimed[p]
    BY <1>1, <1>t, ClaimCases, ClaimedEpochFacts DEF TypeOK
  <2>2. UNCHANGED <<fence, heldLease, heldFence, heartbeat, retiring>>
    BY <1>1 DEF ClaimRuntimeActivation
  <2> QED BY <1>t, <2>1, <2>2, ClaimPreserves
<1>2. ASSUME NEW o \in Owners, ConsumeResolvedWait(o) PROVE AuthorityInv'
  <2>1. /\ lease'.epoch >= lease.epoch
        /\ lease'.epoch = lease.epoch => lease'.owner = lease.owner
        /\ lease'.owner = o /\ claimed'[o] = lease'.epoch
        /\ \A p \in Owners \ {o} : claimed'[p] = claimed[p]
    BY <1>2, <1>t DEF ConsumeResolvedWait, TypeOK
  <2>2. UNCHANGED <<fence, heldLease, heldFence, heartbeat, retiring>>
    BY <1>2 DEF ConsumeResolvedWait
  <2> QED BY <1>t, <2>1, <2>2, ClaimPreserves
<1>3. ASSUME NEW o \in Owners, AcquireFence(o) PROVE AuthorityInv'
  <2>1. /\ fence'.owner = o /\ fence'.leaseEpoch = claimed[o]
        /\ fence'.epoch >= fence.epoch
        /\ fence'.epoch = fence.epoch => fence' = fence
    BY <1>3, <1>t, AcquireCases DEF TypeOK
  <2>0. /\ lease' = lease /\ lease.owner = o /\ lease.epoch = claimed[o]
        /\ retiring' = retiring
    BY <1>3 DEF AcquireFence, RequireRuntimeLease
  <2>2. /\ heldLease'[o] = claimed[o] /\ claimed'[o] = 0
        /\ heldFence'[o] = [epoch |-> fence'.epoch, leaseEpoch |-> claimed[o]]
        /\ \A p \in Owners \ {o} : /\ heldLease'[p] = heldLease[p]
                                   /\ claimed'[p] = claimed[p]
                                   /\ heldFence'[p] = heldFence[p]
    BY <1>3, <1>t DEF AcquireFence, TypeOK
  <2>3. FenceBehindLease'
    BY <1>t, <2>0, <2>1 DEF FenceBehindLease, TypeOK
  <2>4. LeaseTokensIssued'
    BY <1>t, <2>0, <2>1, <2>2 DEF AuthorityInv, LeaseTokensIssued, KnownEpochs, TypeOK
  <2>n. /\ fence.epoch \in Nat /\ fence'.epoch \in Nat
        /\ \A p \in Owners : heldFence[p].epoch \in Nat /\ retiring[p].fence \in Nat
    BY <1>t DEF TypeOK
  <2>f. /\ heldFence'[o].epoch = fence'.epoch
        /\ heldFence'[o].leaseEpoch = claimed[o]
    BY <2>2
  <2>5. FenceTokensIssued'
    BY <2>n, <2>0, <2>1, <2>2, <2>f DEF AuthorityInv, FenceTokensIssued
  <2>6. EpochsNotShared'
    <3>1. \A p \in Owners : KnownEpochs(p)' \subseteq KnownEpochs(p)
      BY <2>0, <2>2 DEF KnownEpochs
    <3>2. \A p \in Owners \ {o} :
            heldFence[p].epoch # 0 => heldFence[p].epoch # fence'.epoch
      BY <2>n, <2>1 DEF AuthorityInv, FenceTokensIssued
    <3>3. \A p \in Owners \ {o} :
            heldFence'[o].epoch # 0 => heldFence'[o].epoch # heldFence'[p].epoch
      BY <2>2, <2>f, <3>2
    <3> QED BY <2>2, <2>f, <3>1, <3>2, <3>3 DEF AuthorityInv, EpochsNotShared
  <2> QED BY <1>t, <2>3, <2>4, <2>5, <2>6 DEF AuthorityInv
<1>4. ASSUME NEW o \in Owners, AcquireConflict(o) PROVE AuthorityInv'
  <2>1. /\ heldLease'[o] \in {heldLease[o], claimed[o]} /\ claimed'[o] = 0
        /\ \A p \in Owners \ {o} : /\ heldLease'[p] = heldLease[p]
                                   /\ claimed'[p] = claimed[p]
        /\ UNCHANGED <<lease, fence, heldFence, retiring>>
    BY <1>4, <1>t DEF AcquireConflict, TypeOK
  <2>2. \A p \in Owners : KnownEpochs(p)' \subseteq KnownEpochs(p)
    BY <2>1 DEF KnownEpochs
  <2> QED
    BY <1>t, <2>1, <2>2 DEF AuthorityInv, FenceBehindLease, LeaseTokensIssued,
       FenceTokensIssued, EpochsNotShared
<1>5. ASSUME NEW o \in Owners, RenewLease(o) PROVE AuthorityInv'
  <2>1. /\ lease'.owner = lease.owner /\ lease'.epoch = lease.epoch
        /\ UNCHANGED <<fence, heldLease, heldFence, retiring, claimed>>
    BY <1>5, <1>t DEF RenewLease, TypeOK
  <2> QED
    BY <1>t, <2>1 DEF AuthorityInv, FenceBehindLease, LeaseTokensIssued,
       FenceTokensIssued, EpochsNotShared, KnownEpochs
<1>6. ASSUME NEW o \in Owners, HeartbeatLost(o) PROVE AuthorityInv'
  <2>1. /\ retiring'[o] = [lease |-> heldLease[o], fence |-> heldFence[o].epoch]
        /\ \A p \in Owners \ {o} : retiring'[p] = retiring[p]
        /\ UNCHANGED <<lease, fence, heldLease, heldFence, claimed>>
    BY <1>6, <1>t DEF HeartbeatLost, TypeOK
  <2>2. \A p \in Owners : KnownEpochs(p)' \subseteq KnownEpochs(p)
    BY <2>1 DEF KnownEpochs
  <2>3. FenceTokensIssued'
    BY <2>1 DEF AuthorityInv, FenceTokensIssued
  <2> QED
    BY <1>t, <2>1, <2>2, <2>3 DEF AuthorityInv, FenceBehindLease,
       LeaseTokensIssued, EpochsNotShared
<1>7. ASSUME NEW o \in Owners,
             RetireDone(o) \/ AbandonRunAuthority(o) \/ BeginRelease(o)
             \/ ReleaseRuntimeLease(o) \/ Crash(o)
      PROVE AuthorityInv'
  <2>1. /\ fence'.owner = fence.owner /\ fence'.leaseEpoch = fence.leaseEpoch
        /\ fence'.epoch = fence.epoch
    BY <1>7, <1>t, FenceReleasedByFacts DEF RetireDone, AbandonRunAuthority,
       BeginRelease, ReleaseRuntimeLease, Crash, TypeOK
  <2>2. /\ lease'.owner = lease.owner /\ lease'.epoch = lease.epoch
    BY <1>7, <1>t DEF RetireDone, AbandonRunAuthority, BeginRelease,
       ReleaseRuntimeLease, Crash, TypeOK
  <2>3. \A p \in Owners : /\ heldLease'[p] \in {heldLease[p], 0}
                          /\ claimed'[p] \in {claimed[p], 0}
                          /\ heldFence'[p] \in {heldFence[p], NoFence}
                          /\ retiring'[p] \in {retiring[p], NotRetiring}
    BY <1>7, <1>t DEF RetireDone, AbandonRunAuthority, BeginRelease,
       ReleaseRuntimeLease, Crash, TypeOK
  <2>4. \A p \in Owners : KnownEpochs(p)' \subseteq KnownEpochs(p)
    BY <2>3 DEF KnownEpochs, NotRetiring
  <2>5. FenceTokensIssued'
    BY <1>t, <2>1, <2>3 DEF AuthorityInv, FenceTokensIssued, NoFence,
       NotRetiring, TypeOK
  <2>6. EpochsNotShared'
    <3>1. \A p \in Owners : /\ heldFence'[p].epoch \in {heldFence[p].epoch, 0}
      BY <2>3 DEF NoFence
    <3> QED BY <2>4, <3>1 DEF AuthorityInv, EpochsNotShared
  <2> QED
    BY <1>t, <2>1, <2>2, <2>4, <2>5, <2>6 DEF AuthorityInv, FenceBehindLease,
       LeaseTokensIssued
<1>8. ASSUME NEW o \in Owners, NEW s \in Terminal, CommitRootTerminal(o, s)
      PROVE AuthorityInv'
  <2>1. /\ fence'.owner = fence.owner /\ fence'.leaseEpoch = fence.leaseEpoch
        /\ fence'.epoch = fence.epoch
        /\ \A p \in Owners : heldFence'[p] \in {heldFence[p], NoFence}
        /\ UNCHANGED <<lease, heldLease, retiring, claimed>>
    BY <1>8, <1>t DEF CommitRootTerminal, kernelVars, TypeOK
  <2>2. FenceTokensIssued'
    BY <1>t, <2>1 DEF AuthorityInv, FenceTokensIssued, NoFence, TypeOK
  <2>3. EpochsNotShared'
    <3>1. \A p \in Owners : /\ heldFence'[p].epoch \in {heldFence[p].epoch, 0}
                            /\ KnownEpochs(p)' = KnownEpochs(p)
      BY <2>1 DEF NoFence, KnownEpochs
    <3> QED BY <3>1 DEF AuthorityInv, EpochsNotShared
  <2> QED
    BY <1>t, <2>1, <2>2, <2>3 DEF AuthorityInv, FenceBehindLease,
       LeaseTokensIssued, KnownEpochs
<1>9. ASSUME Tick PROVE AuthorityInv'
  <2>1. /\ lease'.owner = lease.owner /\ lease'.epoch = lease.epoch
        /\ UNCHANGED <<fence, heldLease, heldFence, retiring, claimed>>
    BY <1>9, <1>t DEF Tick, TypeOK
  <2> QED
    BY <1>t, <2>1 DEF AuthorityInv, FenceBehindLease, LeaseTokensIssued,
       FenceTokensIssued, EpochsNotShared, KnownEpochs
<1>10. ASSUME RunOnlyStep \/ UNCHANGED authorityVars PROVE AuthorityInv'
  <2>1. UNCHANGED <<lease, fence, heldLease, heldFence, retiring, claimed>>
    BY <1>10, RunOnlyFrame DEF authorityVars
  <2> QED
    BY <1>t, <2>1 DEF AuthorityInv, FenceBehindLease, LeaseTokensIssued,
       FenceTokensIssued, EpochsNotShared, KnownEpochs
<1> QED
  BY <1>1, <1>2, <1>3, <1>4, <1>5, <1>6, <1>7, <1>8, <1>9, <1>10
     DEF Next, KernelStep, RunOnlyStep

\* Nothing is held before the first activation.
LEMMA AuthorityInit == Init => AuthorityInv
BY AuthorityConstants DEF Init, AuthorityInv, TypeOK, FenceBehindLease,
   LeaseTokensIssued, FenceTokensIssued, EpochsNotShared, KnownEpochs, NoFence,
   NotRetiring, RunStates

\* The rows and the kernels' dictionaries keep their types.
THEOREM TypeCorrect == Spec => []TypeOK
<1>1. Init => TypeOK
  BY AuthorityInit DEF AuthorityInv
<1> QED BY <1>1, TypeStep, PTL DEF Spec

\* The authority invariant, with it that an epoch names one owner for ever and
\* that the fence never runs ahead of the lease, holds in every behaviour.
THEOREM AuthorityInvariant == Spec => []AuthorityInv
BY AuthorityInit, AuthorityStep, PTL DEF Spec

-----------------------------------------------------------------------------

\* What a step may do to the two rows the checks read.
LEMMA RowSteps ==
    ASSUME AuthorityInv, [Next]_authorityVars
    PROVE  \/ /\ lease'.owner = lease.owner /\ lease'.epoch = lease.epoch
              /\ lease'.ttl > 0 => lease.ttl > 0
              /\ fence' = fence \/ fence'.epoch = fence.epoch + 1
                 \/ (fence' = [fence EXCEPT !.active = FALSE])
           \/ lease'.epoch > fence.leaseEpoch /\ lease'.epoch > lease.epoch /\ fence' = fence
<1> USE AuthorityConstants
<1> DEFINE G == \/ /\ lease'.owner = lease.owner /\ lease'.epoch = lease.epoch
                   /\ lease'.ttl > 0 => lease.ttl > 0
                   /\ fence' = fence \/ fence'.epoch = fence.epoch + 1
                      \/ (fence' = [fence EXCEPT !.active = FALSE])
                \/ lease'.epoch > fence.leaseEpoch /\ lease'.epoch > lease.epoch /\ fence' = fence
<1>t. TypeOK /\ FenceBehindLease
  BY DEF AuthorityInv
<1>1. ASSUME NEW o \in Owners, ClaimRuntimeActivation(o) PROVE G
  <2>1. fence' = fence
    BY <1>1 DEF ClaimRuntimeActivation
  <2> QED BY <1>1, <1>t, <2>1, ClaimCases, ClaimedEpochFacts
<1>2. ASSUME NEW o \in Owners, ConsumeResolvedWait(o) PROVE G
  BY <1>2, <1>t DEF ConsumeResolvedWait, TypeOK, FenceBehindLease, Live
<1>3. ASSUME NEW o \in Owners, AcquireFence(o) PROVE G
  BY <1>3, <1>t DEF AcquireFence, TypeOK
<1>4. ASSUME NEW o \in Owners,
             \/ AcquireConflict(o) \/ HeartbeatLost(o)
             \/ RetireDone(o) \/ AbandonRunAuthority(o) \/ BeginRelease(o)
             \/ Crash(o) \/ CommitRuntimeState(o)
      PROVE  G
  BY <1>4, <1>t DEF AcquireConflict, HeartbeatLost, RetireDone,
     AbandonRunAuthority, BeginRelease, Crash, CommitRuntimeState,
     FenceReleasedBy, TypeOK
<1>5. ASSUME NEW o \in Owners, RenewLease(o) PROVE G
  BY <1>5, <1>t DEF RenewLease, RequireRuntimeLease, Live, TypeOK
<1>6. ASSUME NEW o \in Owners, ReleaseRuntimeLease(o) PROVE G
  BY <1>6, <1>t DEF ReleaseRuntimeLease, TypeOK
<1>7. ASSUME NEW o \in Owners, NEW s \in Terminal, CommitRootTerminal(o, s)
      PROVE  G
  BY <1>7, <1>t DEF CommitRootTerminal, TypeOK
<1>8. ASSUME Tick PROVE G
  BY <1>8, <1>t DEF Tick, Live, TypeOK
<1>9. ASSUME RunOnlyStep \/ UNCHANGED authorityVars PROVE G
  BY <1>9, RunOnlyFrame DEF authorityVars
<1> QED
  BY <1>1, <1>2, <1>3, <1>4, <1>5, <1>6, <1>7, <1>8, <1>9
     DEF Next, KernelStep, RunOnlyStep

\* Authority once lost is never regained with the same token, whatever claims,
\* renewals, releases, crashes and restarts of whichever kernels come between.
THEOREM StaleAuthority == Spec => StaleAuthorityNeverRevives
<1>1. ASSUME AuthorityInv, [Next]_authorityVars,
             NEW o \in Owners, NEW e \in 1..MaxLeaseEpoch,
             NEW f \in 1..MaxFenceEpoch, f <= fence.epoch, ~TokenValid(o, e, f)
      PROVE  ~TokenValid(o, e, f)'
  <2>t. TypeOK /\ f \in Nat
    BY <1>1, AuthorityConstants DEF AuthorityInv
  <2>1. CASE /\ lease'.owner = lease.owner /\ lease'.epoch = lease.epoch
             /\ lease'.ttl > 0 => lease.ttl > 0
             /\ fence' = fence \/ fence'.epoch = fence.epoch + 1
                \/ (fence' = [fence EXCEPT !.active = FALSE])
    BY <1>1, <2>1, <2>t DEF TokenValid, RequireRuntimeLease, RequireRunFence,
       Live, TypeOK
  <2>2. CASE lease'.epoch > fence.leaseEpoch /\ lease'.epoch > lease.epoch /\ fence' = fence
    BY <1>1, <2>2, <2>t DEF TokenValid, RequireRuntimeLease, RequireRunFence,
       TypeOK
  <2> QED BY <1>1, <2>1, <2>2, RowSteps
<1>2. AuthorityInv /\ [Next]_authorityVars =>
        [\A o \in Owners, e \in 1..MaxLeaseEpoch, f \in 1..MaxFenceEpoch :
           f <= fence.epoch /\ ~TokenValid(o, e, f) => ~TokenValid(o, e, f)'
        ]_authorityVars
  BY <1>1
<1> QED
  BY <1>2, AuthorityInvariant, PTL DEF Spec, StaleAuthorityNeverRevives

\* The lease and the fence change hands, or come back after a gap, only with a
\* larger epoch.
THEOREM Takeover == Spec => TakeoverRaisesEpoch
<1> DEFINE P == /\ lease.epoch <= lease'.epoch /\ fence.epoch <= fence'.epoch
                /\ lease'.owner # lease.owner \/ (~Live /\ Live') => lease'.epoch > lease.epoch
                /\ fence'.owner # fence.owner \/ (~fence.active /\ fence'.active)
                      => fence'.epoch > fence.epoch
<1>1. ASSUME AuthorityInv, [Next]_authorityVars PROVE P
  <2>t. /\ lease.epoch \in Nat /\ lease'.epoch \in Nat
        /\ fence.epoch \in Nat /\ fence'.epoch \in Nat
        /\ fence \in [owner : Owners \cup {NoOwner}, leaseEpoch : Nat,
                      epoch : Nat, active : BOOLEAN]
    BY <1>1, TypeStep DEF AuthorityInv, TypeOK
  <2>1. CASE /\ lease'.owner = lease.owner /\ lease'.epoch = lease.epoch
             /\ lease'.ttl > 0 => lease.ttl > 0
             /\ fence' = fence \/ fence'.epoch = fence.epoch + 1
                \/ (fence' = [fence EXCEPT !.active = FALSE])
    BY <2>1, <2>t DEF Live
  <2>2. CASE lease'.epoch > fence.leaseEpoch /\ lease'.epoch > lease.epoch /\ fence' = fence
    BY <2>2, <2>t
  <2> QED BY <1>1, <2>1, <2>2, RowSteps
<1>2. AuthorityInv /\ [Next]_authorityVars => [P]_authorityVars
  BY <1>1
<1> QED
  BY <1>2, AuthorityInvariant, PTL DEF Spec, TakeoverRaisesEpoch

=============================================================================
