--------------------------- MODULE DeliveryOutbox ---------------------------
(***************************************************************************)
(* The terminal deliveries of a Run (table delivery_outbox) and the        *)
(* delivery pump of every kernel: DeliveryDispatcher.run_once claims a     *)
(* row, records the handoff, calls the sink and settles the row.  A claim  *)
(* has no owner and is not renewed; it is known by the row's version.      *)
(*                                                                         *)
(* DeliveryConflictError is caught nowhere between run_once and the task   *)
(* of the pump: a pump that meets it is dead until its kernel restarts.    *)
(***************************************************************************)
EXTENDS PumpFaults, FiniteSetsExt

CONSTANT MaxDeliveries  \* bound: deliveries of the Run, in the order of their claim

ASSUME DeliveryConstants == MaxDeliveries \in Nat

VARIABLES outbox,   \* delivery_outbox
          courier,  \* the delivery pump of each kernel
          received  \* history: how often the sink has accepted a delivery

deliveryVars == <<outbox, courier, received>>

Deliveries == 1..MaxDeliveries

NoDelivery  == [state |-> "none", version |-> 0, stale |-> FALSE]
IdleCourier == [at |-> "idle", on |-> 0, version |-> 0]

DeliveryInit ==
    /\ outbox = [d \in Deliveries |-> NoDelivery]
    /\ courier = [o \in Owners |-> IdleCourier]
    /\ received = [d \in Deliveries |-> 0]

-----------------------------------------------------------------------------
\* The rows a terminal commit inserts with the end of the Run.
InsertDeliveries(D) ==
    /\ outbox' = [d \in Deliveries |->
                     IF d \in D THEN [outbox[d] EXCEPT !.state = "pending"] ELSE outbox[d]]
    /\ UNCHANGED <<courier, received>>

\* Faulty: every claim counts as expired.
ExpiredAtOnce(row) ==
    IF row.state = "claimed"
    THEN [state |-> "pending", version |-> row.version + 1, stale |-> FALSE]
    ELSE row

\* Faulty: a claim never expires.
ExpiredNever(row) == row

Expired(row) ==
    IF row.state = "claimed" /\ row.stale
    THEN [state |-> "pending", version |-> row.version + 1, stale |-> FALSE]
    ELSE row

\* claim_delivery: expired claims become pending again, then the first pending
\* row is claimed, all in one transaction.
ClaimDelivery(o) ==
    LET rows    == [d \in Deliveries |-> Expired(outbox[d])]
        pending == {d \in Deliveries : rows[d].state = "pending"}
    IN  /\ courier[o].at = "idle"
        /\ pending # {}
        /\ LET d == Min(pending)
           IN  /\ outbox' = [rows EXCEPT ![d].state = "claimed", ![d].version = @ + 1]
               /\ courier' = [courier EXCEPT ![o] =
                      [at |-> "claimed", on |-> d, version |-> rows[d].version + 1]]
        /\ UNCHANGED <<faults, received>>

\* The compare-and-swap of the handoff and of the settlement.
CanSettleDelivery(o) ==
    /\ outbox[courier[o].on].state = "claimed"
    /\ outbox[courier[o].on].version = courier[o].version

\* record_delivery_handoff.
RecordHandoff(o) ==
    /\ courier[o].at = "claimed"
    /\ IF CanSettleDelivery(o)
       THEN /\ outbox' = [outbox EXCEPT ![courier[o].on].version = @ + 1]
            /\ courier' = [courier EXCEPT ![o].at = "handed_off", ![o].version = @ + 1]
       ELSE /\ courier' = [courier EXCEPT ![o].at = "dead"]
            /\ UNCHANGED outbox
    /\ UNCHANGED <<faults, received>>

\* sink.deliver returns ...
SinkAccepts(o) ==
    /\ courier[o].at = "handed_off"
    /\ received' = [received EXCEPT ![courier[o].on] = @ + 1]
    /\ courier' = [courier EXCEPT ![o].at = "complete"]
    /\ UNCHANGED <<faults, outbox>>

\* ... or raises, perhaps after the sink took the delivery.
SinkRaises(o) ==
    /\ courier[o].at = "handed_off"
    /\ Fault
    /\ received' \in {received, [received EXCEPT ![courier[o].on] = @ + 1]}
    /\ courier' = [courier EXCEPT ![o].at = "release"]
    /\ UNCHANGED outbox

\* The row is as this settlement would have left it.
DeliveryReplayed(o, target) ==
    /\ outbox[courier[o].on].state = target
    /\ outbox[courier[o].on].version = courier[o].version + 1

\* The state the settlement of o leaves.
SettledState(o) == IF courier[o].at = "complete" THEN "delivered" ELSE "pending"

\* complete_delivery and release_delivery.  The row is read before the
\* transaction, so that a settlement overtaken between the two conflicts even if
\* the row then looks replayed.
SettleDelivery(o) ==
    LET d == courier[o].on
        target == SettledState(o)
    IN  /\ courier[o].at \in {"complete", "release"}
        /\ \/ /\ CanSettleDelivery(o)
              /\ outbox' = [outbox EXCEPT ![d] = [state |-> target, version |-> @.version + 1,
                                                  stale |-> FALSE]]
              /\ courier' = [courier EXCEPT ![o] = IdleCourier]
           \/ /\ DeliveryReplayed(o, target)
              /\ courier' = [courier EXCEPT ![o] = IdleCourier]
              /\ UNCHANGED outbox
           \/ /\ ~CanSettleDelivery(o)
              /\ courier' = [courier EXCEPT ![o].at = "dead"]
              /\ UNCHANGED outbox
        /\ UNCHANGED <<faults, received>>

DeliveryWorkedOn(d) ==
    \E o \in Owners : courier[o].at \notin {"idle", "dead"} /\ courier[o].on = d
                      /\ courier[o].version = outbox[d].version

\* claim_ttl_seconds have passed since the claim.
DeliveryClaimLapses(d) ==
    /\ outbox[d].state = "claimed" /\ ~outbox[d].stale
    /\ outbox' = [outbox EXCEPT ![d].stale = TRUE]
    /\ Lapses(DeliveryWorkedOn(d))
    /\ UNCHANGED <<courier, received>>

DeliveryPumpDies(o) ==
    /\ courier' = [courier EXCEPT ![o] = IdleCourier]
    /\ UNCHANGED <<outbox, received>>

DeliveryPumpStep(o) ==
    \/ ClaimDelivery(o)
    \/ RecordHandoff(o)
    \/ SinkAccepts(o)
    \/ SettleDelivery(o)

DeliveryNext ==
    \/ \E o \in Owners : DeliveryPumpStep(o) \/ SinkRaises(o)
    \/ \E d \in Deliveries : DeliveryClaimLapses(d)

-----------------------------------------------------------------------------
(* Properties.                                                             *)

DeliveryTypeOK ==
    /\ outbox \in [Deliveries -> [state : {"none", "pending", "claimed", "delivered"},
                                  version : Nat, stale : BOOLEAN]]
    /\ courier \in [Owners -> [at : {"idle", "claimed", "handed_off", "complete",
                                     "release", "dead"},
                               on : 0..MaxDeliveries, version : Nat]]
    /\ received \in [Deliveries -> Nat]

\* A courier knows a version its row has had, only one knows the present version of
\* a claimed row, and one that is to settle a delivery has seen the sink take it.
CouriersKnowTheirRows ==
    \A o \in Owners : courier[o].at # "idle" =>
        /\ courier[o].on \in Deliveries
        /\ courier[o].version <= outbox[courier[o].on].version
        /\ courier[o].at = "complete" => received[courier[o].on] >= 1
        /\ \A p \in Owners :
              /\ {courier[o].at, courier[p].at} \cap {"idle", "dead"} = {}
              /\ courier[p].on = courier[o].on
              /\ CanSettleDelivery(o) /\ CanSettleDelivery(p)
              => p = o

\* The claim of o is in force.
InForce(o) == CanSettleDelivery(o) /\ ~outbox[courier[o].on].stale

\* The couriers that will still call the sink for d although their claim is not in
\* force any more.
Belated(d) ==
    {o \in Owners : /\ courier[o].at \in {"claimed", "handed_off"}
                    /\ courier[o].on = d /\ ~InForce(o)}

\* The delivery of d has been made, and nobody else will be asked to make it.
Made(d) ==
    \/ outbox[d].state = "delivered"
    \/ \E o \in Owners : courier[o].at = "complete" /\ courier[o].on = d /\ InForce(o)

\* Every call of the sink but the one that counts is paid for by a fault, also
\* those that are still to come.
SinkCallsPaidFor ==
    \A d \in Deliveries :
        /\ outbox[d].state = "delivered" => received[d] >= 1
        /\ received[d] + Cardinality(Belated(d)) <= faults + (IF Made(d) THEN 1 ELSE 0)

\* Only a claim expires.
OnlyClaimsExpire == \A d \in Deliveries : outbox[d].stale => outbox[d].state = "claimed"

DeliveryInv == CouriersKnowTheirRows /\ OnlyClaimsExpire /\ SinkCallsPaidFor

\* A delivery marked delivered was taken by its sink, and it is sent again only
\* after something went wrong: every repetition is paid for by a crash, a failed
\* sink call or a claim that lapsed under a dispatcher still at work.
DeliveredAsOften ==
    \A d \in Deliveries :
        /\ outbox[d].state = "delivered" => received[d] >= 1
        /\ received[d] <= 1 + faults

\* No delivery is lost: again and again all deliveries of the Run are
\* delivered, unless every delivery pump has died of a conflict.
EveryDeliveryArrives ==
    []<>(\/ \A d \in Deliveries : outbox[d].state \notin {"pending", "claimed"}
         \/ \A o \in Owners : courier[o].at = "dead")

=============================================================================
