--------------------------- MODULE SharedCapacity ---------------------------
(***************************************************************************)
(* The capacity pool that the processes of a host share for their Provider *)
(* calls (table shared_capacity_entries): DeploymentCapacity.guard queues  *)
(* a call, waits for its turn, marks the handoff and gives the capacity    *)
(* back; DeploymentCapacity.recover gives back what a lost process held,   *)
(* on evidence of the Provider ledger.                                     *)
(*                                                                         *)
(* A call is an invocation at one handoff attempt, the key of its entry;   *)
(* the key is used once.  Of the Provider ledger only what the evidence    *)
(* needs is kept (ProviderLedger has the rest).  Direct calls, which have  *)
(* no evidence, are left out.                                              *)
(***************************************************************************)
EXTENDS PumpFaults, Functions

CONSTANTS Calls,      \* Provider calls
          Weight,     \* their estimates, in tokens
          MaxSlots,   \* max_slots of the pool
          MaxTokens   \* max_tokens of the pool

ASSUME CapacityConstants ==
    /\ IsFiniteSet(Calls)
    /\ MaxSlots \in Nat \ {0} /\ MaxTokens \in Nat \ {0}
    /\ Weight \in [Calls -> 1..MaxTokens]

VARIABLES entry,      \* shared_capacity_entries, by key
          invocation, \* the state of the call in the Provider ledger
          caller,     \* the dispatcher inside the guard of each call
          atProvider  \* external: the calls the Provider may be working on

capacityVars == <<entry, invocation, caller, atProvider>>

Held == {"RESERVED", "HANDED_OFF", "UNKNOWN"}

\* process is NoOwner when the process of the entry is gone.
NoEntry  == [state |-> "NONE", sequence |-> 0, process |-> NoOwner]
NoCaller == [at |-> "idle", process |-> NoOwner, known |-> FALSE]

CapacityInit ==
    /\ entry = [c \in Calls |-> NoEntry]
    /\ invocation = [c \in Calls |-> "claimed"]
    /\ caller = [c \in Calls |-> NoCaller]
    /\ atProvider = {}

-----------------------------------------------------------------------------
(* The ledger.                                                             *)

\* Faulty: a waiter whose process is gone stays in the queue.
AfterDeathWaiting(state) ==
    CASE state = "RESERVED" -> "RELEASED" [] state = "HANDED_OFF" -> "UNKNOWN" [] OTHER -> state

\* What the end of its process makes of an entry.
AfterDeath(state) ==
    CASE state \in {"WAITING", "RESERVED"} -> "RELEASED"
      [] state = "HANDED_OFF" -> "UNKNOWN"
      [] OTHER -> state

\* _recover_dead, at the beginning of every transaction of the ledger.
Swept == [c \in Calls |-> IF entry[c].process # NoOwner THEN entry[c]
                          ELSE [entry[c] EXCEPT !.state = AfterDeath(@)]]

\* A transaction that leaves c in the state s.
SetEntry(c, s) == entry' = [Swept EXCEPT ![c].state = s]

HeldCalls == {c \in Calls : Swept[c].state \in Held}
Tokens(C) == SumFunctionOnSet(Weight, C)

IsFirst(c) == \A d \in Calls : Swept[d].state = "WAITING" => Swept[c].sequence <= Swept[d].sequence

Fits(c) ==
    Cardinality(HeldCalls) < MaxSlots /\ Tokens(HeldCalls) + Weight[c] <= MaxTokens

-----------------------------------------------------------------------------
(* guard.                                                                  *)

\* enqueue.  The key of a call that was queued before is refused.
Enqueue(o, c) ==
    /\ invocation[c] = "claimed" /\ entry[c].state = "NONE"
    /\ entry' = [Swept EXCEPT ![c] =
           [state |-> "WAITING", process |-> o,
            sequence |-> 1 + Cardinality({d \in Calls : entry[d].state # "NONE"})]]
    /\ caller' = [caller EXCEPT ![c] = [at |-> "waiting", process |-> o, known |-> FALSE]]
    /\ UNCHANGED <<faults, invocation, atProvider>>

\* try_acquire.
TryAcquire(c) ==
    /\ caller[c].at = "waiting"
    /\ IsFirst(c) /\ Fits(c)
    /\ SetEntry(c, "RESERVED")
    /\ caller' = [caller EXCEPT ![c].at = "reserved"]
    /\ UNCHANGED <<faults, invocation, atProvider>>

\* The wait times out or is cancelled: cancel_waiter.
GiveUp(c) ==
    /\ caller[c].at = "waiting"
    /\ SetEntry(c, "RELEASED")
    /\ caller' = [caller EXCEPT ![c] = NoCaller]
    /\ UNCHANGED <<faults, invocation, atProvider>>

\* mark_handed_off, after the admission of the call.
MarkHandedOff(c) ==
    /\ caller[c].at = "reserved"
    /\ SetEntry(c, "HANDED_OFF")
    /\ caller' = [caller EXCEPT ![c].at = "marked"]
    /\ UNCHANGED <<faults, invocation, atProvider>>

\* The admission refuses or is cancelled.
NotAdmitted(c) ==
    /\ caller[c].at = "reserved"
    /\ caller' = [caller EXCEPT ![c].at = "finish"]
    /\ UNCHANGED <<faults, entry, invocation, atProvider>>

\* hand_off_provider_invocation commits and the call is made ...
HandOff(c) ==
    /\ caller[c].at = "marked"
    /\ invocation' = [invocation EXCEPT ![c] = "handed_off"]
    /\ atProvider' = atProvider \cup {c}
    /\ caller' = [caller EXCEPT ![c].at = "calling"]
    /\ UNCHANGED <<faults, entry>>

\* ... or it conflicts, and nothing was sent.
HandOffConflict(c) ==
    /\ caller[c].at = "marked"
    /\ caller' = [caller EXCEPT ![c].at = "finish", ![c].known = TRUE]
    /\ UNCHANGED <<faults, entry, invocation, atProvider>>

\* The Provider answers, with its usage or without: the call is over.
ProviderAnswers(c) ==
    /\ caller[c].at = "calling"
    /\ atProvider' = atProvider \ {c}
    /\ \E usage \in BOOLEAN :
          /\ invocation' = [invocation EXCEPT ![c] = IF usage THEN "charged" ELSE "closed"]
          /\ caller' = [caller EXCEPT ![c].at = "finish", ![c].known = usage]
    /\ UNCHANGED <<faults, entry>>

\* A timeout, a cancellation or a broken connection: the Provider may go on.
OutcomeUnknown(c) ==
    /\ caller[c].at = "calling"
    /\ invocation' = [invocation EXCEPT ![c] = "unknown"]
    /\ caller' = [caller EXCEPT ![c].at = "finish"]
    /\ UNCHANGED <<faults, entry, atProvider>>

\* An entry that recover has settled in the meantime stays settled.
FinishedState(c) ==
    CASE entry[c].state = "RESERVED" -> "RELEASED"
      [] entry[c].state \in {"HANDED_OFF", "UNKNOWN"} -> IF caller[c].known THEN "SETTLED" ELSE "UNKNOWN"
      [] OTHER -> entry[c].state

\* finish.
FinishCall(c) ==
    /\ caller[c].at = "finish"
    /\ SetEntry(c, FinishedState(c))
    /\ caller' = [caller EXCEPT ![c] = NoCaller]
    /\ UNCHANGED <<faults, invocation, atProvider>>

-----------------------------------------------------------------------------
(* recover, at the beginning of every dispatch and of reconcile.           *)

\* snapshot, which sweeps.
SweepDead ==
    /\ entry # Swept
    /\ entry' = Swept
    /\ UNCHANGED <<faults, invocation, caller, atProvider>>

\* Faulty: a handoff that is marked and not yet committed counts as lost.
KnownTerminalLive(c) ==
    /\ entry[c].state \in {"HANDED_OFF", "UNKNOWN"}
    /\ invocation[c] \in {"charged", "claimed"}

\* Faulty: a handoff that was marked and never committed is not recognised.
KnownTerminalCharged(c) ==
    entry[c].state \in {"HANDED_OFF", "UNKNOWN"} /\ invocation[c] = "charged"

\* The Provider ledger knows how the call ended, or that it was never made.
KnownTerminal(c) ==
    \/ entry[c].state \in {"HANDED_OFF", "UNKNOWN"} /\ invocation[c] = "charged"
    \/ entry[c].state = "UNKNOWN" /\ invocation[c] = "claimed"

\* One round of DeploymentCapacity.recover, at once: a finish between its reading of the
\* entry and reconcile makes the latter raise and changes nothing.
ReconcileEntry(c) ==
    /\ KnownTerminal(c)
    /\ SetEntry(c, "SETTLED")
    /\ UNCHANGED <<faults, invocation, caller, atProvider>>

\* The Provider is done with a call nobody waits for.
ProviderStops(c) ==
    /\ c \in atProvider /\ caller[c].at # "calling"
    /\ atProvider' = atProvider \ {c}
    /\ UNCHANGED <<faults, entry, invocation, caller>>

\* The reconciler of the Provider ledger brings the outcome of a call that was
\* lost, its usage or that it was never started (external: what it says is true).
OutcomeResolved(c) ==
    /\ invocation[c] = "unknown" \/ (invocation[c] = "handed_off" /\ caller[c].at = "idle")
    /\ c \notin atProvider
    /\ invocation' = [invocation EXCEPT ![c] = "charged"]
    /\ UNCHANGED <<faults, entry, caller, atProvider>>

CallerDies(o) ==
    /\ entry' = [c \in Calls |-> IF entry[c].process = o THEN [entry[c] EXCEPT !.process = NoOwner]
                                                         ELSE entry[c]]
    /\ caller' = [c \in Calls |-> IF caller[c].process = o THEN NoCaller ELSE caller[c]]
    /\ UNCHANGED <<invocation, atProvider>>

CallerStep(c) ==
    \/ TryAcquire(c)
    \/ MarkHandedOff(c)
    \/ HandOff(c)
    \/ FinishCall(c)

RecoverCapacity == SweepDead \/ \E c \in Calls : ReconcileEntry(c)

\* W: the calls that are made, each with its process.
CapacityNext(W) ==
    \/ \E w \in W : Enqueue(w[1], w[2])
    \/ \E c \in Calls :
          \/ CallerStep(c) \/ GiveUp(c) \/ NotAdmitted(c) \/ HandOffConflict(c)
          \/ ProviderAnswers(c) \/ OutcomeUnknown(c) \/ ProviderStops(c) \/ OutcomeResolved(c)
    \/ RecoverCapacity

-----------------------------------------------------------------------------
(* Properties.                                                             *)

CapacityTypeOK ==
    /\ entry \in [Calls -> [state : {"NONE", "WAITING", "RELEASED", "SETTLED"} \cup Held,
                            sequence : Nat, process : Owners \cup {NoOwner}]]
    /\ invocation \in [Calls -> {"claimed", "handed_off", "charged", "closed", "unknown"}]
    /\ caller \in [Calls -> [at : {"idle", "waiting", "reserved", "marked", "calling", "finish"},
                             process : Owners \cup {NoOwner}, known : BOOLEAN]]
    /\ atProvider \subseteq Calls

\* What the dispatcher of a call, its entry and its row in the Provider ledger know
\* of each other.
CallerMatches(c) ==
    /\ caller[c].at # "idle" =>
          caller[c].process # NoOwner /\ entry[c].process = caller[c].process
    /\ caller[c].at = "waiting" => entry[c].state = "WAITING"
    /\ caller[c].at = "reserved" => entry[c].state = "RESERVED"
    /\ caller[c].at = "marked" => entry[c].state = "HANDED_OFF"
    /\ caller[c].at \in {"waiting", "reserved", "marked"} => invocation[c] = "claimed"
    /\ caller[c].at = "calling" => entry[c].state = "HANDED_OFF" /\ invocation[c] = "handed_off"
    /\ caller[c].known => caller[c].at = "finish" /\ c \notin atProvider
    /\ c \in atProvider => invocation[c] \in {"handed_off", "unknown"}

CallersMatchEntries == \A c \in Calls : CallerMatches(c)

\* The Provider never has more work of the host than the pool allows: every call
\* it may be working on holds its capacity, also when its process is gone or has
\* given it up, and what is held stays within the slots and the tokens.
CapacityHolds ==
    /\ \A c \in atProvider : entry[c].state \in {"HANDED_OFF", "UNKNOWN"}
    /\ Cardinality(HeldCalls) <= MaxSlots
    /\ Tokens(HeldCalls) <= MaxTokens

\* Capacity comes back: again and again what is held belongs to a dispatcher at
\* work or to a call whose outcome the Provider ledger does not know.
CapacityComesBack ==
    []<>(\A c \in Calls : entry[c].state \in Held =>
             caller[c].at # "idle" \/ invocation[c] \in {"handed_off", "unknown", "closed"})

\* Nobody is left to wait at an empty pool: again and again something is held or nobody
\* waits, whoever has died in the queue.
NobodyWaitsInVain ==
    []<>(\/ \E c \in Calls : entry[c].state \in Held
         \/ \A c \in Calls : caller[c].at # "waiting")

=============================================================================
