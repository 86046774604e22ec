---------------------------- MODULE MemoryOutbox ----------------------------
(***************************************************************************)
(* The committed turns on their way to the host's memory (table            *)
(* memory_outbox) and the memory pump of every kernel:                     *)
(* MemoryDispatcher._run_once claims a turn, records the handoff, calls    *)
(* AgentMemoryPort.record_committed_turn and settles the row.  Which of    *)
(* the turns that are due comes first is left open.                        *)
(*                                                                         *)
(* UnitOfWorkConflict of the handoff or of a settlement is not caught: a   *)
(* pump that meets it is dead until its kernel restarts.                   *)
(***************************************************************************)
EXTENDS PumpFaults

CONSTANT Turns   \* the committed turns

ASSUME MemoryConstants == Turns # {}

VARIABLES turn,   \* memory_outbox, by intent_id
          scribe, \* the memory pump of each kernel
          memory  \* history: what the host's memory did with a turn (external)

memoryVars == <<turn, scribe, memory>>

NoTurn == [state |-> "none", owner |-> NoOwner, epoch |-> 0, expired |-> FALSE, due |-> TRUE]
IdleScribe(t) == [at |-> "idle", on |-> t, epoch |-> 0]
AnyTurn == CHOOSE t \in Turns : TRUE

MemoryInit ==
    /\ turn = [t \in Turns |-> NoTurn]
    /\ scribe = [o \in Owners |-> IdleScribe(AnyTurn)]
    /\ memory = [t \in Turns |-> {}]

-----------------------------------------------------------------------------
\* _insert_committed_turn, with the terminal commit of a completed Run.
InsertTurns(T) ==
    /\ turn' = [t \in Turns |-> IF t \in T THEN [turn[t] EXCEPT !.state = "pending"] ELSE turn[t]]
    /\ UNCHANGED <<scribe, memory>>

\* Faulty: the claim of a dispatcher that is gone is not taken over.
TurnIsDueUnclaimed(t) == turn[t].state \in {"pending", "retry_wait"} /\ turn[t].due

TurnIsDue(t) ==
    \/ turn[t].state \in {"pending", "retry_wait"} /\ turn[t].due
    \/ turn[t].state = "claimed" /\ turn[t].expired

ClaimTurn(o) ==
    /\ scribe[o].at = "idle"
    /\ \E t \in Turns :
          /\ TurnIsDue(t)
          /\ turn' = [turn EXCEPT ![t] = [state |-> "claimed", owner |-> o,
                                          epoch |-> @.epoch + 1, expired |-> FALSE,
                                          due |-> TRUE]]
          /\ scribe' = [scribe EXCEPT ![o] =
                 [at |-> "claimed", on |-> t, epoch |-> turn'[t].epoch]]
    /\ UNCHANGED <<faults, memory>>

\* The compare-and-swap of release and of a settlement.
CanSettleTurn(o) ==
    LET row == turn[scribe[o].on]
    IN  row.state = "claimed" /\ row.owner = o /\ row.epoch = scribe[o].epoch

\* memory_port_audit.begin.
BeginTurn(o) ==
    /\ scribe[o].at = "claimed"
    /\ scribe' = [scribe EXCEPT ![o].at =
           IF CanSettleTurn(o) /\ ~turn[scribe[o].on].expired THEN "recording" ELSE "dead"]
    /\ UNCHANGED <<faults, turn, memory>>

\* record_committed_turn: the host records the turn (again), refuses it as
\* erased, or refuses it for good, by its status or by an error.
HostAnswers(o) ==
    /\ scribe[o].at = "recording"
    /\ \E r \in {"recorded", "erased", "refused"} :
          /\ memory' = [memory EXCEPT ![scribe[o].on] = @ \cup {r}]
          /\ scribe' = [scribe EXCEPT ![o].at = IF r = "refused" THEN "dead_letter"
                                                               ELSE "applied"]
    /\ UNCHANGED <<faults, turn>>

\* Faulty: a call that failed in transit counts as a refusal.
AfterFailureSettled == "applied"

\* A transient failure is tried again: _release_transient.
AfterFailure == "retry_wait"

\* The call fails in transit, perhaps after the host recorded the turn.
HostFails(o) ==
    /\ scribe[o].at = "recording"
    /\ Fault
    /\ memory' \in {memory, [memory EXCEPT ![scribe[o].on] = @ \cup {"recorded"}]}
    /\ scribe' = [scribe EXCEPT ![o].at = AfterFailure]
    /\ UNCHANGED turn

\* applied, dead_letter and release.
SettleTurn(o) ==
    LET t == scribe[o].on
    IN  /\ scribe[o].at \in {"applied", "dead_letter", "retry_wait"}
        /\ IF CanSettleTurn(o)
           THEN /\ turn' = [turn EXCEPT ![t] =
                       [state |-> scribe[o].at, owner |-> NoOwner, epoch |-> @.epoch,
                        expired |-> FALSE, due |-> scribe[o].at # "retry_wait"]]
                /\ scribe' = [scribe EXCEPT ![o] = IdleScribe(AnyTurn)]
           ELSE /\ scribe' = [scribe EXCEPT ![o].at = "dead"]
                /\ UNCHANGED turn
        /\ UNCHANGED <<faults, memory>>

\* cleanup_applied deletes the row.
CleanupApplied(t) ==
    /\ turn[t].state = "applied"
    /\ turn' = [turn EXCEPT ![t].state = "cleaned"]
    /\ UNCHANGED <<faults, scribe, memory>>

TurnWorkedOn(t) ==
    \E o \in Owners : scribe[o].at \notin {"idle", "dead"} /\ scribe[o].on = t
                      /\ CanSettleTurn(o)

\* claim_expires_at or retry_at is reached.
TurnTime(t) ==
    \/ /\ turn[t].state = "claimed" /\ ~turn[t].expired
       /\ turn' = [turn EXCEPT ![t].expired = TRUE]
       /\ Lapses(TurnWorkedOn(t))
       /\ UNCHANGED <<scribe, memory>>
    \/ /\ ~turn[t].due
       /\ turn' = [turn EXCEPT ![t].due = TRUE]
       /\ UNCHANGED <<faults, scribe, memory>>

MemoryPumpDies(o) ==
    /\ scribe' = [scribe EXCEPT ![o] = IdleScribe(AnyTurn)]
    /\ UNCHANGED <<turn, memory>>

MemoryPumpStep(o) ==
    \/ ClaimTurn(o)
    \/ BeginTurn(o)
    \/ HostAnswers(o)
    \/ SettleTurn(o)

MemoryNext ==
    \/ \E o \in Owners : MemoryPumpStep(o) \/ HostFails(o)
    \/ \E t \in Turns : CleanupApplied(t) \/ TurnTime(t)

-----------------------------------------------------------------------------
(* Properties.                                                             *)

MemoryTypeOK ==
    /\ turn \in [Turns -> [state : {"none", "pending", "claimed", "retry_wait", "applied",
                                    "dead_letter", "cleaned"},
                           owner : Owners \cup {NoOwner}, epoch : Nat,
                           expired : BOOLEAN, due : BOOLEAN]]
    /\ scribe \in [Owners -> [at : {"idle", "claimed", "recording", "applied", "dead_letter",
                                    "retry_wait", "dead"},
                              on : Turns, epoch : Nat]]
    /\ memory \in [Turns -> SUBSET {"recorded", "erased", "refused"}]

\* A scribe settles a turn by what the host has answered.
ScribesHaveAnswers ==
    \A o \in Owners :
        /\ scribe[o].at = "applied" => memory[scribe[o].on] \cap {"recorded", "erased"} # {}
        /\ scribe[o].at = "dead_letter" => "refused" \in memory[scribe[o].on]

\* The row tells what the host did: a turn that is applied, or whose row is
\* gone, was recorded or refused as erased, and a dead letter was refused, also
\* when calls failed in transit or several dispatchers made them.
TurnsAreAccountedFor ==
    \A t \in Turns :
        /\ turn[t].state \in {"applied", "cleaned"} => memory[t] \cap {"recorded", "erased"} # {}
        /\ turn[t].state = "dead_letter" => "refused" \in memory[t]

\* Again and again every committed turn is settled, unless every memory pump
\* has died of a conflict.
EveryTurnSettles ==
    []<>(\/ \A t \in Turns : turn[t].state \notin {"pending", "claimed", "retry_wait"}
         \/ \A o \in Owners : scribe[o].at = "dead")

=============================================================================
