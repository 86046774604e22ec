------------------------- MODULE KernelPumpsProofs -------------------------
(***************************************************************************)
(* The pumps of the kernels keep what they promise for every set of        *)
(* processes, commands, deliveries, turns, children and calls, and for     *)
(* every workload.                                                         *)
(*                                                                         *)
(* A component meets three kinds of steps: its own, those of the Run or of *)
(* a dying process that it shares with others, and steps of another        *)
(* component, which leave its variables alone and may only add a fault.    *)
(* The lemmas <Component>Frame say so, and the invariant of each component *)
(* is then proved by itself.                                               *)
(***************************************************************************)
EXTENDS KernelPumps, SumTheorems, TLAPS

-----------------------------------------------------------------------------
(* What a step is to each component.                                       *)

\* Faults only grow.
FaultsGrow == faults' \in {faults, faults + 1}

CommandMove ==
    \/ \E o \in Owners : CommandPumpStep(o) \/ CommandHeartbeat(o)
    \/ \E c \in Commands : CommandTime(c) \/ SubmitCommand(c)
    \/ RunEnds \/ WaitOverwritesCancel
    \/ \E o \in Owners : CommandPumpDies(o) /\ Fault
    \/ UNCHANGED commandVars

DeliveryMove ==
    \/ \E o \in Owners : DeliveryPumpStep(o) \/ SinkRaises(o)
    \/ \E d \in Deliveries : DeliveryClaimLapses(d)
    \/ RunEnds /\ InsertDeliveries(workload.deliveries)
    \/ \E o \in Owners : DeliveryPumpDies(o) /\ Fault
    \/ UNCHANGED deliveryVars

MemoryMove ==
    \/ \E o \in Owners : MemoryPumpStep(o) \/ HostFails(o)
    \/ \E t \in Turns : CleanupApplied(t) \/ TurnTime(t)
    \/ \E T \in SUBSET workload.turns : InsertTurns(T)
    \/ \E o \in Owners : MemoryPumpDies(o)
    \/ UNCHANGED memoryVars

ChildMove ==
    \/ ChildNext(workload.children)
    \/ \E o \in Owners : ListenerDies(o)
    \/ UNCHANGED childVars

CapacityMove ==
    \/ CapacityNext(workload.calls)
    \/ \E o \in Owners : CallerDies(o)
    \/ UNCHANGED capacityVars

\* The workload a behaviour has.
LEMMA WorkloadTypes ==
    ASSUME workload \in Workloads
    PROVE  /\ workload.commands \subseteq Commands /\ workload.deliveries \subseteq Deliveries
           /\ workload.turns \subseteq Turns /\ workload.children \subseteq Children
           /\ workload.calls \subseteq Owners \X Calls /\ workload.run \in {"absent", "active"}
           /\ workload.faults \in Nat
BY WorkloadConstants

\* Every step is a step of each component, or leaves it alone.
LEMMA Frames ==
    ASSUME workload \in Workloads, [PumpsNext]_pumpVars
    PROVE  /\ CommandMove /\ DeliveryMove /\ MemoryMove /\ ChildMove /\ CapacityMove
           /\ UNCHANGED <<workload, maxFaults>>
<1>0. workload.commands \subseteq Commands
  BY WorkloadTypes
<1>1. CASE (CommandNext \/ \E c \in workload.commands : SubmitCommand(c)) /\ OnlyCommands
  BY <1>0, <1>1 DEF OnlyCommands, CommandNext, CommandMove, DeliveryMove, MemoryMove, ChildMove,
     CapacityMove
<1>2. CASE DeliveryNext /\ OnlyDeliveries
  BY <1>2 DEF OnlyDeliveries, DeliveryNext, CommandMove, DeliveryMove, MemoryMove, ChildMove,
     CapacityMove
<1>3. CASE MemoryNext /\ OnlyMemory
  BY <1>3 DEF OnlyMemory, MemoryNext, CommandMove, DeliveryMove, MemoryMove, ChildMove,
     CapacityMove
<1>4. CASE ChildNext(workload.children) /\ OnlyChildren
  BY <1>4 DEF OnlyChildren, CommandMove, DeliveryMove, MemoryMove, ChildMove, CapacityMove
<1>5. CASE CapacityNext(workload.calls) /\ OnlyCapacity
  BY <1>5 DEF OnlyCapacity, CommandMove, DeliveryMove, MemoryMove, ChildMove, CapacityMove
<1>6. ASSUME NEW T \in SUBSET workload.turns, TerminalCommit(workload.deliveries, T),
             UNCHANGED <<workload, maxFaults>>
      PROVE  /\ CommandMove /\ DeliveryMove /\ MemoryMove /\ ChildMove /\ CapacityMove
             /\ UNCHANGED <<workload, maxFaults>>
  BY <1>6 DEF TerminalCommit, CommandMove, DeliveryMove, MemoryMove, ChildMove, CapacityMove
<1>7. CASE CancelCommit /\ UNCHANGED <<workload, maxFaults>>
  BY <1>7 DEF CancelCommit, CommandMove, DeliveryMove, MemoryMove, ChildMove, CapacityMove
<1>8. ASSUME NEW o \in Owners, ProcessDies(o), UNCHANGED <<workload, maxFaults>>
      PROVE  /\ CommandMove /\ DeliveryMove /\ MemoryMove /\ ChildMove /\ CapacityMove
             /\ UNCHANGED <<workload, maxFaults>>
  BY <1>8 DEF ProcessDies, CommandMove, DeliveryMove, MemoryMove, ChildMove, CapacityMove
<1>9. CASE UNCHANGED pumpVars
  BY <1>9 DEF pumpVars, CommandMove, DeliveryMove, MemoryMove, ChildMove, CapacityMove
<1> QED
  BY <1>1, <1>2, <1>3, <1>4, <1>5, <1>6, <1>7, <1>8, <1>9 DEF PumpsNext

\* Every step is with a fault or without.
LEMMA FaultOrNot == ASSUME PumpsNext PROVE NoFault \/ Fault
<1>1. ASSUME NEW o \in Owners, CommandPumpStep(o) \/ CommandHeartbeat(o) PROVE NoFault
  BY <1>1 DEF CommandPumpStep, ClaimNextCommand, BeginCommand, ContextReady, ProcessingFails,
     ApplyCommand, ApplyConflict, AfterApply, SettleFailure, CommandHeartbeat, NoFault
<1>2. ASSUME NEW c \in Commands, CommandTime(c) PROVE NoFault \/ Fault
  BY <1>2 DEF CommandTime, CommandClaimLapses, RetryComesDue, Lapses, NoFault
<1>11. ASSUME WaitOverwritesCancel PROVE NoFault
  BY <1>11 DEF WaitOverwritesCancel, NoFault
<1>3. ASSUME NEW c \in workload.commands, SubmitCommand(c) PROVE NoFault
  BY <1>3 DEF SubmitCommand, SubmitStart, SubmitContinue, SubmitCancel, NoFault
<1>4. ASSUME DeliveryNext PROVE NoFault \/ Fault
  BY <1>4 DEF DeliveryNext, DeliveryPumpStep, ClaimDelivery, RecordHandoff, SinkAccepts,
     SettleDelivery, SinkRaises, DeliveryClaimLapses, Lapses, NoFault
<1>5. ASSUME MemoryNext PROVE NoFault \/ Fault
  BY <1>5 DEF MemoryNext, MemoryPumpStep, ClaimTurn, BeginTurn, HostAnswers, SettleTurn,
     HostFails, CleanupApplied, TurnTime, Lapses, NoFault
<1>6. ASSUME ChildNext(workload.children) PROVE NoFault \/ Fault
  BY <1>6 DEF ChildNext, ListenerStep, ClaimSignal, QuarantineSignal, AckSignal, WakeParent,
     RecoverParent, DriveParent, ParentWaits, ParentEnds, LaunchChild, DriveChild, EndChild,
     ChildTaskDone, SignalLapses, CancelParent, Lapses, NoFault
<1>7. ASSUME CapacityNext(workload.calls) PROVE NoFault
  BY <1>7 DEF CapacityNext, Enqueue, CallerStep, TryAcquire, MarkHandedOff, HandOff, FinishCall,
     GiveUp, NotAdmitted, HandOffConflict, ProviderAnswers, OutcomeUnknown, ProviderStops,
     OutcomeResolved, RecoverCapacity, SweepDead, ReconcileEntry, NoFault
<1>8. ASSUME NEW D, NEW T, TerminalCommit(D, T) PROVE NoFault
  BY <1>8 DEF TerminalCommit
<1>9. ASSUME CancelCommit PROVE NoFault
  BY <1>9 DEF CancelCommit, NoFault
<1>10. ASSUME NEW o \in Owners, ProcessDies(o) PROVE Fault
  BY <1>10 DEF ProcessDies
<1> QED
  BY <1>1, <1>2, <1>3, <1>4, <1>5, <1>6, <1>7, <1>8, <1>9, <1>10, <1>11 DEF PumpsNext, CommandNext

\* Faults are counted up to their bound.
LEMMA FaultsCount ==
    ASSUME maxFaults \in Nat, faults \in 0..maxFaults, UNCHANGED maxFaults,
           [PumpsNext]_pumpVars
    PROVE  FaultsGrow /\ faults' \in 0..maxFaults'
<1>1. CASE PumpsNext
  BY <1>1, FaultOrNot DEF NoFault, Fault, FaultsGrow
<1>2. CASE UNCHANGED pumpVars
  BY <1>2 DEF pumpVars, FaultsGrow
<1> QED BY <1>1, <1>2

-----------------------------------------------------------------------------
(* The committed turns.                                                    *)

TurnRows == [state : {"none", "pending", "claimed", "retry_wait", "applied", "dead_letter",
                      "cleaned"},
             owner : Owners \cup {NoOwner}, epoch : Nat, expired : BOOLEAN, due : BOOLEAN]
Scribes == [at : {"idle", "claimed", "recording", "applied", "dead_letter", "retry_wait", "dead"},
            on : Turns, epoch : Nat]
Answers == {"recorded", "erased", "refused"}

LEMMA MemoryTypes ==
    MemoryTypeOK <=> /\ turn \in [Turns -> TurnRows] /\ scribe \in [Owners -> Scribes]
                     /\ memory \in [Turns -> SUBSET Answers]
BY DEF MemoryTypeOK, TurnRows, Scribes, Answers

\* A scribe without a turn.
LEMMA ScribeAtRest == IdleScribe(AnyTurn) \in Scribes /\ IdleScribe(AnyTurn).at = "idle"
<1>1. AnyTurn \in Turns
  BY MemoryConstants DEF AnyTurn
<1> QED BY <1>1 DEF IdleScribe, Scribes

\* The types are kept.
LEMMA MemoryTypeStep ==
    ASSUME MemoryTypeOK, workload \in Workloads, MemoryMove
    PROVE  MemoryTypeOK'
<1>t. /\ turn \in [Turns -> TurnRows] /\ scribe \in [Owners -> Scribes]
      /\ memory \in [Turns -> SUBSET Answers]
  BY MemoryTypes
<1> DEFINE Goal == /\ turn' \in [Turns -> TurnRows] /\ scribe' \in [Owners -> Scribes]
                   /\ memory' \in [Turns -> SUBSET Answers]
<1>1. ASSUME NEW o \in Owners, ClaimTurn(o) PROVE Goal
  <2>1. PICK t \in Turns :
           /\ turn' = [turn EXCEPT ![t] = [state |-> "claimed", owner |-> o,
                          epoch |-> turn[t].epoch + 1, expired |-> FALSE, due |-> TRUE]]
           /\ scribe' = [scribe EXCEPT ![o] =
                            [at |-> "claimed", on |-> t, epoch |-> turn'[t].epoch]]
           /\ UNCHANGED memory
    BY <1>1 DEF ClaimTurn
  <2>2. turn[t].epoch + 1 \in Nat
    BY <1>t DEF TurnRows
  <2>3. [state |-> "claimed", owner |-> o, epoch |-> turn[t].epoch + 1, expired |-> FALSE,
         due |-> TRUE] \in TurnRows
    BY <2>2 DEF TurnRows
  <2>4. turn' \in [Turns -> TurnRows] /\ turn'[t].epoch \in Nat
    BY <1>t, <2>1, <2>2, <2>3
  <2>5. [at |-> "claimed", on |-> t, epoch |-> turn'[t].epoch] \in Scribes
    BY <2>4 DEF Scribes
  <2> QED BY <1>t, <2>1, <2>4, <2>5
<1>2. ASSUME NEW o \in Owners, BeginTurn(o) PROVE Goal
  <2>1. \E s \in {"recording", "dead"} : scribe' = [scribe EXCEPT ![o].at = s]
    BY <1>2 DEF BeginTurn
  <2> QED BY <1>t, <1>2, <2>1 DEF BeginTurn, Scribes
<1>3. ASSUME NEW o \in Owners, HostAnswers(o) PROVE Goal
  <2>1. PICK r \in Answers :
           /\ memory' = [memory EXCEPT ![scribe[o].on] = memory[scribe[o].on] \cup {r}]
           /\ scribe' = [scribe EXCEPT ![o].at = IF r = "refused" THEN "dead_letter" ELSE "applied"]
           /\ UNCHANGED turn
    BY <1>3 DEF HostAnswers, Answers
  <2>2. scribe[o].on \in Turns
    BY <1>t DEF Scribes
  <2>3. memory' \in [Turns -> SUBSET Answers]
    BY <1>t, <2>1, <2>2
  <2>4. \E s \in {"dead_letter", "applied"} : scribe' = [scribe EXCEPT ![o].at = s]
    BY <2>1
  <2>5. scribe' \in [Owners -> Scribes]
    BY <1>t, <2>4 DEF Scribes
  <2> QED BY <1>t, <2>1, <2>3, <2>5
<1>4. ASSUME NEW o \in Owners, HostFails(o) PROVE Goal
  <2>1. scribe[o].on \in Turns
    BY <1>t DEF Scribes
  <2>2. memory' \in [Turns -> SUBSET Answers]
    BY <1>t, <1>4, <2>1 DEF HostFails, Answers
  <2>3. scribe' \in [Owners -> Scribes]
    BY <1>t, <1>4 DEF HostFails, Scribes, AfterFailure
  <2> QED BY <1>t, <1>4, <2>2, <2>3 DEF HostFails
<1>5. ASSUME NEW o \in Owners, SettleTurn(o) PROVE Goal
  <2> DEFINE row == [state |-> scribe[o].at, owner |-> NoOwner, epoch |-> turn[scribe[o].on].epoch,
                     expired |-> FALSE, due |-> scribe[o].at # "retry_wait"]
  <2>1. row \in TurnRows
    BY <1>t, <1>5 DEF SettleTurn, TurnRows, Scribes
  <2>2. \/ turn' = [turn EXCEPT ![scribe[o].on] = row]
           /\ scribe' = [scribe EXCEPT ![o] = IdleScribe(AnyTurn)]
        \/ scribe' = [scribe EXCEPT ![o].at = "dead"] /\ UNCHANGED turn
    BY <1>5 DEF SettleTurn
  <2> HIDE DEF row
  <2>3. turn' \in [Turns -> TurnRows]
    BY <1>t, <2>1, <2>2
  <2>4. scribe' \in [Owners -> Scribes]
    BY <1>t, <2>2, ScribeAtRest DEF Scribes
  <2> QED BY <1>t, <1>5, <2>3, <2>4 DEF SettleTurn
<1>6. ASSUME NEW t \in Turns, CleanupApplied(t) \/ TurnTime(t) PROVE Goal
  <2>1. \/ turn' = [turn EXCEPT ![t].state = "cleaned"]
        \/ turn' = [turn EXCEPT ![t].expired = TRUE]
        \/ turn' = [turn EXCEPT ![t].due = TRUE]
    BY <1>6 DEF CleanupApplied, TurnTime
  <2>2. turn' \in [Turns -> TurnRows]
    <3>1. turn[t] \in TurnRows
      BY <1>t
    <3>2. /\ [turn[t] EXCEPT !.state = "cleaned"] \in TurnRows
          /\ [turn[t] EXCEPT !.expired = TRUE] \in TurnRows
          /\ [turn[t] EXCEPT !.due = TRUE] \in TurnRows
      BY <3>1 DEF TurnRows
    <3> QED BY <1>t, <2>1, <3>2
  <2>3. UNCHANGED <<scribe, memory>>
    BY <1>6 DEF CleanupApplied, TurnTime
  <2> QED BY <1>t, <2>2, <2>3
<1>7. ASSUME NEW T \in SUBSET workload.turns, InsertTurns(T) PROVE Goal
  <2>1. \A t \in Turns : [turn[t] EXCEPT !.state = "pending"] \in TurnRows
    BY <1>t DEF TurnRows
  <2> QED BY <1>t, <1>7, <2>1 DEF InsertTurns
<1>8. ASSUME NEW o \in Owners, MemoryPumpDies(o) PROVE Goal
  BY <1>t, <1>8, ScribeAtRest DEF MemoryPumpDies
<1>9. ASSUME UNCHANGED memoryVars PROVE Goal
  BY <1>t, <1>9 DEF memoryVars
<1>10. Goal
  <2> HIDE DEF Goal
  <2> QED BY <1>1, <1>2, <1>3, <1>4, <1>5, <1>6, <1>7, <1>8, <1>9 DEF MemoryMove, MemoryPumpStep, Goal
<1> QED BY <1>10 DEF MemoryTypeOK, TurnRows, Scribes, Answers

\* The memory of the host never forgets an answer.
LEMMA MemoryStep ==
    ASSUME MemoryTypeOK, TurnsAreAccountedFor, ScribesHaveAnswers, workload \in Workloads,
           MemoryMove
    PROVE  TurnsAreAccountedFor' /\ ScribesHaveAnswers'
<1>t. /\ turn \in [Turns -> TurnRows] /\ scribe \in [Owners -> Scribes]
      /\ memory \in [Turns -> SUBSET Answers]
  BY MemoryTypes
<1>on. \A o \in Owners : scribe[o] \in Scribes /\ scribe[o].on \in Turns
  BY <1>t DEF Scribes
<1> DEFINE Goal == TurnsAreAccountedFor' /\ ScribesHaveAnswers'
<1> USE DEF TurnsAreAccountedFor, ScribesHaveAnswers
<1>1. ASSUME NEW o \in Owners, ClaimTurn(o) PROVE Goal
  BY <1>t, <1>on, <1>1 DEF ClaimTurn
<1>2. ASSUME NEW o \in Owners, BeginTurn(o) PROVE Goal
  BY <1>t, <1>on, <1>2 DEF BeginTurn, Scribes
<1>3. ASSUME NEW o \in Owners, HostAnswers(o) PROVE Goal
  <2>1. PICK r \in Answers :
           /\ memory' = [memory EXCEPT ![scribe[o].on] = memory[scribe[o].on] \cup {r}]
           /\ scribe' = [scribe EXCEPT ![o].at = IF r = "refused" THEN "dead_letter" ELSE "applied"]
           /\ UNCHANGED turn
    BY <1>3 DEF HostAnswers, Answers
  <2>2. \A t \in Turns : memory[t] \subseteq memory'[t]
    BY <1>t, <1>on, <2>1
  <2>3. r \in memory'[scribe[o].on]
    BY <1>t, <1>on, <2>1
  <2>4. \A p \in Owners : scribe'[p].on = scribe[p].on /\ (p # o => scribe'[p].at = scribe[p].at)
    BY <1>t, <2>1 DEF Scribes
  <2>5. scribe'[o].at = IF r = "refused" THEN "dead_letter" ELSE "applied"
    BY <1>t, <2>1 DEF Scribes
  <2>6. ScribesHaveAnswers'
    BY <1>on, <2>2, <2>3, <2>4, <2>5 DEF Answers
  <2>7. TurnsAreAccountedFor'
    BY <2>1, <2>2
  <2> QED BY <2>6, <2>7
<1>4. ASSUME NEW o \in Owners, HostFails(o) PROVE Goal
  BY <1>t, <1>on, <1>4 DEF HostFails, Scribes, AfterFailure
<1>5. ASSUME NEW o \in Owners, SettleTurn(o) PROVE Goal
  BY <1>t, <1>on, <1>5, ScribeAtRest DEF SettleTurn, Scribes
<1>6. ASSUME NEW t \in Turns, CleanupApplied(t) \/ TurnTime(t) PROVE Goal
  BY <1>t, <1>on, <1>6 DEF CleanupApplied, TurnTime, TurnRows
<1>7. ASSUME NEW T \in SUBSET workload.turns, InsertTurns(T) PROVE Goal
  BY <1>t, <1>on, <1>7 DEF InsertTurns, TurnRows
<1>8. ASSUME NEW o \in Owners, MemoryPumpDies(o) PROVE Goal
  BY <1>t, <1>on, <1>8, ScribeAtRest DEF MemoryPumpDies
<1>9. CASE UNCHANGED memoryVars
  BY <1>9 DEF memoryVars
<1> HIDE DEF Goal
<1> QED BY <1>1, <1>2, <1>3, <1>4, <1>5, <1>6, <1>7, <1>8, <1>9 DEF MemoryMove, MemoryPumpStep, Goal

-----------------------------------------------------------------------------
(* The commands: types.                                                    *)

CommandRows == [state : {"none"} \cup Unsettled \cup CommandSettled, seq : Nat,
                owner : Owners \cup {NoOwner}, epoch : Nat, live : BOOLEAN, attempts : Nat,
                backoff : BOOLEAN]
Pumps == [at : {"idle", "begin", "context", "apply", "after", "failed"}, on : Commands,
          epoch : Nat, state : {"none"} \cup Unsettled, attempts : Nat, definite : BOOLEAN]
RunStates == {"absent", "active", "cancel_requested", "ended"}

\* The types, but for the bound on the attempts.
CommandTypes ==
    /\ cmd \in [Commands -> CommandRows] /\ pump \in [Owners -> Pumps]
    /\ nextSeq \in Nat /\ fenceSeq \in Nat /\ run \in RunStates /\ inputs \subseteq Continues

AttemptsWithin == \A c \in Commands : cmd[c].attempts <= MaxAttempts + faults

LEMMA CommandTypeSplit ==
    ASSUME faults \in Nat
    PROVE  CommandTypeOK <=> CommandTypes /\ AttemptsWithin
<1> USE CommandConstants DEF CommandRows, Pumps, RunStates, CommandTypes, AttemptsWithin
<1>1. ASSUME CommandTypeOK PROVE CommandTypes /\ AttemptsWithin
  BY <1>1 DEF CommandTypeOK
<1>2. ASSUME CommandTypes, AttemptsWithin PROVE CommandTypeOK
  <2>1. \A c \in Commands : cmd[c] \in [state : {"none"} \cup Unsettled \cup CommandSettled,
             seq : Nat, owner : Owners \cup {NoOwner}, epoch : Nat, live : BOOLEAN,
             attempts : 0..(MaxAttempts + faults), backoff : BOOLEAN]
    BY <1>2
  <2> QED BY <1>2, <2>1 DEF CommandTypeOK
<1> QED BY <1>1, <1>2

LEMMA CommandConstantTypes ==
    /\ IdlePump \in Pumps /\ IdlePump.at = "idle" /\ NoCommand \in CommandRows
    /\ \A s \in Nat : Accepted(s) \in CommandRows
    /\ Cancels \subseteq Commands /\ Continues \subseteq Commands /\ StartCommand \in Commands
BY DEF IdlePump, Pumps, NoCommand, CommandRows, Accepted, Commands, Unsettled

\* The fields of a row and of a pump.
LEMMA CommandFields ==
    ASSUME CommandTypes
    PROVE  /\ \A c \in Commands :
                 /\ cmd[c] \in CommandRows /\ cmd[c].seq \in Nat /\ cmd[c].epoch \in Nat
                 /\ cmd[c].attempts \in Nat /\ cmd[c].owner \in Owners \cup {NoOwner}
                 /\ cmd[c].state \in {"none"} \cup Unsettled \cup CommandSettled
                 /\ cmd[c].live \in BOOLEAN /\ cmd[c].backoff \in BOOLEAN
           /\ \A o \in Owners :
                 /\ pump[o] \in Pumps /\ pump[o].on \in Commands /\ pump[o].epoch \in Nat
                 /\ pump[o].state \in {"none"} \cup Unsettled /\ pump[o].attempts \in Nat
                 /\ pump[o].definite \in BOOLEAN
BY DEF CommandTypes, CommandRows, Pumps

\* Rows that are written, field by field.
LEMMA RowWrites ==
    ASSUME NEW r \in CommandRows
    PROVE  /\ \A s \in Unsettled \cup CommandSettled : [r EXCEPT !.state = s] \in CommandRows
           /\ \A o \in Owners :
                 [r EXCEPT !.owner = o, !.epoch = @ + 1, !.live = TRUE, !.attempts = @ + 1]
                     \in CommandRows
           /\ \A s \in Unsettled \cup CommandSettled :
                 [r EXCEPT !.state = s, !.owner = NoOwner, !.live = FALSE] \in CommandRows
           /\ \A s \in Unsettled \cup CommandSettled, b \in BOOLEAN :
                 [r EXCEPT !.state = s, !.owner = NoOwner, !.live = FALSE, !.backoff = b]
                     \in CommandRows
           /\ \A b \in BOOLEAN : [r EXCEPT !.live = b] \in CommandRows
           /\ [r EXCEPT !.backoff = FALSE] \in CommandRows
<1>1. r.epoch + 1 \in Nat /\ r.attempts + 1 \in Nat
  BY DEF CommandRows
<1> QED BY <1>1 DEF CommandRows

\* What SubmitCancel writes.
LEMMA SweptRows ==
    ASSUME CommandTypes, NEW c \in Cancels, SubmitCancel(c)
    PROVE  /\ cmd' \in [Commands -> CommandRows]
           /\ \A d \in Commands \ {c} :
                 cmd'[d] = IF cmd[d].state = "accepted" /\ d \notin Cancels
                           THEN [cmd[d] EXCEPT !.state = "cancelled", !.owner = NoOwner,
                                               !.live = FALSE]
                           ELSE cmd[d]
           /\ \/ cmd'[c] = Accepted(nextSeq)
              \/ /\ cmd'[c] = [Accepted(nextSeq) EXCEPT !.state = "applied"]
                 /\ run = "absent" /\ \A d \in Commands \ {c} : cmd'[d].state \notin Unsettled
<1> DEFINE swept == [d \in Commands |->
                        IF cmd[d].state = "accepted" /\ d \notin Cancels
                        THEN [cmd[d] EXCEPT !.state = "cancelled", !.owner = NoOwner,
                                            !.live = FALSE]
                        ELSE cmd[d]]
           done == run = "absent" /\ \A d \in Commands : swept[d].state \notin Unsettled
<1>1. cmd' = [swept EXCEPT ![c] = [Accepted(nextSeq) EXCEPT
                                      !.state = IF done THEN "applied" ELSE @]]
  BY DEF SubmitCancel
<1>2. \A d \in Commands : swept[d] = IF cmd[d].state = "accepted" /\ d \notin Cancels
                                     THEN [cmd[d] EXCEPT !.state = "cancelled", !.owner = NoOwner,
                                                         !.live = FALSE]
                                     ELSE cmd[d]
  OBVIOUS
<1>3. swept \in [Commands -> CommandRows]
  BY CommandFields, RowWrites DEF CommandSettled
<1>4. done => run = "absent" /\ \A d \in Commands : swept[d].state \notin Unsettled
  OBVIOUS
<1> HIDE DEF swept, done
<1>5. c \in Commands
  BY CommandConstantTypes
<1>6. \/ /\ done /\ cmd' = [swept EXCEPT ![c] = [Accepted(nextSeq) EXCEPT !.state = "applied"]]
      \/ ~done /\ cmd' = [swept EXCEPT ![c] = [Accepted(nextSeq) EXCEPT !.state = Accepted(nextSeq).state]]
  BY <1>1
<1>7. [Accepted(nextSeq) EXCEPT !.state = Accepted(nextSeq).state] = Accepted(nextSeq)
  BY DEF Accepted, NoCommand
<1>8. Accepted(nextSeq) \in CommandRows /\ [Accepted(nextSeq) EXCEPT !.state = "applied"] \in CommandRows
  BY CommandConstantTypes, RowWrites DEF CommandTypes, CommandSettled
<1> QED BY <1>2, <1>3, <1>4, <1>5, <1>6, <1>7, <1>8

-----------------------------------------------------------------------------
(* The commands: what the steps of a pump come to.                         *)

\* The pump of o keeps its command.
PumpGoesOn(o, at) ==
    \E q \in Pumps :
        /\ pump' = [pump EXCEPT ![o] = q]
        /\ pump[o].at # "idle" /\ q.at # "idle" /\ (q.at = "after" <=> at = "after")
        /\ q.on = pump[o].on /\ q.epoch = pump[o].epoch /\ q.attempts = pump[o].attempts

PumpGoesIdle(o) == pump' = [pump EXCEPT ![o] = IdlePump]

\* The row of c with another state and without an owner.
Disowned(c, s, b) == [cmd[c] EXCEPT !.state = s, !.owner = NoOwner, !.live = FALSE, !.backoff = b]

\* The pump prepares the command it holds, or fails.
Advances(o) ==
    /\ PumpGoesOn(o, "at work") /\ UNCHANGED <<nextSeq, fenceSeq, run, inputs>>
    /\ \/ UNCHANGED cmd
       \/ Holds(o) /\ \E s \in {"context_call_intent", "context_ready"} :
                         cmd' = [cmd EXCEPT ![pump[o].on] = [cmd[pump[o].on] EXCEPT !.state = s]]

\* The pump applies the command it holds.
Applies(o) ==
    /\ PumpGoesOn(o, "after") /\ Holds(o) /\ Effect(o) /\ UNCHANGED <<nextSeq, fenceSeq>>
    /\ cmd' = [cmd EXCEPT ![pump[o].on] = Disowned(pump[o].on, "applied", cmd[pump[o].on].backoff)]

\* The pump is done with its command.
LetsGo(o) ==
    /\ PumpGoesIdle(o) /\ UNCHANGED <<nextSeq, fenceSeq, inputs>>
    /\ run' = run \/ run' = "ended"
    /\ \/ UNCHANGED cmd /\ (pump[o].at = "after" \/ ~Holds(o))
       \/ Holds(o) /\ cmd' = [cmd EXCEPT ![pump[o].on] = Disowned(pump[o].on, "rejected", FALSE)]
       \/ /\ Holds(o) /\ pump[o].at # "idle" /\ pump[o].attempts < MaxAttempts
          /\ cmd' = [cmd EXCEPT ![pump[o].on] =
                        Disowned(pump[o].on, cmd[pump[o].on].state, TRUE)]

Claims(o) ==
    /\ pump[o].at = "idle" /\ UNCHANGED <<faults, nextSeq, fenceSeq, run, inputs>>
    /\ \E c \in Commands :
          /\ Claimable(c)
          /\ cmd' = [cmd EXCEPT ![c] = [cmd[c] EXCEPT !.owner = o, !.epoch = @ + 1,
                                                      !.live = TRUE, !.attempts = @ + 1]]
          /\ \E q \in Pumps :
                /\ pump' = [pump EXCEPT ![o] = q]
                /\ q.at = "begin" /\ q.on = c /\ q.epoch = cmd[c].epoch + 1
                /\ q.attempts = cmd[c].attempts + 1

LEMMA DisownedRow ==
    ASSUME NEW c, cmd[c] \in CommandRows, NEW s \in Unsettled \cup CommandSettled, NEW b \in BOOLEAN
    PROVE  /\ Disowned(c, s, b) \in CommandRows
           /\ Disowned(c, s, b).state = s /\ Disowned(c, s, b).owner = NoOwner
           /\ Disowned(c, s, b).attempts = cmd[c].attempts
<1>1. Disowned(c, s, b) \in CommandRows
  BY RowWrites DEF Disowned
<1> QED BY <1>1 DEF Disowned, CommandRows

\* A failure, a transition and its conflict.
LEMMA PumpWrites ==
    ASSUME CommandTypes, NEW o \in Owners, pump[o].at # "idle", NEW at \in {"context", "apply", "failed"}
    PROVE  /\ \A b \in BOOLEAN : pump' = [pump EXCEPT ![o].at = at, ![o].definite = b]
                 => PumpGoesOn(o, "at work")
           /\ \A s \in Unsettled : pump' = [pump EXCEPT ![o].state = s, ![o].at = at]
                 => PumpGoesOn(o, "at work")
           /\ pump' = [pump EXCEPT ![o].at = at] => PumpGoesOn(o, "at work")
<1>1. pump[o] \in Pumps
  BY CommandFields
<1>2. ASSUME NEW b \in BOOLEAN, pump' = [pump EXCEPT ![o].at = at, ![o].definite = b]
      PROVE  PumpGoesOn(o, "at work")
  <2> DEFINE q == [pump[o] EXCEPT !.at = at, !.definite = b]
  <2>1. q \in Pumps /\ q.at = at /\ q.on = pump[o].on /\ q.epoch = pump[o].epoch
        /\ q.attempts = pump[o].attempts
    BY <1>1 DEF Pumps
  <2>2. pump' = [pump EXCEPT ![o] = q]
    BY <1>2 DEF CommandTypes
  <2> HIDE DEF q
  <2> QED BY <2>1, <2>2 DEF PumpGoesOn
<1>3. ASSUME NEW s \in Unsettled, pump' = [pump EXCEPT ![o].state = s, ![o].at = at]
      PROVE  PumpGoesOn(o, "at work")
  <2> DEFINE q == [pump[o] EXCEPT !.state = s, !.at = at]
  <2>1. q \in Pumps /\ q.at = at /\ q.on = pump[o].on /\ q.epoch = pump[o].epoch
        /\ q.attempts = pump[o].attempts
    BY <1>1 DEF Pumps
  <2>2. pump' = [pump EXCEPT ![o] = q]
    BY <1>3 DEF CommandTypes
  <2> HIDE DEF q
  <2> QED BY <2>1, <2>2 DEF PumpGoesOn
<1>4. ASSUME pump' = [pump EXCEPT ![o].at = at] PROVE PumpGoesOn(o, "at work")
  <2> DEFINE q == [pump[o] EXCEPT !.at = at]
  <2>1. q \in Pumps /\ q.at = at /\ q.on = pump[o].on /\ q.epoch = pump[o].epoch
        /\ q.attempts = pump[o].attempts
    BY <1>1 DEF Pumps
  <2>2. pump' = [pump EXCEPT ![o] = q]
    BY <1>4 DEF CommandTypes
  <2> HIDE DEF q
  <2> QED BY <2>1, <2>2 DEF PumpGoesOn
<1> QED BY <1>2, <1>3, <1>4

LEMMA TransitionAdvances ==
    ASSUME CommandTypes, NEW o \in Owners, pump[o].at # "idle",
           NEW s \in {"context_call_intent", "context_ready"}, NEW at \in {"context", "apply"},
           Transition(o, s, at), UNCHANGED <<nextSeq, fenceSeq, run, inputs>>
    PROVE  Advances(o)
<1>1. CASE Holds(o) /\ cmd[pump[o].on].state = pump[o].state
  <2>1. /\ cmd' = [cmd EXCEPT ![pump[o].on].state = s]
        /\ pump' = [pump EXCEPT ![o].state = s, ![o].at = at]
    BY <1>1 DEF Transition
  <2>2. PumpGoesOn(o, "at work")
    BY <2>1, PumpWrites DEF Unsettled
  <2>3. cmd' = [cmd EXCEPT ![pump[o].on] = [cmd[pump[o].on] EXCEPT !.state = s]]
    BY <2>1, CommandFields DEF CommandTypes
  <2> QED BY <1>1, <2>2, <2>3 DEF Advances
<1>2. CASE ~(Holds(o) /\ cmd[pump[o].on].state = pump[o].state)
  <2>1. Fail(o, TRUE) /\ UNCHANGED cmd
    BY <1>2 DEF Transition
  <2> QED BY <2>1, PumpWrites DEF Fail, Advances
<1> QED BY <1>1, <1>2

\* Every step of a pump is one of these.
LEMMA PumpStepKinds ==
    ASSUME CommandTypes, NEW o \in Owners, CommandPumpStep(o)
    PROVE  Claims(o) \/ Advances(o) \/ Applies(o) \/ LetsGo(o)
<1>f. pump[o] \in Pumps /\ pump[o].on \in Commands /\ cmd[pump[o].on] \in CommandRows
  BY CommandFields
<1>1. CASE ClaimNextCommand(o)
  <2>1. PICK c \in Commands :
           /\ Claimable(c)
           /\ cmd' = [cmd EXCEPT ![c].owner = o, ![c].epoch = @ + 1, ![c].live = TRUE,
                                 ![c].attempts = @ + 1]
           /\ pump' = [pump EXCEPT ![o] =
                 [at |-> "begin", on |-> c, epoch |-> cmd'[c].epoch, state |-> cmd[c].state,
                  attempts |-> cmd'[c].attempts, definite |-> FALSE]]
    BY <1>1 DEF ClaimNextCommand
  <2>2. cmd' = [cmd EXCEPT ![c] = [cmd[c] EXCEPT !.owner = o, !.epoch = @ + 1,
                                                 !.live = TRUE, !.attempts = @ + 1]]
    BY <2>1, CommandFields DEF CommandTypes, CommandRows
  <2>3. cmd[c].epoch \in Nat /\ cmd[c].attempts \in Nat /\ cmd[c].state \in Unsettled
    BY <2>1, CommandFields DEF Claimable
  <2>4. cmd'[c].epoch = cmd[c].epoch + 1 /\ cmd'[c].attempts = cmd[c].attempts + 1
    BY <2>2, CommandFields DEF CommandTypes, CommandRows
  <2> DEFINE q == [at |-> "begin", on |-> c, epoch |-> cmd'[c].epoch, state |-> cmd[c].state,
                   attempts |-> cmd'[c].attempts, definite |-> FALSE]
  <2>5. q \in Pumps
    BY <2>3, <2>4 DEF Pumps
  <2>6. q.at = "begin" /\ q.on = c /\ q.epoch = cmd[c].epoch + 1 /\ q.attempts = cmd[c].attempts + 1
    BY <2>4
  <2>7. pump' = [pump EXCEPT ![o] = q]
    BY <2>1
  <2> HIDE DEF q
  <2> QED BY <1>1, <2>1, <2>2, <2>5, <2>6, <2>7 DEF ClaimNextCommand, Claims
<1>2. CASE BeginCommand(o)
  <2>1. CASE pump[o].state = "accepted"
    BY <1>2, <2>1, TransitionAdvances DEF BeginCommand
  <2>2. CASE pump[o].state # "accepted"
    BY <1>2, <2>2, PumpWrites DEF BeginCommand, Advances
  <2> QED BY <2>1, <2>2
<1>3. CASE ContextReady(o)
  <2>1. CASE pump[o].state = "context_call_intent"
    BY <1>3, <2>1, TransitionAdvances DEF ContextReady
  <2>2. CASE pump[o].state # "context_call_intent"
    BY <1>3, <2>2, PumpWrites DEF ContextReady, Advances
  <2> QED BY <2>1, <2>2
<1>4. CASE ProcessingFails(o)
  BY <1>4, PumpWrites DEF ProcessingFails, Fail, Advances
<1>5. CASE ApplyCommand(o)
  <2>1. /\ cmd' = [cmd EXCEPT ![pump[o].on].state = "applied", ![pump[o].on].owner = NoOwner,
                              ![pump[o].on].live = FALSE]
        /\ pump' = [pump EXCEPT ![o].at = "after"]
        /\ pump[o].at = "apply" /\ Holds(o) /\ Effect(o) /\ UNCHANGED <<nextSeq, fenceSeq>>
    BY <1>5 DEF ApplyCommand
  <2>2. cmd' = [cmd EXCEPT ![pump[o].on] =
                   Disowned(pump[o].on, "applied", cmd[pump[o].on].backoff)]
    BY <1>f, <2>1 DEF CommandTypes, CommandRows, Disowned
  <2> DEFINE q == [pump[o] EXCEPT !.at = "after"]
  <2>3. q \in Pumps /\ q.at = "after" /\ q.on = pump[o].on /\ q.epoch = pump[o].epoch
        /\ q.attempts = pump[o].attempts
    BY <1>f DEF Pumps
  <2>4. pump' = [pump EXCEPT ![o] = q]
    BY <2>1 DEF CommandTypes
  <2> HIDE DEF q
  <2> QED BY <2>1, <2>2, <2>3, <2>4 DEF Applies, PumpGoesOn
<1>6. CASE ApplyConflict(o)
  BY <1>6, PumpWrites DEF ApplyConflict, Fail, Advances
<1>7. CASE AfterApply(o)
  BY <1>7 DEF AfterApply, LetsGo, PumpGoesIdle
<1>8. CASE SettleFailure(o)
  <2> DEFINE rejected == pump[o].definite \/ pump[o].attempts >= MaxAttempts
  <2>1. CASE ~Holds(o)
    BY <1>8, <2>1 DEF SettleFailure, CanSettleFailure, LetsGo, PumpGoesIdle
  <2>2. CASE Holds(o) /\ rejected
    <3>1. cmd' = [cmd EXCEPT ![pump[o].on].state = "rejected", ![pump[o].on].owner = NoOwner,
                             ![pump[o].on].live = FALSE, ![pump[o].on].backoff = FALSE]
      BY <1>8, <2>2 DEF SettleFailure, CanSettleFailure
    <3>2. cmd' = [cmd EXCEPT ![pump[o].on] = Disowned(pump[o].on, "rejected", FALSE)]
      BY <1>f, <3>1 DEF CommandTypes, CommandRows, Disowned
    <3> QED BY <1>8, <2>2, <3>2 DEF SettleFailure, LetsGo, PumpGoesIdle
  <2>3. CASE Holds(o) /\ ~rejected
    <3>1. cmd' = [cmd EXCEPT ![pump[o].on].state = cmd[pump[o].on].state,
                             ![pump[o].on].owner = NoOwner,
                             ![pump[o].on].live = FALSE, ![pump[o].on].backoff = TRUE]
      BY <1>8, <2>3 DEF SettleFailure, CanSettleFailure
    <3>2. cmd' = [cmd EXCEPT ![pump[o].on] =
                     Disowned(pump[o].on, cmd[pump[o].on].state, TRUE)]
      BY <1>f, <3>1 DEF CommandTypes, CommandRows, Disowned
    <3>3. pump[o].attempts < MaxAttempts
      BY <2>3, CommandFields, CommandConstants
    <3> QED BY <1>8, <2>3, <3>2, <3>3 DEF SettleFailure, LetsGo, PumpGoesIdle
  <2> QED BY <2>1, <2>2, <2>3
<1> QED BY <1>1, <1>2, <1>3, <1>4, <1>5, <1>6, <1>7, <1>8 DEF CommandPumpStep

\* The types are kept.
LEMMA CommandTypeStep ==
    ASSUME CommandTypes, CommandMove
    PROVE  CommandTypes'
<1>t. /\ cmd \in [Commands -> CommandRows] /\ pump \in [Owners -> Pumps]
      /\ nextSeq \in Nat /\ fenceSeq \in Nat /\ run \in RunStates /\ inputs \subseteq Continues
  BY DEF CommandTypes
<1>on. \A o \in Owners : pump[o].on \in Commands
  BY CommandFields
<1>row. \A c \in Commands : cmd[c] \in CommandRows
  BY CommandFields
<1>1. ASSUME NEW o \in Owners, Claims(o) PROVE CommandTypes'
  <2>1. PICK c \in Commands, q \in Pumps :
           /\ cmd' = [cmd EXCEPT ![c] = [cmd[c] EXCEPT !.owner = o, !.epoch = @ + 1,
                                                       !.live = TRUE, !.attempts = @ + 1]]
           /\ pump' = [pump EXCEPT ![o] = q]
    BY <1>1 DEF Claims
  <2>2. cmd' \in [Commands -> CommandRows]
    BY <1>t, <1>row, <2>1, RowWrites
  <2> QED BY <1>t, <1>1, <2>1, <2>2 DEF Claims, CommandTypes
<1>2. ASSUME NEW o \in Owners, Advances(o) PROVE CommandTypes'
  <2>1. PICK q \in Pumps : pump' = [pump EXCEPT ![o] = q]
    BY <1>2 DEF Advances, PumpGoesOn
  <2>2. \A s \in Unsettled : [cmd[pump[o].on] EXCEPT !.state = s] \in CommandRows
    BY <1>on, <1>row, RowWrites
  <2>3. \/ UNCHANGED cmd
        \/ \E s \in Unsettled :
              cmd' = [cmd EXCEPT ![pump[o].on] = [cmd[pump[o].on] EXCEPT !.state = s]]
    BY <1>2 DEF Advances, Unsettled
  <2>4. cmd' \in [Commands -> CommandRows]
    BY <1>t, <1>on, <2>2, <2>3
  <2> QED BY <1>t, <1>2, <2>1, <2>4 DEF Advances, CommandTypes
<1>3. ASSUME NEW o \in Owners, Applies(o) PROVE CommandTypes'
  <2>1. PICK q \in Pumps : pump' = [pump EXCEPT ![o] = q]
    BY <1>3 DEF Applies, PumpGoesOn
  <2>2. Disowned(pump[o].on, "applied", cmd[pump[o].on].backoff) \in CommandRows
    BY <1>on, RowWrites, CommandFields DEF CommandSettled, Disowned
  <2>3. cmd' \in [Commands -> CommandRows]
    BY <1>t, <1>on, <1>3, <2>2 DEF Applies
  <2>4. run' \in RunStates /\ inputs' \subseteq Continues
    BY <1>t, <1>3 DEF Applies, Effect, RunStates
  <2> QED BY <1>t, <1>3, <2>1, <2>3, <2>4 DEF Applies, CommandTypes
<1>4. ASSUME NEW o \in Owners, LetsGo(o) PROVE CommandTypes'
  <2>1. pump' \in [Owners -> Pumps]
    BY <1>t, <1>4, CommandConstantTypes DEF LetsGo, PumpGoesIdle
  <2>2. /\ Disowned(pump[o].on, "rejected", FALSE) \in CommandRows
        /\ Holds(o) => Disowned(pump[o].on, cmd[pump[o].on].state, TRUE) \in CommandRows
    BY <1>on, RowWrites, CommandFields DEF CommandSettled, Disowned, Holds
  <2>3. cmd' \in [Commands -> CommandRows]
    BY <1>t, <1>on, <1>4, <2>2 DEF LetsGo
  <2>4. run' \in RunStates
    BY <1>t, <1>4 DEF LetsGo, RunStates
  <2> QED BY <1>t, <1>4, <2>1, <2>3, <2>4 DEF LetsGo, CommandTypes
<1>5. ASSUME NEW o \in Owners, CommandHeartbeat(o) PROVE CommandTypes'
  <2>1. cmd' = [cmd EXCEPT ![pump[o].on] = [cmd[pump[o].on] EXCEPT !.live = TRUE]]
    BY <1>5, <1>on, <1>row, <1>t DEF CommandHeartbeat
  <2>2. cmd' \in [Commands -> CommandRows]
    BY <1>t, <1>on, <1>row, <2>1, RowWrites
  <2> QED BY <1>t, <1>5, <2>2 DEF CommandHeartbeat, CommandTypes
<1>6. ASSUME NEW c \in Commands, CommandTime(c) PROVE CommandTypes'
  <2>1. \/ cmd' = [cmd EXCEPT ![c] = [cmd[c] EXCEPT !.live = FALSE]]
        \/ cmd' = [cmd EXCEPT ![c] = [cmd[c] EXCEPT !.backoff = FALSE]]
    BY <1>6, <1>row, <1>t DEF CommandTime, CommandClaimLapses, RetryComesDue
  <2>2. cmd' \in [Commands -> CommandRows]
    BY <1>t, <1>row, <2>1, RowWrites
  <2> QED BY <1>t, <1>6, <2>2 DEF CommandTime, CommandClaimLapses, RetryComesDue, CommandTypes
<1>7. ASSUME NEW c \in Commands, SubmitCommand(c) PROVE CommandTypes'
  <2>1. CASE SubmitStart
    BY <1>t, <2>1, CommandConstantTypes DEF SubmitStart, CommandTypes
  <2>2. CASE SubmitContinue(c)
    BY <1>t, <2>2, CommandConstantTypes DEF SubmitContinue, CommandTypes
  <2>3. CASE c \in Cancels /\ SubmitCancel(c)
    <3>1. cmd' \in [Commands -> CommandRows]
      BY <2>3, SweptRows
    <3>2. nextSeq' = nextSeq + 1 /\ fenceSeq' = nextSeq /\ UNCHANGED <<run, inputs, pump>>
      BY <2>3 DEF SubmitCancel
    <3> QED BY <1>t, <3>1, <3>2 DEF CommandTypes
  <2> QED BY <1>7, <2>1, <2>2, <2>3 DEF SubmitCommand
<1>8. CASE RunEnds \/ WaitOverwritesCancel
  BY <1>t, <1>8 DEF RunEnds, WaitOverwritesCancel, CommandTypes, RunStates
<1>9. ASSUME NEW o \in Owners, CommandPumpDies(o) PROVE CommandTypes'
  BY <1>t, <1>9, CommandConstantTypes DEF CommandPumpDies, CommandTypes
<1>10. CASE UNCHANGED commandVars
  BY <1>t, <1>10 DEF commandVars, CommandTypes
<1> QED
  BY <1>1, <1>2, <1>3, <1>4, <1>5, <1>6, <1>7, <1>8, <1>9, <1>10, PumpStepKinds DEF CommandMove

-----------------------------------------------------------------------------
(* The commands: order.                                                    *)

\* The row of c keeps its place in the stream; a settled command keeps its outcome.
CommandKept(c) ==
    /\ cmd'[c].seq = cmd[c].seq
    /\ cmd'[c].state = "none" <=> cmd[c].state = "none"
    /\ cmd[c].state \in CommandSettled => cmd'[c].state = cmd[c].state
    /\ cmd'[c].owner # NoOwner => cmd'[c].epoch > 0
    /\ HadItsTurn(c)' => HadItsTurn(c) \/ Claimable(c)
    /\ c \in Cancels /\ cmd'[c].state = "applied" => cmd[c].state = "applied" \/ run' # "active"

\* c is accepted.
CommandAdded(c) ==
    /\ cmd[c].state = "none" /\ nextSeq' = nextSeq + 1
    /\ \/ cmd'[c] = Accepted(nextSeq)
       \/ /\ cmd'[c] = [Accepted(nextSeq) EXCEPT !.state = "applied"]
          /\ run' # "active" /\ \A d \in Commands \ {c} : cmd'[d].state \notin Unsettled
    /\ c \in Cancels => fenceSeq' > 0
    /\ c \notin Cancels => \A d \in Cancels : cmd'[d].state = "none"

StreamStep ==
    /\ \A c \in Commands : CommandKept(c) \/ CommandAdded(c)
    /\ nextSeq' \in {nextSeq, nextSeq + 1}
    /\ fenceSeq' = fenceSeq \/ fenceSeq' > 0
    /\ run' = "active" => \/ run \in {"active", "cancel_requested"}
                         \/ cmd[StartCommand].state \in Unsettled
    /\ run = "ended" => run' = "ended"

LEMMA CommandsMoveAlong ==
    ASSUME CommandTypes, StreamNumbered, ServedInTurn, CommandMove
    PROVE  StreamStep
<1>t. /\ cmd \in [Commands -> CommandRows] /\ pump \in [Owners -> Pumps]
      /\ nextSeq \in Nat /\ fenceSeq \in Nat /\ run \in RunStates
  BY DEF CommandTypes
<1>on. \A o \in Owners : pump[o].on \in Commands
  BY CommandFields
<1>row. \A c \in Commands :
           /\ cmd[c] \in CommandRows /\ cmd[c].epoch \in Nat /\ cmd[c].seq \in Nat
           /\ cmd[c].state \in {"none"} \cup Unsettled \cup CommandSettled
           /\ cmd[c].owner # NoOwner => cmd[c].epoch > 0
  BY CommandFields DEF ServedInTurn
<1>same. \A c \in Commands : cmd'[c] = cmd[c] => CommandKept(c)
  BY <1>row DEF CommandKept, HadItsTurn
<1>held. \A o \in Owners : Holds(o) =>
            /\ cmd[pump[o].on].state \in Unsettled /\ cmd[pump[o].on].epoch > 0
            /\ HadItsTurn(pump[o].on)
  BY <1>on, <1>row, PumpConstants DEF Holds, HadItsTurn, Unsettled
<1>1. ASSUME NEW o \in Owners, Claims(o) PROVE StreamStep
  <2>1. PICK c \in Commands :
           /\ Claimable(c)
           /\ cmd' = [cmd EXCEPT ![c] = [cmd[c] EXCEPT !.owner = o, !.epoch = @ + 1,
                                                       !.live = TRUE, !.attempts = @ + 1]]
    BY <1>1 DEF Claims
  <2>2. cmd'[c].seq = cmd[c].seq /\ cmd'[c].state = cmd[c].state
        /\ cmd'[c].epoch = cmd[c].epoch + 1
    BY <1>t, <1>row, <2>1 DEF CommandRows
  <2>3. CommandKept(c)
    BY <1>row, <2>1, <2>2 DEF CommandKept, Claimable, Unsettled, CommandSettled
  <2>4. \A d \in Commands \ {c} : cmd'[d] = cmd[d]
    BY <1>t, <2>1
  <2> QED BY <1>1, <1>same, <2>3, <2>4 DEF Claims, StreamStep
<1>2. ASSUME NEW o \in Owners, Advances(o) PROVE StreamStep
  <2>1. \A d \in Commands \ {pump[o].on} : cmd'[d] = cmd[d]
    BY <1>t, <1>2, <1>on DEF Advances
  <2>2. CommandKept(pump[o].on)
    <3>1. CASE UNCHANGED cmd
      BY <1>on, <1>same, <3>1
    <3>2. CASE Holds(o) /\ ~ UNCHANGED cmd
      <4>1. PICK s \in {"context_call_intent", "context_ready"} :
               cmd' = [cmd EXCEPT ![pump[o].on] = [cmd[pump[o].on] EXCEPT !.state = s]]
        BY <1>2, <3>2 DEF Advances
      <4>2. /\ cmd'[pump[o].on].seq = cmd[pump[o].on].seq /\ cmd'[pump[o].on].state = s
            /\ cmd'[pump[o].on].epoch = cmd[pump[o].on].epoch
        BY <1>t, <1>on, <1>row, <4>1 DEF CommandRows
      <4> QED BY <1>on, <1>row, <1>held, <3>2, <4>1, <4>2
              DEF CommandKept, Unsettled, CommandSettled
    <3> QED BY <1>2, <3>1, <3>2 DEF Advances
  <2> QED BY <1>2, <1>same, <2>1, <2>2 DEF Advances, StreamStep
<1>3. ASSUME NEW o \in Owners, Applies(o) PROVE StreamStep
  <2>1. \A d \in Commands \ {pump[o].on} : cmd'[d] = cmd[d]
    BY <1>t, <1>3, <1>on DEF Applies
  <2>2. /\ cmd'[pump[o].on].seq = cmd[pump[o].on].seq /\ cmd'[pump[o].on].state = "applied"
        /\ cmd'[pump[o].on].owner = NoOwner /\ cmd'[pump[o].on].epoch = cmd[pump[o].on].epoch
    BY <1>t, <1>on, <1>row, <1>3 DEF Applies, Disowned, CommandRows
  <2>3. pump[o].on \in Cancels => run' # "active"
    BY <1>3, CommandConstants DEF Applies, Effect
  <2>4. CommandKept(pump[o].on)
    BY <1>on, <1>row, <1>held, <1>3, <2>2, <2>3 DEF Applies, CommandKept, Unsettled, CommandSettled
  <2>5. run' = "active" => run = "active" \/ cmd[StartCommand].state \in Unsettled
    BY <1>3, <1>held DEF Applies, Effect
  <2>6. run = "ended" => run' = "ended"
    BY <1>3 DEF Applies, Effect
  <2> QED BY <1>3, <1>same, <2>1, <2>4, <2>5, <2>6 DEF Applies, StreamStep
<1>4. ASSUME NEW o \in Owners, LetsGo(o) PROVE StreamStep
  <2>1. \A d \in Commands \ {pump[o].on} : cmd'[d] = cmd[d]
    BY <1>t, <1>4, <1>on DEF LetsGo
  <2>2. CommandKept(pump[o].on)
    <3>1. CASE UNCHANGED cmd
      BY <1>on, <1>same, <3>1
    <3>2. CASE Holds(o) /\ ~ UNCHANGED cmd
      <4>1. PICK s \in {"rejected", cmd[pump[o].on].state}, b \in BOOLEAN :
               cmd' = [cmd EXCEPT ![pump[o].on] = Disowned(pump[o].on, s, b)]
        BY <1>4, <3>2 DEF LetsGo
      <4>2. /\ cmd'[pump[o].on].seq = cmd[pump[o].on].seq /\ cmd'[pump[o].on].state = s
            /\ cmd'[pump[o].on].owner = NoOwner
            /\ cmd'[pump[o].on].epoch = cmd[pump[o].on].epoch
        BY <1>t, <1>on, <1>row, <4>1 DEF CommandRows, Disowned
      <4> QED BY <1>on, <1>row, <1>held, <3>2, <4>1, <4>2
              DEF CommandKept, Unsettled, CommandSettled
    <3> QED BY <1>4, <3>1, <3>2 DEF LetsGo
  <2> QED BY <1>4, <1>same, <2>1, <2>2 DEF LetsGo, StreamStep
<1>5. ASSUME NEW c \in Commands, NEW b \in BOOLEAN, UNCHANGED <<nextSeq, fenceSeq, run>>,
             \/ cmd' = [cmd EXCEPT ![c] = [cmd[c] EXCEPT !.live = b]]
             \/ cmd' = [cmd EXCEPT ![c] = [cmd[c] EXCEPT !.backoff = b]]
      PROVE  StreamStep
  <2>1. \A d \in Commands \ {c} : cmd'[d] = cmd[d]
    BY <1>t, <1>5
  <2>2. /\ cmd'[c].seq = cmd[c].seq /\ cmd'[c].state = cmd[c].state
        /\ cmd'[c].owner = cmd[c].owner /\ cmd'[c].epoch = cmd[c].epoch
    BY <1>t, <1>row, <1>5 DEF CommandRows
  <2>3. CommandKept(c)
    BY <1>row, <2>2 DEF CommandKept, HadItsTurn
  <2> QED BY <1>5, <1>same, <2>1, <2>3 DEF StreamStep
<1>6. ASSUME NEW c \in Commands, SubmitCommand(c) PROVE StreamStep
  <2>0. c \in Commands /\ StartCommand \in Commands /\ Cancels \subseteq Commands
    BY CommandConstantTypes
  <2>1. CASE SubmitStart
    <3>1. \A d \in Commands : cmd[d].state = "none"
      BY <1>row, <2>1 DEF SubmitStart, StreamNumbered
    <3>2. CommandAdded(StartCommand)
      BY <1>t, <2>0, <2>1, <3>1, CommandConstants DEF SubmitStart, CommandAdded
    <3>3. \A d \in Commands \ {StartCommand} : cmd'[d] = cmd[d]
      BY <1>t, <2>1 DEF SubmitStart
    <3> QED BY <1>t, <1>same, <2>1, <3>2, <3>3 DEF SubmitStart, StreamStep
  <2>2. CASE c \in Continues /\ SubmitContinue(c)
    <3>1. \A d \in Cancels : cmd[d].state = "none"
      BY <2>2 DEF SubmitContinue, StreamNumbered
    <3>2. CommandAdded(c)
      BY <1>t, <2>0, <2>2, <3>1, CommandConstants DEF SubmitContinue, CommandAdded
    <3>3. \A d \in Commands \ {c} : cmd'[d] = cmd[d]
      BY <1>t, <2>2 DEF SubmitContinue
    <3> QED BY <1>t, <1>same, <2>2, <3>2, <3>3 DEF SubmitContinue, StreamStep
  <2>3. CASE c \in Cancels /\ SubmitCancel(c)
    <3>1. /\ \A d \in Commands \ {c} :
                cmd'[d] = IF cmd[d].state = "accepted" /\ d \notin Cancels
                          THEN [cmd[d] EXCEPT !.state = "cancelled", !.owner = NoOwner,
                                              !.live = FALSE]
                          ELSE cmd[d]
          /\ \/ cmd'[c] = Accepted(nextSeq)
             \/ /\ cmd'[c] = [Accepted(nextSeq) EXCEPT !.state = "applied"]
                /\ run = "absent" /\ \A d \in Commands \ {c} : cmd'[d].state \notin Unsettled
      BY <2>3, SweptRows
    <3>2. CommandAdded(c)
      BY <2>3, <3>1 DEF SubmitCancel, CommandAdded
    <3>3. ASSUME NEW d \in Commands \ {c} PROVE CommandKept(d)
      <4>1. CASE cmd'[d] = cmd[d]
        BY <1>same, <4>1
      <4>2. CASE cmd[d].state = "accepted" /\ cmd'[d] = [cmd[d] EXCEPT !.state = "cancelled",
                                                            !.owner = NoOwner, !.live = FALSE]
        <5>1. /\ cmd'[d].seq = cmd[d].seq /\ cmd'[d].state = "cancelled"
              /\ cmd'[d].owner = NoOwner /\ cmd'[d].epoch = cmd[d].epoch
          BY <1>row, <4>2 DEF CommandRows
        <5> QED BY <1>row, <4>2, <5>1 DEF CommandKept, HadItsTurn, CommandSettled
      <4> QED BY <3>1, <4>1, <4>2
    <3> QED BY <1>t, <2>3, <3>2, <3>3 DEF SubmitCancel, StreamStep
  <2> QED BY <1>6, <2>1, <2>2, <2>3 DEF SubmitCommand
<1>7. ASSUME UNCHANGED <<cmd, nextSeq, fenceSeq>>,
             run' \in {run, "ended"} \/ run = "cancel_requested"
      PROVE  StreamStep
  BY <1>7, <1>same DEF StreamStep
<1>8. ASSUME NEW o \in Owners, CommandHeartbeat(o) PROVE StreamStep
  <2>1. cmd' = [cmd EXCEPT ![pump[o].on] = [cmd[pump[o].on] EXCEPT !.live = TRUE]]
    BY <1>8, <1>on, <1>row, <1>t DEF CommandHeartbeat
  <2> QED BY <1>5, <1>8, <1>on, <2>1 DEF CommandHeartbeat
<1>9. ASSUME NEW c \in Commands, CommandTime(c) PROVE StreamStep
  <2>1. \/ cmd' = [cmd EXCEPT ![c] = [cmd[c] EXCEPT !.live = FALSE]]
        \/ cmd' = [cmd EXCEPT ![c] = [cmd[c] EXCEPT !.backoff = FALSE]]
    BY <1>9, <1>row, <1>t DEF CommandTime, CommandClaimLapses, RetryComesDue
  <2> QED BY <1>5, <1>9, <2>1 DEF CommandTime, CommandClaimLapses, RetryComesDue
<1>10. CASE RunEnds \/ WaitOverwritesCancel
  BY <1>7, <1>10 DEF RunEnds, WaitOverwritesCancel
<1>11. ASSUME NEW o \in Owners, CommandPumpDies(o) PROVE StreamStep
  BY <1>7, <1>11 DEF CommandPumpDies
<1>12. CASE UNCHANGED commandVars
  BY <1>7, <1>12 DEF commandVars
<1> QED
  BY <1>1, <1>2, <1>3, <1>4, <1>6, <1>8, <1>9, <1>10, <1>11, <1>12, PumpStepKinds DEF CommandMove

\* The order of the stream is kept.
LEMMA StreamNumberedStep ==
    ASSUME CommandTypes, StreamNumbered, StreamStep
    PROVE  StreamNumbered'
<1>t. nextSeq \in Nat /\ Cancels \subseteq Commands
      /\ \A c \in Commands : cmd[c].seq \in Nat
  BY CommandFields, CommandConstantTypes DEF CommandTypes
<1>a. \A c \in Commands : CommandAdded(c) => cmd'[c].seq = nextSeq /\ cmd'[c].state # "none"
  BY DEF CommandAdded, Accepted, NoCommand
<1>1. ASSUME NEW c \in Commands, cmd'[c].state # "none" PROVE cmd'[c].seq < nextSeq'
  BY <1>t, <1>a, <1>1 DEF StreamStep, StreamNumbered, CommandKept, CommandAdded
<1>2. ASSUME NEW c \in Cancels, cmd'[c].state # "none" PROVE fenceSeq' > 0
  BY <1>t, <1>2 DEF StreamStep, StreamNumbered, CommandKept, CommandAdded
<1>3. ASSUME NEW c \in Cancels, NEW d \in Commands \ Cancels, cmd'[c].state # "none",
             cmd'[d].state # "none"
      PROVE  cmd'[d].seq < cmd'[c].seq
  <2>1. CommandKept(d)
    BY <1>3 DEF StreamStep, CommandAdded
  <2>2. cmd[d].seq < nextSeq /\ cmd'[d].seq = cmd[d].seq /\ cmd[d].state # "none"
    BY <1>3, <2>1 DEF StreamNumbered, CommandKept
  <2>3. CASE CommandAdded(c)
    BY <1>t, <1>a, <2>2, <2>3
  <2>4. CASE CommandKept(c)
    BY <1>3, <2>2, <2>4 DEF CommandKept, StreamNumbered
  <2> QED BY <1>t, <2>3, <2>4 DEF StreamStep
<1> QED BY <1>1, <1>2, <1>3 DEF StreamNumbered

LEMMA ServedInTurnStep ==
    ASSUME CommandTypes, CommandTypes', StreamNumbered, ServedInTurn, StreamStep
    PROVE  ServedInTurn'
<1>t. nextSeq \in Nat
      /\ \A c \in Commands : /\ cmd[c].seq \in Nat
                             /\ cmd[c].state \in {"none"} \cup Unsettled \cup CommandSettled
  BY CommandFields DEF CommandTypes
<1>t1. \A c \in Commands : cmd'[c].state \in {"none"} \cup Unsettled \cup CommandSettled
  BY DEF CommandTypes, CommandRows
<1>a. \A c \in Commands : CommandAdded(c) =>
          /\ cmd'[c].seq = nextSeq /\ cmd'[c].epoch = 0 /\ cmd'[c].owner = NoOwner
          /\ cmd'[c].state \in {"accepted", "applied"}
  BY DEF CommandAdded, Accepted, NoCommand
<1>1. ASSUME NEW d \in Commands, cmd'[d].owner # NoOwner PROVE cmd'[d].epoch > 0
  BY <1>a, <1>1 DEF StreamStep, CommandKept
<1>2. ASSUME NEW d \in Commands, HadItsTurn(d)', NEW c \in Earlier(d)'
      PROVE  cmd'[c].state \in CommandSettled
  <2>1. c \in Commands /\ cmd'[c].state # "none" /\ cmd'[c].seq < cmd'[d].seq
    BY <1>2 DEF Earlier
  <2>2. CASE CommandKept(d)
    <3>1. HadItsTurn(d) \/ Claimable(d)
      BY <1>2, <2>2 DEF CommandKept
    <3>2. \A e \in Earlier(d) : cmd[e].state \in CommandSettled
      BY <3>1 DEF ServedInTurn, Claimable
    <3>3. cmd[d].state # "none"
      BY <3>1 DEF HadItsTurn, Claimable, Unsettled
    <3>4. cmd'[d].seq = cmd[d].seq /\ cmd[d].seq < nextSeq
      BY <2>2, <3>3 DEF CommandKept, StreamNumbered
    <3>5. ~CommandAdded(c)
      BY <1>t, <1>a, <2>1, <3>4
    <3>6. CommandKept(c)
      BY <2>1, <3>5 DEF StreamStep
    <3>7. c \in Earlier(d)
      BY <2>1, <3>4, <3>6 DEF CommandKept, Earlier
    <3> QED BY <3>2, <3>6, <3>7 DEF CommandKept
  <2>3. CASE CommandAdded(d)
    <3>1. cmd'[d].state = "applied"
      BY <1>2, <1>a, <2>3 DEF HadItsTurn
    <3>2. \A e \in Commands \ {d} : cmd'[e].state \notin Unsettled
      BY <2>3, <3>1 DEF CommandAdded, Accepted, NoCommand
    <3>3. c # d
      BY <1>a, <1>t, <2>1, <2>3
    <3> QED BY <1>t1, <2>1, <3>2, <3>3
  <2> QED BY <2>2, <2>3 DEF StreamStep
<1> QED BY <1>1, <1>2 DEF ServedInTurn

\* The commands that are not cancels come before an applied cancel, so they are settled.
LEMMA AppliedCancelEndsAll ==
    ASSUME CommandTypes, StreamNumbered, ServedInTurn,
           NEW c \in Cancels, cmd[c].state = "applied", NEW d \in Commands \ Cancels
    PROVE  cmd[d].state \notin Unsettled
<1>1. c \in Commands
  BY CommandConstantTypes
<1>2. HadItsTurn(c)
  BY DEF HadItsTurn
<1>3. cmd[d].state # "none" => d \in Earlier(c)
  BY DEF StreamNumbered, Earlier
<1>4. d \in Earlier(c) => cmd[d].state \in CommandSettled
  BY <1>1, <1>2 DEF ServedInTurn
<1> QED BY <1>3, <1>4 DEF Unsettled, CommandSettled

\* After an applied cancel the Run is active only if it was, or was asked to cancel.
LEMMA CancelledRunStep ==
    ASSUME CommandTypes, StreamNumbered, ServedInTurn, StreamStep, CancelApplied', run' = "active"
    PROVE  run = "cancel_requested" \/ (CancelApplied /\ run = "active")
<1>0. PICK c \in Cancels : cmd'[c].state = "applied"
  BY DEF CancelApplied
<1>1. c \in Commands /\ StartCommand \in Commands \ Cancels
  BY CommandConstantTypes, CommandConstants
<1>2. CASE CommandAdded(c)
  BY <1>0, <1>2 DEF CommandAdded, Accepted, NoCommand
<1>3. CASE CommandKept(c)
  <2>1. cmd[c].state = "applied"
    BY <1>0, <1>3 DEF CommandKept
  <2>2. cmd[StartCommand].state \notin Unsettled
    BY <1>1, <2>1, AppliedCancelEndsAll
  <2> QED BY <2>1, <2>2 DEF StreamStep, CancelApplied
<1> QED BY <1>1, <1>2, <1>3 DEF StreamStep

-----------------------------------------------------------------------------
(* The commands: attempts.                                                 *)

\* A step that is not a claim: nobody holds a command that did not hold it before, no
\* command is tried once more, and a command in the hands of a pump stays there, is
\* settled, is given back before its last attempt, or pays with a fault.
HoldersKept ==
    \A o \in Owners :
        /\ pump'[o].at # "idle" /\ Holds(o)' =>
              /\ pump[o].at # "idle" /\ Holds(o)
              /\ pump'[o].on = pump[o].on /\ pump'[o].attempts = pump[o].attempts
              /\ cmd'[pump[o].on].attempts = cmd[pump[o].on].attempts
        /\ pump'[o].at = "after" =>
              \/ pump[o].at = "after" /\ pump'[o].on = pump[o].on
              \/ cmd'[pump'[o].on].state \in CommandSettled
AttemptsKept ==
    \A c \in Commands :
        /\ cmd'[c].attempts \in {0, cmd[c].attempts}
        /\ cmd'[c].state \in Unsettled /\ cmd'[c].attempts # 0 =>
              /\ cmd[c].state \in Unsettled
              /\ cmd[c].live /\ CommandWorkedOn(c) =>
                    \/ cmd'[c].live /\ CommandWorkedOn(c)'
                    \/ faults' = faults + 1
                    \/ cmd'[c].attempts < MaxAttempts

\* Work on a command that o holds or that nobody touches leaves the others theirs.
LEMMA OthersKept ==
    ASSUME CommandTypes, NEW o \in Owners, NEW q, pump' = [pump EXCEPT ![o] = q],
           q.at = "after" => \/ pump[o].at = "after" /\ q.on = pump[o].on
                             \/ cmd'[q.on].state \in CommandSettled,
           q.at # "idle" => /\ q.on = pump[o].on /\ q.epoch = pump[o].epoch
                            /\ q.attempts = pump[o].attempts /\ pump[o].at # "idle",
           NEW r \in CommandRows, r.attempts = cmd[pump[o].on].attempts,
           \/ UNCHANGED cmd
           \/ Holds(o) /\ cmd' = [cmd EXCEPT ![pump[o].on] = r],
           r.owner # NoOwner => /\ r.owner = cmd[pump[o].on].owner
                                /\ r.epoch = cmd[pump[o].on].epoch
    PROVE  /\ HoldersKept
           /\ \A c \in Commands : cmd'[c].attempts = cmd[c].attempts
           /\ \A c \in Commands : cmd'[c].state \in Unsettled => cmd[c].state \in Unsettled
           /\ \A p \in Owners \ {o} : pump[p].at # "idle" /\ Holds(p) =>
                 /\ pump'[p] = pump[p] /\ Holds(p)' /\ cmd'[pump[p].on] = cmd[pump[p].on]
<1>t. cmd \in [Commands -> CommandRows] /\ pump \in [Owners -> Pumps]
  BY DEF CommandTypes
<1>on. \A p \in Owners : pump[p].on \in Commands
  BY CommandFields
<1>1. pump'[o] = q /\ \A p \in Owners \ {o} : pump'[p] = pump[p]
  BY <1>t
<1>2. ASSUME NEW p \in Owners \ {o}, Holds(p)
      PROVE  cmd'[pump[p].on] = cmd[pump[p].on]
  BY <1>t, <1>on, <1>2 DEF Holds
<1>3. \A c \in Commands : cmd'[c] = cmd[c] \/ (c = pump[o].on /\ Holds(o) /\ cmd'[c] = r)
  BY <1>t, <1>on
<1>4. \A c \in Commands : cmd'[c].attempts = cmd[c].attempts
  BY <1>3
<1>5. \A c \in Commands : cmd'[c].state \in Unsettled => cmd[c].state \in Unsettled
  BY <1>3 DEF Holds
<1>6. \A p \in Owners \ {o} : Holds(p) => Holds(p)'
  BY <1>1, <1>2 DEF Holds
<1>7. ASSUME NEW p \in Owners, pump'[p].at # "idle", Holds(p)'
      PROVE  /\ pump[p].at # "idle" /\ Holds(p)
             /\ pump'[p].on = pump[p].on /\ pump'[p].attempts = pump[p].attempts
  <2>1. /\ pump[p].at # "idle" /\ pump'[p].on = pump[p].on
        /\ pump'[p].epoch = pump[p].epoch /\ pump'[p].attempts = pump[p].attempts
    BY <1>1, <1>7
  <2>2. /\ cmd'[pump[p].on].state \in Unsettled /\ cmd'[pump[p].on].owner = p
        /\ cmd'[pump[p].on].epoch = pump[p].epoch
    BY <1>7, <2>1 DEF Holds
  <2>3. /\ cmd[pump[p].on].state \in Unsettled /\ cmd[pump[p].on].owner = p
        /\ cmd[pump[p].on].epoch = pump[p].epoch
    BY <1>3, <1>5, <1>on, <2>2, PumpConstants
  <2> QED BY <2>1, <2>3 DEF Holds
<1>8. HoldersKept
  BY <1>1, <1>4, <1>7, <1>on DEF HoldersKept
<1> QED BY <1>1, <1>2, <1>4, <1>5, <1>6, <1>8

\* The steps of a pump with its command, and the end of a pump.
LEMMA WorkKeepsAttempts ==
    ASSUME CommandTypes, AttemptsAccounted, NEW o \in Owners,
           Advances(o) \/ Applies(o) \/ LetsGo(o) \/ (CommandPumpDies(o) /\ Fault)
    PROVE  HoldersKept /\ AttemptsKept
<1>t. cmd \in [Commands -> CommandRows] /\ pump \in [Owners -> Pumps]
  BY DEF CommandTypes
<1>on. \A p \in Owners : pump[p].on \in Commands
  BY CommandFields
<1>row. \A c \in Commands : cmd[c] \in CommandRows /\ cmd[c].backoff \in BOOLEAN
  BY CommandFields
<1>1. CASE Advances(o)
  <2>1. PICK q \in Pumps :
           /\ pump' = [pump EXCEPT ![o] = q]
           /\ pump[o].at # "idle" /\ q.at # "idle" /\ q.at # "after"
           /\ q.on = pump[o].on /\ q.epoch = pump[o].epoch /\ q.attempts = pump[o].attempts
    BY <1>1 DEF Advances, PumpGoesOn
  <2>2. PICK s \in Unsettled \cup {cmd[pump[o].on].state} :
           \/ UNCHANGED cmd
           \/ /\ Holds(o) /\ s \in Unsettled
              /\ cmd' = [cmd EXCEPT ![pump[o].on] = [cmd[pump[o].on] EXCEPT !.state = s]]
    BY <1>1 DEF Advances, Unsettled
  <2> DEFINE r == IF UNCHANGED cmd THEN cmd[pump[o].on] ELSE [cmd[pump[o].on] EXCEPT !.state = s]
  <2>3. r \in CommandRows
    BY <1>on, <1>row, <2>2, RowWrites
  <2>4. /\ r.attempts = cmd[pump[o].on].attempts /\ r.owner = cmd[pump[o].on].owner
        /\ r.epoch = cmd[pump[o].on].epoch /\ r.live = cmd[pump[o].on].live
        /\ r.state = cmd[pump[o].on].state \/ r.state \in Unsettled
    BY <1>on, <1>row, <2>2 DEF CommandRows
  <2>5. UNCHANGED cmd \/ (Holds(o) /\ cmd' = [cmd EXCEPT ![pump[o].on] = r])
    BY <2>2
  <2> HIDE DEF r
  <2>6. /\ HoldersKept
        /\ \A c \in Commands : cmd'[c].attempts = cmd[c].attempts
        /\ \A c \in Commands : cmd'[c].state \in Unsettled => cmd[c].state \in Unsettled
        /\ \A p \in Owners \ {o} : pump[p].at # "idle" /\ Holds(p) =>
              /\ pump'[p] = pump[p] /\ Holds(p)' /\ cmd'[pump[p].on] = cmd[pump[p].on]
    BY <2>1, <2>3, <2>4, <2>5, OthersKept
  <2>7. Holds(o) => pump'[o].at # "idle" /\ pump'[o].on = pump[o].on /\ Holds(o)'
                    /\ cmd'[pump[o].on].live = cmd[pump[o].on].live
    <3>1. pump'[o] = q
      BY <1>t, <2>1
    <3>2. cmd'[pump[o].on] = cmd[pump[o].on] \/ (Holds(o) /\ cmd'[pump[o].on] = r)
      BY <1>t, <1>on, <2>5
    <3> QED BY <2>1, <2>4, <3>1, <3>2 DEF Holds
  <2>8. ASSUME NEW c \in Commands, cmd[c].live, CommandWorkedOn(c)
        PROVE  cmd'[c].live /\ CommandWorkedOn(c)'
    <3>1. PICK p \in Owners : pump[p].at # "idle" /\ pump[p].on = c /\ Holds(p)
      BY <2>8 DEF CommandWorkedOn
    <3>2. pump'[p].at # "idle" /\ pump'[p].on = c /\ Holds(p)' /\ cmd'[c].live = cmd[c].live
      BY <2>6, <2>7, <3>1
    <3> QED BY <2>8, <3>2 DEF CommandWorkedOn
  <2> QED BY <2>6, <2>8 DEF AttemptsKept
<1>2. CASE Applies(o)
  <2>1. PICK q \in Pumps :
           /\ pump' = [pump EXCEPT ![o] = q]
           /\ pump[o].at # "idle" /\ q.at = "after"
           /\ q.on = pump[o].on /\ q.epoch = pump[o].epoch /\ q.attempts = pump[o].attempts
    BY <1>2 DEF Applies, PumpGoesOn
  <2> DEFINE r == Disowned(pump[o].on, "applied", cmd[pump[o].on].backoff)
  <2>2. Holds(o) /\ cmd' = [cmd EXCEPT ![pump[o].on] = r]
    BY <1>2 DEF Applies
  <2>b. cmd[pump[o].on] \in CommandRows /\ cmd[pump[o].on].backoff \in BOOLEAN
        /\ "applied" \in Unsettled \cup CommandSettled
    BY <1>on, <1>row DEF CommandSettled
  <2>3. r \in CommandRows /\ r.attempts = cmd[pump[o].on].attempts /\ r.owner = NoOwner
        /\ r.state = "applied"
    BY <2>b, DisownedRow, Zenon
  <2> HIDE DEF r
  <2>4. cmd'[pump[o].on] = r
    BY <1>t, <1>on, <2>2
  <2>5. cmd'[q.on].state \in CommandSettled
    BY <2>1, <2>3, <2>4 DEF CommandSettled
  <2>6. /\ HoldersKept
        /\ \A c \in Commands : cmd'[c].attempts = cmd[c].attempts
        /\ \A c \in Commands : cmd'[c].state \in Unsettled => cmd[c].state \in Unsettled
        /\ \A p \in Owners \ {o} : pump[p].at # "idle" /\ Holds(p) =>
              /\ pump'[p] = pump[p] /\ Holds(p)' /\ cmd'[pump[p].on] = cmd[pump[p].on]
    BY <2>1, <2>2, <2>3, <2>5, OthersKept
  <2>7. ASSUME NEW c \in Commands, cmd'[c].state \in Unsettled, cmd[c].live, CommandWorkedOn(c)
        PROVE  cmd'[c].live /\ CommandWorkedOn(c)'
    <3>1. PICK p \in Owners : pump[p].at # "idle" /\ pump[p].on = c /\ Holds(p)
      BY <2>7 DEF CommandWorkedOn
    <3>2. p # o
      BY <2>3, <2>4, <2>7, <3>1 DEF Unsettled
    <3>3. pump'[p].at # "idle" /\ pump'[p].on = c /\ Holds(p)' /\ cmd'[c].live = cmd[c].live
      BY <2>6, <3>1, <3>2
    <3> QED BY <2>7, <3>3 DEF CommandWorkedOn
  <2> QED BY <2>6, <2>7 DEF AttemptsKept
<1>3. CASE LetsGo(o)
  <2>1. pump' = [pump EXCEPT ![o] = IdlePump] /\ IdlePump.at = "idle"
    BY <1>3, CommandConstantTypes DEF LetsGo, PumpGoesIdle
  <2>2. PICK r \in CommandRows :
           /\ r.attempts = cmd[pump[o].on].attempts
           /\ r.owner # NoOwner => /\ r.owner = cmd[pump[o].on].owner
                                   /\ r.epoch = cmd[pump[o].on].epoch
           /\ \/ UNCHANGED cmd /\ (pump[o].at = "after" \/ ~Holds(o))
              \/ /\ Holds(o) /\ cmd' = [cmd EXCEPT ![pump[o].on] = r]
                 /\ \/ r.state = "rejected"
                    \/ pump[o].at # "idle" /\ pump[o].attempts < MaxAttempts
    <3>1. CASE UNCHANGED cmd /\ (pump[o].at = "after" \/ ~Holds(o))
      BY <1>on, <1>row, <3>1
    <3>2. CASE Holds(o) /\ cmd' = [cmd EXCEPT ![pump[o].on] = Disowned(pump[o].on, "rejected", FALSE)]
      <4> DEFINE r == Disowned(pump[o].on, "rejected", FALSE)
      <4>1. r \in CommandRows /\ r.attempts = cmd[pump[o].on].attempts /\ r.owner = NoOwner
            /\ r.state = "rejected"
        BY <1>on, <1>row, DisownedRow DEF CommandSettled
      <4> QED BY <3>2, <4>1
    <3>3. CASE /\ Holds(o) /\ pump[o].at # "idle" /\ pump[o].attempts < MaxAttempts
               /\ cmd' = [cmd EXCEPT ![pump[o].on] =
                             Disowned(pump[o].on, cmd[pump[o].on].state, TRUE)]
      <4> DEFINE r == Disowned(pump[o].on, cmd[pump[o].on].state, TRUE)
      <4>1. r \in CommandRows /\ r.attempts = cmd[pump[o].on].attempts /\ r.owner = NoOwner
        BY <1>on, <1>row, <3>3, DisownedRow DEF Holds
      <4> QED BY <3>3, <4>1
    <3> QED BY <1>3, <3>1, <3>2, <3>3 DEF LetsGo
  <2>3. /\ HoldersKept
        /\ \A c \in Commands : cmd'[c].attempts = cmd[c].attempts
        /\ \A c \in Commands : cmd'[c].state \in Unsettled => cmd[c].state \in Unsettled
        /\ \A p \in Owners \ {o} : pump[p].at # "idle" /\ Holds(p) =>
              /\ pump'[p] = pump[p] /\ Holds(p)' /\ cmd'[pump[p].on] = cmd[pump[p].on]
    BY <2>1, <2>2, OthersKept
  <2>4. ASSUME NEW c \in Commands, cmd'[c].state \in Unsettled, cmd[c].live, CommandWorkedOn(c)
        PROVE  cmd'[c].attempts < MaxAttempts \/ (cmd'[c].live /\ CommandWorkedOn(c)')
    <3>1. PICK p \in Owners : pump[p].at # "idle" /\ pump[p].on = c /\ Holds(p)
      BY <2>4 DEF CommandWorkedOn
    <3>2. CASE p = o
      <4>1. pump[o].at # "after"
        BY <3>1, <3>2 DEF AttemptsAccounted, Holds, Unsettled, CommandSettled
      <4>2. cmd' = [cmd EXCEPT ![c] = r]
        BY <2>2, <3>1, <3>2, <4>1
      <4>3. cmd'[c] = r
        BY <1>t, <4>2
      <4>4. pump[o].attempts < MaxAttempts
        BY <2>2, <2>4, <3>1, <3>2, <4>1, <4>3 DEF Unsettled
      <4>5. pump[o].attempts = cmd[c].attempts
        BY <3>1, <3>2 DEF AttemptsAccounted
      <4> QED BY <2>3, <4>4, <4>5
    <3>3. CASE p # o
      <4>1. pump'[p].at # "idle" /\ pump'[p].on = c /\ Holds(p)' /\ cmd'[c].live = cmd[c].live
        BY <2>3, <3>1, <3>3
      <4> QED BY <2>4, <4>1 DEF CommandWorkedOn
    <3> QED BY <3>2, <3>3
  <2> QED BY <2>3, <2>4 DEF AttemptsKept
<1>4. CASE CommandPumpDies(o) /\ Fault
  <2>1. pump' = [pump EXCEPT ![o] = IdlePump] /\ IdlePump.at = "idle" /\ UNCHANGED cmd
        /\ faults' = faults + 1
    BY <1>4, CommandConstantTypes DEF CommandPumpDies, Fault
  <2>2. cmd[pump[o].on] \in CommandRows
    BY <1>on, <1>row
  <2>3. /\ HoldersKept
        /\ \A c \in Commands : cmd'[c].attempts = cmd[c].attempts
        /\ \A c \in Commands : cmd'[c].state \in Unsettled => cmd[c].state \in Unsettled
    BY <2>1, <2>2, OthersKept
  <2> QED BY <2>1, <2>3 DEF AttemptsKept
<1> QED BY <1>1, <1>2, <1>3, <1>4

\* Time and heartbeats.
LEMMA TimeKeepsAttempts ==
    ASSUME CommandTypes, NEW c \in Commands, UNCHANGED pump,
           \/ cmd' = [cmd EXCEPT ![c] = [cmd[c] EXCEPT !.live = TRUE]]
           \/ /\ cmd' = [cmd EXCEPT ![c] = [cmd[c] EXCEPT !.live = FALSE]]
              /\ CommandWorkedOn(c) => faults' = faults + 1
           \/ cmd' = [cmd EXCEPT ![c] = [cmd[c] EXCEPT !.backoff = FALSE]]
    PROVE  HoldersKept /\ AttemptsKept
<1>t. cmd \in [Commands -> CommandRows] /\ cmd[c] \in CommandRows
      /\ \A p \in Owners : pump[p].on \in Commands
  BY CommandFields DEF CommandTypes
<1>1. \A d \in Commands :
         /\ cmd'[d].state = cmd[d].state /\ cmd'[d].owner = cmd[d].owner
         /\ cmd'[d].epoch = cmd[d].epoch /\ cmd'[d].attempts = cmd[d].attempts
  BY <1>t DEF CommandRows
<1>2. \A o \in Owners : Holds(o)' <=> Holds(o)
  BY <1>t, <1>1 DEF Holds
<1>3. HoldersKept
  BY <1>t, <1>1, <1>2 DEF HoldersKept
<1>4. \A d \in Commands : CommandWorkedOn(d)' <=> CommandWorkedOn(d)
  BY <1>2 DEF CommandWorkedOn
<1>5. \A d \in Commands \ {c} : cmd'[d] = cmd[d]
  BY <1>t
<1>6. cmd[c].live /\ CommandWorkedOn(c) => cmd'[c].live \/ faults' = faults + 1
  BY <1>t DEF CommandRows
<1> QED BY <1>1, <1>3, <1>4, <1>5, <1>6 DEF AttemptsKept

\* A command that is accepted has no owner; those a cancel sweeps are settled.
LEMMA SubmitKeepsAttempts ==
    ASSUME CommandTypes, StreamNumbered, NEW c \in Commands, SubmitCommand(c)
    PROVE  HoldersKept /\ AttemptsKept
<1>t. /\ cmd \in [Commands -> CommandRows] /\ nextSeq \in Nat
      /\ \A p \in Owners : pump[p].on \in Commands
      /\ \A d \in Commands : cmd[d] \in CommandRows /\ cmd[d].seq \in Nat
  BY CommandFields DEF CommandTypes
<1>p. UNCHANGED pump
  BY DEF SubmitCommand, SubmitStart, SubmitContinue, SubmitCancel
<1>1. \A d \in Commands :
         \/ cmd'[d] = cmd[d]
         \/ cmd'[d].attempts = 0 /\ cmd'[d].owner = NoOwner /\ cmd[d].state = "none"
         \/ cmd'[d].state = "cancelled" /\ cmd'[d].attempts = cmd[d].attempts
            /\ cmd'[d].owner = NoOwner
  <2>1. CASE c = StartCommand /\ SubmitStart
    <3>1. cmd[c].state = "none"
      BY <1>t, <2>1 DEF SubmitStart, StreamNumbered
    <3> QED BY <1>t, <2>1, <3>1 DEF SubmitStart, Accepted, NoCommand
  <2>2. CASE SubmitContinue(c)
    BY <1>t, <2>2 DEF SubmitContinue, Accepted, NoCommand
  <2>3. CASE c \in Cancels /\ SubmitCancel(c)
    <3>1. /\ \A d \in Commands \ {c} :
                cmd'[d] = IF cmd[d].state = "accepted" /\ d \notin Cancels
                          THEN [cmd[d] EXCEPT !.state = "cancelled", !.owner = NoOwner,
                                              !.live = FALSE]
                          ELSE cmd[d]
          /\ \/ cmd'[c] = Accepted(nextSeq)
             \/ cmd'[c] = [Accepted(nextSeq) EXCEPT !.state = "applied"]
      BY <2>3, SweptRows
    <3>2. cmd'[c].attempts = 0 /\ cmd'[c].owner = NoOwner /\ cmd[c].state = "none"
      BY <2>3, <3>1 DEF SubmitCancel, Accepted, NoCommand
    <3>3. \A d \in Commands \ {c} :
             \/ cmd'[d] = cmd[d]
             \/ cmd'[d].state = "cancelled" /\ cmd'[d].attempts = cmd[d].attempts
                /\ cmd'[d].owner = NoOwner
      BY <1>t, <3>1 DEF CommandRows
    <3> QED BY <3>2, <3>3
  <2> QED BY <2>1, <2>2, <2>3 DEF SubmitCommand
<1>2. ASSUME NEW o \in Owners, Holds(o)'
      PROVE  Holds(o) /\ cmd'[pump[o].on] = cmd[pump[o].on]
  BY <1>t, <1>p, <1>1, <1>2, PumpConstants DEF Holds
<1>3. HoldersKept
  BY <1>p, <1>2 DEF HoldersKept
<1>4. ASSUME NEW d \in Commands, cmd'[d] = cmd[d], CommandWorkedOn(d) PROVE CommandWorkedOn(d)'
  BY <1>p, <1>4 DEF CommandWorkedOn, Holds
<1>5. AttemptsKept
  BY <1>1, <1>4 DEF AttemptsKept, Unsettled
<1> QED BY <1>3, <1>5

\* What these steps keep.
LEMMA KeptAttempts ==
    ASSUME CommandTypes, CommandTypes', faults \in Nat, FaultsGrow, AttemptsWithin,
           AttemptsAccounted, StreamStep, HoldersKept, AttemptsKept
    PROVE  AttemptsWithin' /\ AttemptsAccounted'
<1>t. /\ MaxAttempts \in Nat /\ MaxAttempts > 0
      /\ \A c \in Commands : cmd[c].attempts \in Nat /\ cmd'[c].attempts \in Nat
      /\ \A o \in Owners : pump[o].on \in Commands
      /\ faults' \in Nat /\ faults' >= faults
  BY CommandFields, CommandConstants DEF CommandTypes, CommandRows, FaultsGrow
<1>1. AttemptsWithin'
  BY <1>t DEF AttemptsWithin, AttemptsKept
<1>2. ASSUME NEW o \in Owners, pump'[o].at # "idle", Holds(o)'
      PROVE  pump'[o].attempts = cmd'[pump'[o].on].attempts
  BY <1>2 DEF HoldersKept, AttemptsAccounted
<1>3. ASSUME NEW o \in Owners, pump'[o].at = "after"
      PROVE  cmd'[pump'[o].on].state \in CommandSettled
  <2>1. CASE pump[o].at = "after" /\ pump'[o].on = pump[o].on
    <3>1. cmd[pump[o].on].state \in CommandSettled
      BY <2>1 DEF AttemptsAccounted
    <3>2. CommandKept(pump[o].on)
      BY <1>t, <3>1 DEF StreamStep, CommandAdded, CommandSettled
    <3> QED BY <2>1, <3>1, <3>2 DEF CommandKept
  <2> QED BY <1>3, <2>1 DEF HoldersKept
<1>4. ASSUME NEW c \in Commands, cmd'[c].state \in Unsettled
      PROVE  cmd'[c].attempts < MaxAttempts + faults' \/ (cmd'[c].live /\ CommandWorkedOn(c)')
  <2>1. CASE cmd'[c].attempts = 0
    <3>1. \A n, m \in Nat : n > 0 => 0 < n + m
      OBVIOUS
    <3>2. 0 < MaxAttempts + faults'
      BY <1>t, <3>1
    <3> QED BY <2>1, <3>2
  <2>2. CASE cmd'[c].attempts # 0
    <3>1. cmd'[c].attempts = cmd[c].attempts /\ cmd[c].state \in Unsettled
      BY <1>4, <2>2 DEF AttemptsKept
    <3>2. CASE cmd[c].attempts < MaxAttempts + faults
      BY <1>t, <3>1, <3>2
    <3>3. CASE cmd[c].live /\ CommandWorkedOn(c)
      <4>1. \/ cmd'[c].live /\ CommandWorkedOn(c)'
            \/ faults' = faults + 1
            \/ cmd'[c].attempts < MaxAttempts
        BY <1>4, <2>2, <3>3 DEF AttemptsKept
      <4>2. cmd[c].attempts <= MaxAttempts + faults
        BY DEF AttemptsWithin
      <4> QED BY <1>t, <3>1, <4>1, <4>2
    <3> QED BY <3>1, <3>2, <3>3 DEF AttemptsAccounted
  <2> QED BY <2>1, <2>2
<1> QED BY <1>1, <1>2, <1>3, <1>4 DEF AttemptsAccounted

\* A claim is made of a command that nobody works on, so an attempt is left.
LEMMA ClaimCounts ==
    ASSUME CommandTypes, CommandTypes', faults \in Nat, AttemptsWithin,
           AttemptsAccounted, NEW o \in Owners, Claims(o)
    PROVE  AttemptsWithin' /\ AttemptsAccounted'
<1>t. /\ cmd \in [Commands -> CommandRows] /\ pump \in [Owners -> Pumps] /\ UNCHANGED faults
      /\ \A c \in Commands : /\ cmd[c] \in CommandRows /\ cmd[c].attempts \in Nat
                             /\ cmd[c].epoch \in Nat /\ cmd[c].live \in BOOLEAN
      /\ \A p \in Owners : pump[p].on \in Commands
      /\ MaxAttempts \in Nat /\ pump[o].at = "idle"
  BY CommandFields, CommandConstants DEF CommandTypes, Claims
<1>1. PICK c \in Commands, q \in Pumps :
         /\ Claimable(c)
         /\ cmd' = [cmd EXCEPT ![c] = [cmd[c] EXCEPT !.owner = o, !.epoch = @ + 1,
                                                     !.live = TRUE, !.attempts = @ + 1]]
         /\ pump' = [pump EXCEPT ![o] = q]
         /\ q.at = "begin" /\ q.on = c /\ q.epoch = cmd[c].epoch + 1
         /\ q.attempts = cmd[c].attempts + 1
  BY DEF Claims
<1>2. /\ cmd'[c].owner = o /\ cmd'[c].epoch = cmd[c].epoch + 1 /\ cmd'[c].live
      /\ cmd'[c].attempts = cmd[c].attempts + 1 /\ cmd'[c].state = cmd[c].state
  BY <1>t, <1>1 DEF CommandRows
<1>3. \A d \in Commands \ {c} : cmd'[d] = cmd[d]
  BY <1>t, <1>1
<1>4. pump'[o] = q /\ \A p \in Owners \ {o} : pump'[p] = pump[p]
  BY <1>t, <1>1
<1>5. cmd[c].state \in Unsettled /\ cmd[c].attempts < MaxAttempts + faults
  BY <1>1 DEF Claimable, AttemptsAccounted
<1>6. Holds(o)' /\ CommandWorkedOn(c)'
  BY <1>1, <1>2, <1>4, <1>5 DEF Holds, CommandWorkedOn
<1>7. AttemptsWithin'
  BY <1>t, <1>2, <1>3, <1>5 DEF AttemptsWithin
<1>8. ASSUME NEW p \in Owners \ {o}
      PROVE  /\ Holds(p)' => Holds(p) /\ pump[p].on # c
             /\ Holds(p) /\ pump[p].on # c => Holds(p)'
  BY <1>t, <1>2, <1>3, <1>4 DEF Holds
<1>9. ASSUME NEW p \in Owners, pump'[p].at # "idle", Holds(p)'
      PROVE  pump'[p].attempts = cmd'[pump'[p].on].attempts
  <2>1. CASE p = o
    BY <1>1, <1>2, <1>4, <2>1
  <2>2. CASE p # o
    BY <1>t, <1>3, <1>4, <1>8, <1>9, <2>2 DEF AttemptsAccounted
  <2> QED BY <2>1, <2>2
<1>10. ASSUME NEW p \in Owners, pump'[p].at = "after"
       PROVE  cmd'[pump'[p].on].state \in CommandSettled
  <2>1. p # o
    BY <1>1, <1>4, <1>10
  <2>2. pump'[p] = pump[p] /\ pump[p].at = "after"
    BY <1>4, <1>10, <2>1
  <2>3. cmd[pump[p].on].state \in CommandSettled
    BY <2>2 DEF AttemptsAccounted
  <2> QED BY <1>t, <1>2, <1>3, <2>2, <2>3
<1>11. ASSUME NEW d \in Commands, cmd'[d].state \in Unsettled
       PROVE  cmd'[d].attempts < MaxAttempts + faults' \/ (cmd'[d].live /\ CommandWorkedOn(d)')
  <2>1. CASE d = c
    BY <1>2, <1>6, <2>1
  <2>2. CASE d # c
    <3>1. cmd'[d] = cmd[d]
      BY <1>3, <2>2
    <3>2. CASE cmd[d].attempts < MaxAttempts + faults
      BY <1>t, <3>1, <3>2
    <3>3. CASE cmd[d].live /\ CommandWorkedOn(d)
      <4>1. PICK p \in Owners : pump[p].at # "idle" /\ pump[p].on = d /\ Holds(p)
        BY <3>3 DEF CommandWorkedOn
      <4>2. p # o
        BY <1>t, <4>1
      <4>3. pump'[p].at # "idle" /\ pump'[p].on = d /\ Holds(p)'
        BY <1>4, <1>8, <2>2, <4>1, <4>2
      <4> QED BY <3>1, <3>3, <4>3 DEF CommandWorkedOn
    <3> QED BY <1>11, <3>1, <3>2, <3>3 DEF AttemptsAccounted
  <2> QED BY <2>1, <2>2
<1> QED BY <1>7, <1>9, <1>10, <1>11 DEF AttemptsAccounted

LEMMA AttemptsStep ==
    ASSUME CommandTypes, CommandTypes', StreamNumbered, faults \in Nat, FaultsGrow,
           AttemptsWithin, AttemptsAccounted, StreamStep, CommandMove
    PROVE  AttemptsWithin' /\ AttemptsAccounted'
<1>t. /\ cmd \in [Commands -> CommandRows] /\ \A c \in Commands : cmd[c] \in CommandRows
      /\ \A p \in Owners : pump[p].on \in Commands
  BY CommandFields DEF CommandTypes
<1>1. ASSUME NEW o \in Owners, CommandPumpStep(o), ~Claims(o) PROVE HoldersKept /\ AttemptsKept
  BY <1>1, PumpStepKinds, WorkKeepsAttempts
<1>2. ASSUME NEW o \in Owners, CommandHeartbeat(o) PROVE HoldersKept /\ AttemptsKept
  <2>1. cmd' = [cmd EXCEPT ![pump[o].on] = [cmd[pump[o].on] EXCEPT !.live = TRUE]]
    BY <1>t, <1>2 DEF CommandHeartbeat
  <2> QED BY <1>t, <1>2, <2>1, TimeKeepsAttempts DEF CommandHeartbeat
<1>3. ASSUME NEW c \in Commands, CommandTime(c) PROVE HoldersKept /\ AttemptsKept
  <2>1. \/ /\ cmd' = [cmd EXCEPT ![c] = [cmd[c] EXCEPT !.live = FALSE]]
           /\ CommandWorkedOn(c) => faults' = faults + 1
        \/ cmd' = [cmd EXCEPT ![c] = [cmd[c] EXCEPT !.backoff = FALSE]]
    BY <1>3, <1>t DEF CommandTime, CommandClaimLapses, RetryComesDue, Lapses, Fault
  <2> QED BY <1>3, <2>1, TimeKeepsAttempts DEF CommandTime, CommandClaimLapses, RetryComesDue
<1>4. ASSUME UNCHANGED <<cmd, pump>> PROVE HoldersKept /\ AttemptsKept
  BY <1>4 DEF HoldersKept, AttemptsKept, Holds, CommandWorkedOn
<1>5. CASE HoldersKept /\ AttemptsKept
  BY <1>5, KeptAttempts
<1>6. CASE \E o \in Owners : Claims(o)
  BY <1>6, ClaimCounts
<1>7. CASE RunEnds \/ WaitOverwritesCancel
  BY <1>4, <1>5, <1>7 DEF RunEnds, WaitOverwritesCancel
<1>8. CASE UNCHANGED commandVars
  BY <1>4, <1>5, <1>8 DEF commandVars
<1> QED
  BY <1>1, <1>2, <1>3, <1>5, <1>6, <1>7, <1>8, SubmitKeepsAttempts, WorkKeepsAttempts DEF CommandMove

-----------------------------------------------------------------------------
(* The deliveries: types and versions.                                     *)

DeliveryRows == [state : {"none", "pending", "claimed", "delivered"}, version : Nat,
                 stale : BOOLEAN]
Couriers == [at : {"idle", "claimed", "handed_off", "complete", "release", "dead"},
             on : 0..MaxDeliveries, version : Nat]
DeliveryTypes ==
    /\ outbox \in [Deliveries -> DeliveryRows] /\ courier \in [Owners -> Couriers]
    /\ received \in [Deliveries -> Nat]

LEMMA DeliveryTypeForm == DeliveryTypeOK <=> DeliveryTypes
BY DEF DeliveryTypeOK, DeliveryTypes, DeliveryRows, Couriers

LEMMA DeliveryFields ==
    ASSUME DeliveryTypes
    PROVE  /\ \A d \in Deliveries :
                 /\ outbox[d] \in DeliveryRows /\ outbox[d].version \in Nat
                 /\ outbox[d].stale \in BOOLEAN /\ received[d] \in Nat
                 /\ outbox[d].state \in {"none", "pending", "claimed", "delivered"}
           /\ \A o \in Owners :
                 /\ courier[o] \in Couriers /\ courier[o].version \in Nat
                 /\ courier[o].on \in 0..MaxDeliveries
                 /\ courier[o].at \in {"idle", "claimed", "handed_off", "complete", "release", "dead"}
BY DEF DeliveryTypes, DeliveryRows, Couriers

LEMMA CourierAtRest == IdleCourier \in Couriers /\ IdleCourier.at = "idle"
BY DeliveryConstants DEF IdleCourier, Couriers

\* A set of deliveries has a first one.
LEMMA FirstDelivery ==
    ASSUME NEW S \in SUBSET Deliveries, S # {}
    PROVE  Min(S) \in S
<1> DEFINE C == {1..k : k \in S}
<1>1. IsFiniteSet(Deliveries)
  BY DeliveryConstants, FS_Interval DEF Deliveries
<1>2. C \in SUBSET (SUBSET Deliveries) /\ C # {}
  <2>1. \A k \in S : k \in Nat /\ k <= MaxDeliveries
    BY DeliveryConstants DEF Deliveries
  <2>2. \A k \in S : 1..k \subseteq 1..MaxDeliveries
    BY <2>1, DeliveryConstants
  <2> QED BY <2>2 DEF Deliveries
<1>3. PICK s \in C : \A t \in C : t \subseteq s => t = s
  <2> HIDE DEF C
  <2> QED BY <1>1, <1>2, SmallestSet
<1>4. PICK k \in S : s = 1..k
  OBVIOUS
<1>5. ASSUME NEW j \in S, ~(k <= j) PROVE FALSE
  <2>1. j \in Nat /\ k \in Nat /\ 1 <= j /\ 1 <= k
    BY DeliveryConstants DEF Deliveries
  <2>2. 1..j \subseteq 1..k /\ k \in 1..k /\ k \notin 1..j
    BY <1>5, <2>1
  <2> QED BY <1>3, <1>4, <2>2
<1>6. \E x \in S : \A y \in S : x <= y
  BY <1>5
<1> QED BY <1>6 DEF Min

\* What the expiry of a claim makes of a row.
LEMMA ExpiredRow ==
    ASSUME NEW r \in DeliveryRows
    PROVE  /\ Expired(r) \in DeliveryRows
           /\ \/ Expired(r) = r /\ ~(r.state = "claimed" /\ r.stale)
              \/ /\ r.state = "claimed" /\ r.stale /\ Expired(r).state = "pending"
                 /\ Expired(r).version = r.version + 1 /\ ~Expired(r).stale
<1>1. r.version + 1 \in Nat
  BY DEF DeliveryRows
<1> QED BY <1>1 DEF Expired, DeliveryRows

\* A claim.
LEMMA ClaimDeliveryEffect ==
    ASSUME DeliveryTypes, NEW o \in Owners, ClaimDelivery(o)
    PROVE  \E d \in Deliveries, r \in DeliveryRows :
              /\ courier[o].at = "idle" /\ UNCHANGED received
              /\ Expired(outbox[d]).state = "pending"
              /\ r.state = "claimed" /\ r.version = Expired(outbox[d]).version + 1
              /\ r.stale = Expired(outbox[d]).stale
              /\ outbox' = [[e \in Deliveries |-> Expired(outbox[e])] EXCEPT ![d] = r]
              /\ \E q \in Couriers :
                    /\ courier' = [courier EXCEPT ![o] = q]
                    /\ q.at = "claimed" /\ q.on = d /\ q.version = r.version
<1> DEFINE rows == [e \in Deliveries |-> Expired(outbox[e])]
           pending == {e \in Deliveries : rows[e].state = "pending"}
           d == Min(pending)
           q == [at |-> "claimed", on |-> d, version |-> rows[d].version + 1]
           r == [rows[d] EXCEPT !.state = "claimed", !.version = @ + 1]
<1>1. /\ courier[o].at = "idle" /\ pending # {} /\ UNCHANGED received
      /\ outbox' = [rows EXCEPT ![d].state = "claimed", ![d].version = @ + 1]
      /\ courier' = [courier EXCEPT ![o] = q]
  BY DEF ClaimDelivery
<1>2. d \in pending
  <2>1. pending \in SUBSET Deliveries
    OBVIOUS
  <2> HIDE DEF pending
  <2> QED BY <1>1, <2>1, FirstDelivery
<1>3. d \in Deliveries /\ Expired(outbox[d]).state = "pending" /\ rows[d] = Expired(outbox[d])
  BY <1>2
<1>4. rows \in [Deliveries -> DeliveryRows]
  BY ExpiredRow, DeliveryFields
<1> HIDE DEF d, pending
<1>5. rows[d] \in DeliveryRows /\ rows[d].version + 1 \in Nat
  BY <1>3, <1>4 DEF DeliveryRows
<1>6. r \in DeliveryRows /\ r.state = "claimed" /\ r.version = rows[d].version + 1
      /\ r.stale = rows[d].stale
  <2> HIDE DEF rows
  <2> QED BY <1>5 DEF DeliveryRows
<1>7. outbox' = [rows EXCEPT ![d] = r]
  <2> HIDE DEF rows
  <2> QED BY <1>1, <1>3, <1>4
<1>8. q \in Couriers /\ q.at = "claimed" /\ q.on = d /\ q.version = r.version
  <2>1. d \in 0..MaxDeliveries
    BY <1>3, DeliveryConstants DEF Deliveries
  <2> HIDE DEF rows
  <2> QED BY <1>5, <1>6, <2>1 DEF Couriers
<1>9. \E p \in Couriers :
         /\ courier' = [courier EXCEPT ![o] = p]
         /\ p.at = "claimed" /\ p.on = d /\ p.version = r.version
  <2> HIDE DEF q, r
  <2> QED BY <1>1, <1>8
<1>10. /\ r.version = Expired(outbox[d]).version + 1 /\ r.stale = Expired(outbox[d]).stale
  <2> HIDE DEF r
  <2> QED BY <1>3, <1>6
<1> HIDE DEF r, q
<1>11. outbox' = [[e \in Deliveries |-> Expired(outbox[e])] EXCEPT ![d] = r]
  BY <1>7
<1> HIDE DEF rows
<1> QED BY <1>1, <1>3, <1>6, <1>9, <1>10, <1>11

\* A step of the courier of o leaves alone what others have in force, raises the version
\* of a row that it changes, and keeps what is delivered.
RowQuiet(o, d) ==
    /\ \/ outbox'[d] = outbox[d]
       \/ /\ outbox[d].version < outbox'[d].version
          /\ \A p \in Owners \ {o} :
                courier[p].at \notin {"idle", "dead"} /\ courier[p].on = d => ~InForce(p)
       \/ /\ outbox'[d].version = outbox[d].version
          /\ outbox[d].state # "claimed" /\ outbox'[d].state # "claimed"
    /\ outbox[d].state = "delivered" => outbox'[d] = outbox[d]
    /\ received[d] <= received'[d]

\* The courier of o knows its row, by a version it has written itself or knew before.
OwnCourier(o) ==
    courier'[o].at # "idle" =>
        /\ courier'[o].on \in Deliveries
        /\ courier'[o].version <= outbox'[courier'[o].on].version
        /\ courier'[o].at = "complete" => received'[courier'[o].on] >= 1
        /\ courier'[o].at # "dead" =>
              \/ outbox[courier'[o].on].version < outbox'[courier'[o].on].version
              \/ /\ courier[o].at \notin {"idle", "dead"} /\ courier'[o].on = courier[o].on
                 /\ CanSettleDelivery(o)' => CanSettleDelivery(o)

CourierStep(o) ==
    /\ DeliveryTypes' /\ OnlyClaimsExpire'
    /\ \A p \in Owners \ {o} : courier'[p] = courier[p]
    /\ \A d \in Deliveries : RowQuiet(o, d)
    /\ OwnCourier(o)

LEMMA ClaimIsCourierStep ==
    ASSUME DeliveryTypes, CouriersKnowTheirRows, OnlyClaimsExpire, NEW o \in Owners,
           ClaimDelivery(o)
    PROVE  /\ CourierStep(o) /\ UNCHANGED received
           /\ courier[o].at = "idle" /\ courier'[o].at = "claimed" /\ InForce(o)'
           /\ \A d \in Deliveries : outbox[d].state = "delivered" => outbox'[d].state = "delivered"
<1>t. /\ outbox \in [Deliveries -> DeliveryRows] /\ courier \in [Owners -> Couriers]
      /\ received \in [Deliveries -> Nat]
  BY DEF DeliveryTypes
<1>1. PICK d \in Deliveries, r \in DeliveryRows, q \in Couriers :
         /\ courier[o].at = "idle" /\ UNCHANGED received
         /\ Expired(outbox[d]).state = "pending"
         /\ r.state = "claimed" /\ r.version = Expired(outbox[d]).version + 1
         /\ r.stale = Expired(outbox[d]).stale
         /\ outbox' = [[e \in Deliveries |-> Expired(outbox[e])] EXCEPT ![d] = r]
         /\ courier' = [courier EXCEPT ![o] = q]
         /\ q.at = "claimed" /\ q.on = d /\ q.version = r.version
  BY ClaimDeliveryEffect
<1>2. outbox'[d] = r /\ \A e \in Deliveries \ {d} : outbox'[e] = Expired(outbox[e])
  BY <1>1
<1>3. courier'[o] = q /\ \A p \in Owners \ {o} : courier'[p] = courier[p]
  BY <1>t, <1>1
<1>4. \A e \in Deliveries :
         /\ outbox[e] \in DeliveryRows /\ outbox[e].version \in Nat /\ received[e] \in Nat
         /\ Expired(outbox[e]) \in DeliveryRows
         /\ outbox[e].stale => outbox[e].state = "claimed"
         /\ \/ Expired(outbox[e]) = outbox[e] /\ ~outbox[e].stale
            \/ /\ outbox[e].state = "claimed" /\ outbox[e].stale
               /\ Expired(outbox[e]).state = "pending"
               /\ Expired(outbox[e]).version = outbox[e].version + 1 /\ ~Expired(outbox[e]).stale
  BY DeliveryFields, ExpiredRow DEF OnlyClaimsExpire
<1>5. outbox' \in [Deliveries -> DeliveryRows]
  BY <1>1, <1>4
<1>6. DeliveryTypes'
  BY <1>t, <1>1, <1>5 DEF DeliveryTypes
<1>7. OnlyClaimsExpire'
  <2>1. ASSUME NEW e \in Deliveries, outbox'[e].stale PROVE outbox'[e].state = "claimed"
    <3>1. CASE e = d
      BY <1>1, <1>2, <3>1
    <3>2. CASE e # d
      BY <1>2, <1>4, <2>1, <3>2
    <3> QED BY <3>1, <3>2
  <2> QED BY <2>1 DEF OnlyClaimsExpire
<1>8. /\ r.version > outbox[d].version /\ ~r.stale
      /\ outbox[d].state = "pending" \/ outbox[d].stale
  BY <1>1, <1>4
<1>9. ASSUME NEW e \in Deliveries PROVE RowQuiet(o, e)
  <2>1. CASE e = d
    BY <1>1, <1>2, <1>4, <1>8, <2>1 DEF RowQuiet, InForce, CanSettleDelivery
  <2>2. CASE e # d /\ ~outbox[e].stale
    BY <1>1, <1>2, <1>4, <2>2 DEF RowQuiet
  <2>3. CASE e # d /\ outbox[e].stale
    <3>1. /\ outbox'[e].version > outbox[e].version /\ outbox[e].state = "claimed"
      BY <1>2, <1>4, <2>3
    <3> QED BY <1>1, <1>4, <2>3, <3>1 DEF RowQuiet, InForce, CanSettleDelivery
  <2> QED BY <2>1, <2>2, <2>3
<1>10. q.version \in Nat /\ q.version = outbox'[q.on].version
  BY <1>1, <1>2 DEF DeliveryRows
<1>11. OwnCourier(o)
  BY <1>1, <1>2, <1>3, <1>8, <1>10 DEF OwnCourier
<1>12. InForce(o)'
  BY <1>1, <1>2, <1>3, <1>8 DEF InForce, CanSettleDelivery
<1>13. \A e \in Deliveries : outbox[e].state = "delivered" => outbox'[e].state = "delivered"
  BY <1>9 DEF RowQuiet
<1> QED BY <1>1, <1>3, <1>6, <1>7, <1>9, <1>11, <1>12, <1>13 DEF CourierStep

\* Only o can settle the row it can settle.
LEMMA OnlySettler ==
    ASSUME CouriersKnowTheirRows, NEW o \in Owners, NEW p \in Owners \ {o},
           courier[o].at \notin {"idle", "dead"}, CanSettleDelivery(o),
           courier[p].at \notin {"idle", "dead"}, courier[p].on = courier[o].on
    PROVE  ~CanSettleDelivery(p) /\ ~InForce(p)
BY DEF CouriersKnowTheirRows, InForce

\* A courier at work goes on to q, may leave the row r if it can settle it, and the
\* sink has taken the delivery n times.
CourierWrites(o, q, r, n) ==
    /\ courier[o].at \notin {"idle", "dead"} /\ courier' = [courier EXCEPT ![o] = q]
    /\ r.version = outbox[courier[o].on].version + 1 /\ (r.stale => r.state = "claimed")
    /\ n >= received[courier[o].on] /\ received' = [received EXCEPT ![courier[o].on] = n]
    /\ \/ UNCHANGED outbox
       \/ CanSettleDelivery(o) /\ outbox' = [outbox EXCEPT ![courier[o].on] = r]
    /\ q.at = "complete" => n >= 1
    /\ q.at # "idle" =>
          /\ q.on = courier[o].on
          /\ \/ q.version = courier[o].version
             \/ q.version = courier[o].version + 1 /\ outbox' # outbox

LEMMA WriteIsCourierStep ==
    ASSUME DeliveryTypes, CouriersKnowTheirRows, OnlyClaimsExpire, NEW o \in Owners,
           NEW q \in Couriers, NEW r \in DeliveryRows, NEW n \in Nat, CourierWrites(o, q, r, n)
    PROVE  CourierStep(o)
<1>t. /\ outbox \in [Deliveries -> DeliveryRows] /\ courier \in [Owners -> Couriers]
      /\ received \in [Deliveries -> Nat]
  BY DEF DeliveryTypes
<1> USE DEF CourierWrites
<1> DEFINE d == courier[o].on
<1>1. d \in Deliveries /\ courier[o].version <= outbox[d].version
  BY DEF CouriersKnowTheirRows
<1>2. /\ outbox[d].version \in Nat /\ courier[o].version \in Nat /\ received[d] \in Nat
      /\ \A e \in Deliveries : received[e] \in Nat /\ outbox[e].version \in Nat
  BY <1>1, DeliveryFields
<1> HIDE DEF d
<1>3. /\ courier'[o] = q /\ \A p \in Owners \ {o} : courier'[p] = courier[p]
      /\ received'[d] = n /\ \A e \in Deliveries \ {d} : received'[e] = received[e]
      /\ \A e \in Deliveries \ {d} : outbox'[e] = outbox[e]
      /\ outbox'[d] = outbox[d] \/ (CanSettleDelivery(o) /\ outbox'[d] = r)
  BY <1>t, <1>1 DEF d
<1>4. DeliveryTypes'
  <2>1. outbox' \in [Deliveries -> DeliveryRows]
    BY <1>t, <1>1 DEF d
  <2>2. courier' \in [Owners -> Couriers] /\ received' \in [Deliveries -> Nat]
    BY <1>t, <1>1 DEF d
  <2> QED BY <2>1, <2>2 DEF DeliveryTypes
<1>5. OnlyClaimsExpire'
  BY <1>1, <1>3 DEF OnlyClaimsExpire
<1>6. ASSUME NEW e \in Deliveries PROVE RowQuiet(o, e)
  <2>1. received[e] <= received'[e]
    BY <1>1, <1>2, <1>3 DEF d
  <2>2. CASE outbox'[e] = outbox[e]
    BY <2>1, <2>2 DEF RowQuiet
  <2>3. CASE e = d /\ CanSettleDelivery(o) /\ outbox'[d] = r
    <3>1. outbox[d].version < outbox'[d].version
      BY <1>2, <2>3 DEF d
    <3>2. \A p \in Owners \ {o} :
             courier[p].at \notin {"idle", "dead"} /\ courier[p].on = d => ~InForce(p)
      BY <2>3, OnlySettler DEF d
    <3>3. outbox[d].state = "claimed"
      BY <2>3 DEF CanSettleDelivery, d
    <3> QED BY <2>1, <2>3, <3>1, <3>2, <3>3 DEF RowQuiet
  <2> QED BY <1>3, <2>2, <2>3
<1>7. OwnCourier(o)
  <2>1. ASSUME q.at # "idle" PROVE q.on = d /\ q.version <= outbox'[d].version
    <3>1. q.on = d
      BY <2>1 DEF d
    <3>2. CASE q.version = courier[o].version
      BY <1>1, <1>2, <1>3, <3>1, <3>2 DEF d
    <3>3. CASE q.version = courier[o].version + 1 /\ outbox' # outbox
      <4>1. outbox'[d] = r
        BY <1>t, <1>1, <3>3 DEF d
      <4> QED BY <1>1, <1>2, <3>1, <3>3, <4>1 DEF d
    <3> QED BY <2>1, <3>1, <3>2, <3>3 DEF d
  <2>2. q.at = "complete" => received'[d] >= 1
    BY <1>3
  <2>3. ASSUME q.at \notin {"idle", "dead"}
        PROVE  \/ outbox[d].version < outbox'[d].version
               \/ CanSettleDelivery(o)' => CanSettleDelivery(o)
    <3>1. CASE outbox'[d] = r
      BY <1>2, <3>1 DEF d
    <3>2. CASE outbox'[d] = outbox[d]
      <4>1. CASE q.version = courier[o].version
        <5>1. courier'[o].on = d /\ courier'[o].version = courier[o].version
          BY <1>3, <2>1, <2>3, <4>1
        <5> QED BY <3>2, <5>1 DEF CanSettleDelivery, d
      <4>2. CASE outbox' # outbox
        <5>1. outbox'[d] = r
          BY <1>t, <1>1, <4>2 DEF d
        <5> QED BY <1>2, <5>1 DEF d
      <4> QED BY <2>3, <4>1, <4>2
    <3> QED BY <1>3, <3>1, <3>2
  <2> QED BY <1>1, <1>3, <2>1, <2>2, <2>3 DEF OwnCourier, d
<1> QED BY <1>3, <1>4, <1>5, <1>6, <1>7 DEF CourierStep

\* What a step of o leaves of the others' claims.
LEMMA OthersInForce ==
    ASSUME DeliveryTypes, CouriersKnowTheirRows, NEW o \in Owners, CourierStep(o),
           NEW p \in Owners \ {o}, courier[p].at \notin {"idle", "dead"}
    PROVE  /\ InForce(p)' <=> InForce(p)
           /\ CanSettleDelivery(p)' =>
                 /\ CanSettleDelivery(p)
                 /\ outbox'[courier[p].on].version = outbox[courier[p].on].version
<1>1. /\ courier'[p] = courier[p] /\ courier[p].on \in Deliveries
      /\ courier[p].version <= outbox[courier[p].on].version
      /\ RowQuiet(o, courier[p].on)
  BY DEF CourierStep, CouriersKnowTheirRows
<1>2. /\ courier[p].version \in Nat /\ outbox[courier[p].on].version \in Nat
      /\ outbox'[courier[p].on].version \in Nat
  BY <1>1, DeliveryFields DEF CourierStep, DeliveryTypes, DeliveryRows
<1>3. CASE outbox'[courier[p].on] = outbox[courier[p].on]
  BY <1>1, <1>3 DEF InForce, CanSettleDelivery
<1>4. CASE /\ outbox[courier[p].on].version < outbox'[courier[p].on].version /\ ~InForce(p)
  <2>1. courier'[p].version # outbox'[courier'[p].on].version
    BY <1>1, <1>2, <1>4
  <2> QED BY <1>4, <2>1 DEF InForce, CanSettleDelivery
<1>5. CASE /\ outbox[courier[p].on].state # "claimed" /\ outbox'[courier[p].on].state # "claimed"
  BY <1>1, <1>5 DEF InForce, CanSettleDelivery
<1> QED BY <1>1, <1>3, <1>4, <1>5 DEF RowQuiet

LEMMA CouriersKnowStep ==
    ASSUME DeliveryTypes, CouriersKnowTheirRows, NEW o \in Owners, CourierStep(o)
    PROVE  CouriersKnowTheirRows'
<1>t. \A d \in Deliveries : /\ outbox[d].version \in Nat /\ outbox'[d].version \in Nat
                            /\ received[d] \in Nat /\ received'[d] \in Nat
      /\ \A p \in Owners : courier[p].version \in Nat
  BY DeliveryFields DEF CourierStep, DeliveryTypes, DeliveryRows
<1>1. ASSUME NEW p \in Owners, courier'[p].at # "idle"
      PROVE  /\ courier'[p].on \in Deliveries
             /\ courier'[p].version <= outbox'[courier'[p].on].version
             /\ courier'[p].at = "complete" => received'[courier'[p].on] >= 1
  <2>1. CASE p = o
    BY <1>1, <2>1 DEF CourierStep, OwnCourier
  <2>2. CASE p # o
    <3>1. courier'[p] = courier[p] /\ courier[p].on \in Deliveries /\ RowQuiet(o, courier[p].on)
      BY <1>1, <2>2 DEF CourierStep, CouriersKnowTheirRows
    <3>2. /\ courier[p].version <= outbox[courier[p].on].version
          /\ courier[p].at = "complete" => received[courier[p].on] >= 1
      BY <1>1, <3>1 DEF CouriersKnowTheirRows
    <3>3. /\ outbox[courier[p].on].version <= outbox'[courier[p].on].version
          /\ received[courier[p].on] <= received'[courier[p].on]
      BY <1>t, <3>1 DEF RowQuiet
    <3> QED BY <1>t, <3>1, <3>2, <3>3
  <2> QED BY <2>1, <2>2
<1>2. ASSUME NEW p \in Owners \ {o}, courier'[p].at \notin {"idle", "dead"},
             courier'[o].at \notin {"idle", "dead"}, courier'[p].on = courier'[o].on,
             CanSettleDelivery(p)', CanSettleDelivery(o)'
      PROVE  FALSE
  <2>1. courier'[p] = courier[p]
    BY DEF CourierStep
  <2>2. /\ CanSettleDelivery(p) /\ courier[p].on \in Deliveries
        /\ outbox'[courier[p].on].version = outbox[courier[p].on].version
    BY <1>2, <2>1, OthersInForce DEF CouriersKnowTheirRows
  <2>3. /\ courier[o].at \notin {"idle", "dead"} /\ courier[o].on = courier[p].on
        /\ CanSettleDelivery(o)
    BY <1>2, <1>t, <2>1, <2>2 DEF CourierStep, OwnCourier
  <2> QED BY <1>2, <2>1, <2>2, <2>3, OnlySettler
<1>3. ASSUME NEW p \in Owners, NEW s \in Owners, s # p,
             {courier'[p].at, courier'[s].at} \cap {"idle", "dead"} = {},
             courier'[s].on = courier'[p].on, CanSettleDelivery(p)', CanSettleDelivery(s)'
      PROVE  FALSE
  <2>1. courier'[p].at \notin {"idle", "dead"} /\ courier'[s].at \notin {"idle", "dead"}
    BY <1>3
  <2>2. CASE p = o
    BY <1>2, <1>3, <2>1, <2>2
  <2>3. CASE s = o
    BY <1>2, <1>3, <2>1, <2>3
  <2>4. CASE p # o /\ s # o
    <3>1. courier'[p] = courier[p] /\ courier'[s] = courier[s]
      BY <2>4 DEF CourierStep
    <3>2. CanSettleDelivery(p) /\ CanSettleDelivery(s)
      BY <1>3, <2>1, <2>4, <3>1, OthersInForce
    <3> QED BY <1>3, <2>1, <3>1, <3>2, OnlySettler
  <2> QED BY <2>2, <2>3, <2>4
<1> QED BY <1>1, <1>3 DEF CouriersKnowTheirRows

\* What a step of o does to the couriers that are belated and to deliveries that are made.
LEMMA BelatedKept ==
    ASSUME DeliveryTypes, CouriersKnowTheirRows, NEW o \in Owners, CourierStep(o),
           NEW d \in Deliveries
    PROVE  /\ Belated(d)' \ {o} = Belated(d) \ {o}
           /\ Made(d) => \/ Made(d)'
                         \/ courier[o].at = "complete" /\ courier[o].on = d /\ InForce(o)
<1>1. ASSUME NEW p \in Owners \ {o} PROVE p \in Belated(d)' <=> p \in Belated(d)
  <2>1. courier'[p] = courier[p]
    BY DEF CourierStep
  <2>2. courier[p].at \in {"claimed", "handed_off"} => (InForce(p)' <=> InForce(p))
    BY OthersInForce
  <2> QED BY <2>1, <2>2 DEF Belated
<1>2. CASE outbox[d].state = "delivered"
  <2>1. outbox'[d].state = "delivered"
    BY <1>2 DEF CourierStep, RowQuiet
  <2> QED BY <1>1, <2>1 DEF Belated, Made
<1>3. ASSUME NEW p \in Owners \ {o}, courier[p].at = "complete", courier[p].on = d, InForce(p)
      PROVE  Made(d)'
  <2>1. courier'[p] = courier[p] /\ InForce(p)'
    BY <1>3, OthersInForce DEF CourierStep
  <2> QED BY <1>3, <2>1 DEF Made
<1> QED BY <1>1, <1>2, <1>3 DEF Belated, Made

LEMMA BelatedFinite ==
    \A d : IsFiniteSet(Belated(d)) /\ Cardinality(Belated(d)) \in Nat
<1>1. ASSUME NEW d PROVE IsFiniteSet(Belated(d)) /\ Cardinality(Belated(d)) \in Nat
  <2>1. Belated(d) \in SUBSET Owners
    BY DEF Belated
  <2> QED BY <2>1, FS_Subset, FS_CardinalityType, PumpConstants
<1> QED BY <1>1

\* The account of one delivery, for the ways a step may change it.
Account(d) == received[d] + Cardinality(Belated(d)) <= faults + (IF Made(d) THEN 1 ELSE 0)

LEMMA AccountStep ==
    ASSUME NEW d \in Deliveries, faults \in Nat, FaultsGrow, received[d] \in Nat,
           received'[d] \in Nat, Account(d), NEW o \in Owners,
           \/ /\ received'[d] = received[d] /\ Belated(d)' \subseteq Belated(d)
              /\ Made(d) => Made(d)' \/ faults' = faults + 1
           \/ /\ received'[d] = received[d] + 1 /\ Belated(d)' \subseteq Belated(d)
              /\ ~Made(d) /\ Made(d)'
           \/ /\ received'[d] = received[d] + 1 /\ o \in Belated(d)
              /\ Belated(d)' \subseteq Belated(d) \ {o} /\ (Made(d) => Made(d)')
           \/ /\ received'[d] = received[d] + 1 /\ Belated(d)' \subseteq Belated(d)
              /\ (Made(d) => Made(d)') /\ faults' = faults + 1
           \/ /\ received'[d] = received[d] /\ Belated(d)' \subseteq Belated(d) \cup {o}
              /\ (Made(d) => Made(d)') /\ faults' = faults + 1
    PROVE  Account(d)'
<1>t. /\ IsFiniteSet(Belated(d)) /\ Cardinality(Belated(d)) \in Nat
      /\ Cardinality(Belated(d)') \in Nat
  <2>1. Belated(d)' \in SUBSET Owners
    BY DEF Belated
  <2> QED BY <2>1, BelatedFinite, FS_Subset, FS_CardinalityType, PumpConstants
<1>f. faults' \in Nat /\ faults' >= faults
  BY DEF FaultsGrow
<1>1. ASSUME Belated(d)' \subseteq Belated(d)
      PROVE  Cardinality(Belated(d)') <= Cardinality(Belated(d))
  BY <1>t, <1>1, FS_Subset
<1>2. ASSUME o \in Belated(d), Belated(d)' \subseteq Belated(d) \ {o}
      PROVE  Cardinality(Belated(d)') <= Cardinality(Belated(d)) - 1
  BY <1>t, <1>2, FS_RemoveElement, FS_Subset
<1>3. ASSUME Belated(d)' \subseteq Belated(d) \cup {o}
      PROVE  Cardinality(Belated(d)') <= Cardinality(Belated(d)) + 1
  <2>1. /\ IsFiniteSet(Belated(d) \cup {o})
        /\ Cardinality(Belated(d) \cup {o}) \in {Cardinality(Belated(d)), Cardinality(Belated(d)) + 1}
    BY <1>t, FS_AddElement
  <2>2. Cardinality(Belated(d)') <= Cardinality(Belated(d) \cup {o})
    BY <1>3, <2>1, FS_Subset
  <2> QED BY <1>t, <2>1, <2>2
<1> DEFINE n == Cardinality(Belated(d))
           m == Cardinality(Belated(d)')
           k == IF Made(d) THEN 1 ELSE 0
           l == IF Made(d)' THEN 1 ELSE 0
<1>4. n \in Nat /\ m \in Nat /\ k \in {0, 1} /\ l \in {0, 1}
  BY <1>t
<1>5. received[d] + n <= faults + k
  BY DEF Account
<1>6. \/ received'[d] = received[d] /\ m <= n /\ (k <= l \/ faults' = faults + 1)
      \/ received'[d] = received[d] + 1 /\ m <= n /\ k = 0 /\ l = 1
      \/ received'[d] = received[d] + 1 /\ m <= n - 1 /\ k <= l
      \/ received'[d] = received[d] + 1 /\ m <= n /\ k <= l /\ faults' = faults + 1
      \/ received'[d] = received[d] /\ m <= n + 1 /\ k <= l /\ faults' = faults + 1
  BY <1>1, <1>2, <1>3, <1>4
<1> HIDE DEF n, m, k, l
<1>7. received'[d] + m <= faults' + l
  BY <1>4, <1>5, <1>6, <1>f
<1> QED BY <1>7 DEF Account, m, l

\* The steps of the couriers, and what they do to the account of a delivery.
LEMMA HandoffStep ==
    ASSUME DeliveryTypes, CouriersKnowTheirRows, OnlyClaimsExpire, NEW o \in Owners,
           RecordHandoff(o)
    PROVE  /\ CourierStep(o) /\ UNCHANGED received /\ courier[o].at = "claimed"
           /\ \/ courier'[o].at = "dead"
              \/ /\ courier'[o].at = "handed_off" /\ courier'[o].on = courier[o].on
                 /\ InForce(o) => InForce(o)'
<1>t. /\ outbox \in [Deliveries -> DeliveryRows] /\ courier \in [Owners -> Couriers]
      /\ received \in [Deliveries -> Nat]
  BY DEF DeliveryTypes
<1> DEFINE d == courier[o].on
           r == [outbox[d] EXCEPT !.version = @ + 1]
<1>1. courier[o].at = "claimed" /\ d \in Deliveries /\ outbox[d] \in DeliveryRows
      /\ courier[o] \in Couriers /\ received[d] \in Nat /\ outbox[d].version + 1 \in Nat
      /\ courier[o].version + 1 \in Nat
  BY DeliveryFields DEF RecordHandoff, CouriersKnowTheirRows
<1>2. /\ r \in DeliveryRows /\ r.version = outbox[d].version + 1 /\ r.state = outbox[d].state
      /\ r.stale = outbox[d].stale
  BY <1>1 DEF DeliveryRows
<1>3. r.stale => r.state = "claimed"
  BY <1>1, <1>2 DEF OnlyClaimsExpire
<1>4. received' = [received EXCEPT ![d] = received[d]]
  BY <1>t DEF RecordHandoff
<1>5. CASE CanSettleDelivery(o)
  <2> DEFINE q == [courier[o] EXCEPT !.at = "handed_off", !.version = @ + 1]
  <2>1. q \in Couriers /\ q.at = "handed_off" /\ q.on = d /\ q.version = courier[o].version + 1
    BY <1>1 DEF Couriers
  <2>2. courier' = [courier EXCEPT ![o] = q]
    BY <1>t, <1>5 DEF RecordHandoff
  <2>3. outbox' = [outbox EXCEPT ![d] = r]
    BY <1>t, <1>1, <1>5 DEF RecordHandoff
  <2>4. outbox'[d] = r /\ courier'[o] = q
    BY <1>t, <1>1, <2>2, <2>3
  <2>5. outbox' # outbox
    <3>1. outbox[d].version \in Nat /\ outbox'[d].version = outbox[d].version + 1
      BY <1>1, <1>2, <2>4, DeliveryFields
    <3> QED BY <3>1
  <2>6. InForce(o) => InForce(o)'
    BY <1>2, <1>5, <2>1, <2>4 DEF InForce, CanSettleDelivery
  <2> HIDE DEF q, r
  <2>7. CourierStep(o)
    <3>1. CourierWrites(o, q, r, received[d])
      BY <1>1, <1>2, <1>3, <1>4, <1>5, <2>1, <2>2, <2>3, <2>5 DEF CourierWrites
    <3> QED BY <1>1, <1>2, <2>1, <3>1, WriteIsCourierStep
  <2> QED BY <1>1, <2>1, <2>4, <2>6, <2>7 DEF RecordHandoff
<1>6. CASE ~CanSettleDelivery(o)
  <2> DEFINE q == [courier[o] EXCEPT !.at = "dead"]
  <2>1. q \in Couriers /\ q.at = "dead" /\ q.on = d /\ q.version = courier[o].version
    BY <1>1 DEF Couriers
  <2>2. courier' = [courier EXCEPT ![o] = q] /\ UNCHANGED outbox
    BY <1>t, <1>6 DEF RecordHandoff
  <2>3. courier'[o] = q
    BY <1>t, <2>2
  <2> HIDE DEF q, r
  <2>4. CourierStep(o)
    <3>1. CourierWrites(o, q, r, received[d])
      BY <1>1, <1>2, <1>3, <1>4, <2>1, <2>2 DEF CourierWrites
    <3> QED BY <1>1, <1>2, <2>1, <3>1, WriteIsCourierStep
  <2> QED BY <1>1, <2>1, <2>3, <2>4 DEF RecordHandoff
<1> QED BY <1>5, <1>6

\* The sink answers or raises: n is what it has taken then.
LEMMA SinkStep ==
    ASSUME DeliveryTypes, CouriersKnowTheirRows, OnlyClaimsExpire, NEW o \in Owners,
           courier[o].at = "handed_off", UNCHANGED outbox,
           NEW at \in {"complete", "release"}, courier' = [courier EXCEPT ![o].at = at],
           NEW n \in {received[courier[o].on], received[courier[o].on] + 1},
           received' = [received EXCEPT ![courier[o].on] = n],
           at = "complete" => n = received[courier[o].on] + 1
    PROVE  /\ CourierStep(o) /\ courier'[o].at = at /\ courier'[o].on = courier[o].on
           /\ InForce(o)' <=> InForce(o)
<1>t. /\ outbox \in [Deliveries -> DeliveryRows] /\ courier \in [Owners -> Couriers]
      /\ received \in [Deliveries -> Nat]
  BY DEF DeliveryTypes
<1> DEFINE d == courier[o].on
           r == [outbox[d] EXCEPT !.version = @ + 1]
           q == [courier[o] EXCEPT !.at = at]
<1>1. d \in Deliveries /\ outbox[d] \in DeliveryRows
      /\ courier[o] \in Couriers /\ received[d] \in Nat /\ outbox[d].version + 1 \in Nat
  BY DeliveryFields DEF CouriersKnowTheirRows
<1>2. /\ r \in DeliveryRows /\ r.version = outbox[d].version + 1 /\ r.state = outbox[d].state
      /\ r.stale = outbox[d].stale
  BY <1>1 DEF DeliveryRows
<1>3. r.stale => r.state = "claimed"
  BY <1>1, <1>2 DEF OnlyClaimsExpire
<1>4. q \in Couriers /\ q.at = at /\ q.on = d /\ q.version = courier[o].version
  BY <1>1 DEF Couriers
<1>5. courier' = [courier EXCEPT ![o] = q] /\ courier'[o] = q
  BY <1>t
<1>6. n \in Nat /\ n >= received[d] /\ (at = "complete" => n >= 1)
  BY <1>1
<1>7. InForce(o)' <=> InForce(o)
  BY <1>4, <1>5 DEF InForce, CanSettleDelivery
<1> HIDE DEF r, q
<1>8. CourierStep(o)
  <2>1. CourierWrites(o, q, r, n)
    BY <1>1, <1>2, <1>3, <1>4, <1>5, <1>6 DEF CourierWrites
  <2> QED BY <1>2, <1>4, <1>6, <2>1, WriteIsCourierStep
<1> QED BY <1>4, <1>5, <1>7, <1>8

LEMMA SettleStep ==
    ASSUME DeliveryTypes, CouriersKnowTheirRows, OnlyClaimsExpire, SinkCallsPaidFor,
           NEW o \in Owners, SettleDelivery(o)
    PROVE  /\ CourierStep(o) /\ UNCHANGED received
           /\ courier[o].at \in {"complete", "release"} /\ courier'[o].at \in {"idle", "dead"}
           /\ courier[o].at = "complete" /\ InForce(o) => outbox'[courier[o].on].state = "delivered"
           /\ \A d \in Deliveries : outbox'[d].state = "delivered" => received[d] >= 1
<1>t. /\ outbox \in [Deliveries -> DeliveryRows] /\ courier \in [Owners -> Couriers]
      /\ received \in [Deliveries -> Nat]
  BY DEF DeliveryTypes
<1> DEFINE d == courier[o].on
           r == [state |-> SettledState(o), version |-> outbox[d].version + 1, stale |-> FALSE]
<1>1. /\ courier[o].at \in {"complete", "release"} /\ d \in Deliveries /\ outbox[d] \in DeliveryRows
      /\ courier[o] \in Couriers /\ received[d] \in Nat /\ outbox[d].version + 1 \in Nat
      /\ courier[o].at = "complete" => received[d] >= 1
  BY DeliveryFields DEF SettleDelivery, CouriersKnowTheirRows
<1>2. r \in DeliveryRows /\ r.version = outbox[d].version + 1 /\ ~r.stale
      /\ (r.state = "delivered" <=> courier[o].at = "complete")
  BY <1>1 DEF DeliveryRows, SettledState
<1>3. r.stale => r.state = "claimed"
  BY <1>2
<1>4. received' = [received EXCEPT ![d] = received[d]] /\ UNCHANGED received
  BY <1>t DEF SettleDelivery
<1>5. \A e \in Deliveries : outbox[e].state = "delivered" => received[e] >= 1
  BY DEF SinkCallsPaidFor
<1>6. CASE /\ CanSettleDelivery(o)
           /\ outbox' = [outbox EXCEPT ![d] = r] /\ courier' = [courier EXCEPT ![o] = IdleCourier]
  <2>1. outbox'[d] = r /\ courier'[o] = IdleCourier
        /\ \A e \in Deliveries \ {d} : outbox'[e] = outbox[e]
    BY <1>t, <1>1, <1>6
  <2> HIDE DEF r
  <2>2. CourierStep(o)
    <3>1. CourierWrites(o, IdleCourier, r, received[d])
      BY <1>1, <1>2, <1>3, <1>4, <1>6, CourierAtRest DEF CourierWrites
    <3> QED BY <1>1, <1>2, <3>1, CourierAtRest, WriteIsCourierStep
  <2>3. \A e \in Deliveries : outbox'[e].state = "delivered" => received[e] >= 1
    BY <1>1, <1>2, <1>5, <2>1
  <2> QED BY <1>1, <1>2, <1>4, <2>1, <2>2, <2>3, CourierAtRest
<1>7. CASE ~CanSettleDelivery(o) /\ courier' = [courier EXCEPT ![o].at = "dead"] /\ UNCHANGED outbox
  <2> DEFINE q == [courier[o] EXCEPT !.at = "dead"]
  <2>1. q \in Couriers /\ q.at = "dead" /\ q.on = d /\ q.version = courier[o].version
    BY <1>1 DEF Couriers
  <2>2. courier' = [courier EXCEPT ![o] = q] /\ courier'[o] = q
    BY <1>t, <1>7
  <2> HIDE DEF q, r
  <2>3. CourierStep(o)
    <3>0. UNCHANGED outbox /\ courier[o].at \notin {"idle", "dead"} /\ received[d] >= received[d]
      BY <1>1, <1>7
    <3>1. CourierWrites(o, q, r, received[d])
      BY <1>2, <1>3, <1>4, <2>1, <2>2, <3>0 DEF CourierWrites
    <3> QED BY <1>1, <1>2, <2>1, <3>1, WriteIsCourierStep
  <2> QED BY <1>1, <1>4, <1>5, <1>7, <2>1, <2>2, <2>3 DEF InForce
<1>8. CASE /\ DeliveryReplayed(o, SettledState(o)) /\ UNCHANGED outbox
           /\ courier' = [courier EXCEPT ![o] = IdleCourier]
  <2>1. courier'[o] = IdleCourier
    BY <1>t, <1>8
  <2>2. ~InForce(o)
    BY <1>8 DEF DeliveryReplayed, SettledState, InForce, CanSettleDelivery
  <2> HIDE DEF r
  <2>3. CourierStep(o)
    <3>1. CourierWrites(o, IdleCourier, r, received[d])
      BY <1>1, <1>2, <1>3, <1>4, <1>8, CourierAtRest DEF CourierWrites
    <3> QED BY <1>1, <1>2, <3>1, CourierAtRest, WriteIsCourierStep
  <2> QED BY <1>1, <1>4, <1>5, <1>8, <2>1, <2>2, <2>3, CourierAtRest
<1>9. \/ /\ CanSettleDelivery(o)
         /\ outbox' = [outbox EXCEPT ![d] = r] /\ courier' = [courier EXCEPT ![o] = IdleCourier]
      \/ ~CanSettleDelivery(o) /\ courier' = [courier EXCEPT ![o].at = "dead"] /\ UNCHANGED outbox
      \/ /\ DeliveryReplayed(o, SettledState(o)) /\ UNCHANGED outbox
         /\ courier' = [courier EXCEPT ![o] = IdleCourier]
  BY DEF SettleDelivery
<1> QED BY <1>6, <1>7, <1>8, <1>9

LEMMA DiesStep ==
    ASSUME DeliveryTypes, CouriersKnowTheirRows, OnlyClaimsExpire, NEW o \in Owners,
           DeliveryPumpDies(o)
    PROVE  CourierStep(o) /\ courier'[o].at = "idle" /\ UNCHANGED <<outbox, received>>
<1>t. /\ outbox \in [Deliveries -> DeliveryRows] /\ courier \in [Owners -> Couriers]
      /\ received \in [Deliveries -> Nat]
  BY DEF DeliveryTypes
<1>1. courier' = [courier EXCEPT ![o] = IdleCourier] /\ UNCHANGED <<outbox, received>>
  BY DEF DeliveryPumpDies
<1>2. courier'[o].at = "idle" /\ \A p \in Owners \ {o} : courier'[p] = courier[p]
  BY <1>t, <1>1, CourierAtRest
<1>3. DeliveryTypes'
  BY <1>t, <1>1, CourierAtRest DEF DeliveryTypes
<1>4. \A d \in Deliveries : received[d] <= received'[d]
  BY <1>t, <1>1
<1> QED BY <1>1, <1>2, <1>3, <1>4 DEF CourierStep, OnlyClaimsExpire, RowQuiet, OwnCourier

\* A claim expires; if somebody works on it, that is a fault.
LEMMA LapseStep ==
    ASSUME DeliveryTypes, CouriersKnowTheirRows, OnlyClaimsExpire, SinkCallsPaidFor,
           faults \in Nat, FaultsGrow, NEW d \in Deliveries, DeliveryClaimLapses(d)
    PROVE  DeliveryTypes' /\ DeliveryInv'
<1>t. /\ outbox \in [Deliveries -> DeliveryRows] /\ courier \in [Owners -> Couriers]
      /\ received \in [Deliveries -> Nat]
  BY DEF DeliveryTypes
<1> DEFINE r == [outbox[d] EXCEPT !.stale = TRUE]
<1>1. /\ outbox[d].state = "claimed" /\ ~outbox[d].stale /\ UNCHANGED <<courier, received>>
      /\ Lapses(DeliveryWorkedOn(d)) /\ outbox' = [outbox EXCEPT ![d] = r]
  BY <1>t DEF DeliveryClaimLapses
<1>2. /\ r \in DeliveryRows /\ r.state = "claimed" /\ r.version = outbox[d].version /\ r.stale
  BY <1>1, DeliveryFields DEF DeliveryRows
<1> HIDE DEF r
<1>3. outbox'[d] = r /\ \A e \in Deliveries \ {d} : outbox'[e] = outbox[e]
  BY <1>t, <1>1
<1>4. \A e \in Deliveries : outbox'[e].version = outbox[e].version /\ outbox'[e].state = outbox[e].state
  BY <1>1, <1>2, <1>3
<1>5. DeliveryTypes'
  BY <1>t, <1>1, <1>2 DEF DeliveryTypes
<1>6. \A o \in Owners : courier[o].at # "idle" => (CanSettleDelivery(o)' <=> CanSettleDelivery(o))
  BY <1>1, <1>4 DEF CanSettleDelivery, CouriersKnowTheirRows
<1>7. CouriersKnowTheirRows'
  <2>1. ASSUME NEW o \in Owners, courier'[o].at # "idle"
        PROVE  /\ courier'[o].on \in Deliveries
               /\ courier'[o].version <= outbox'[courier'[o].on].version
               /\ courier'[o].at = "complete" => received'[courier'[o].on] >= 1
    BY <1>1, <1>4, <2>1 DEF CouriersKnowTheirRows
  <2>2. ASSUME NEW o \in Owners, NEW p \in Owners, courier'[o].at # "idle",
               {courier'[o].at, courier'[p].at} \cap {"idle", "dead"} = {},
               courier'[p].on = courier'[o].on, CanSettleDelivery(o)', CanSettleDelivery(p)'
        PROVE  p = o
    <3>1. courier'[o] = courier[o] /\ courier'[p] = courier[p]
          /\ courier[o].at \notin {"idle", "dead"} /\ courier[p].at \notin {"idle", "dead"}
      BY <1>1, <2>2
    <3>2. CanSettleDelivery(o) /\ CanSettleDelivery(p)
      BY <1>6, <2>2, <3>1
    <3> QED BY <2>2, <3>1, <3>2, OnlySettler
  <2> QED BY <2>1, <2>2 DEF CouriersKnowTheirRows
<1>8. OnlyClaimsExpire'
  BY <1>2, <1>3 DEF OnlyClaimsExpire
<1>9. ASSUME NEW e \in Deliveries PROVE Account(e)'
  <2>0. Account(e) /\ received[e] \in Nat /\ received'[e] = received[e]
    BY <1>t, <1>1 DEF SinkCallsPaidFor, Account
  <2>1. ASSUME NEW o \in Owners, courier[o].at # "idle", courier[o].on # d
        PROVE  InForce(o)' <=> InForce(o)
    BY <1>1, <1>3, <1>6, <2>1 DEF InForce, CouriersKnowTheirRows
  <2>2. CASE e # d
    <3>1. Belated(e)' \subseteq Belated(e)
      BY <1>1, <2>1, <2>2 DEF Belated
    <3>2. Made(e) => Made(e)'
      BY <1>1, <1>4, <2>1, <2>2 DEF Made
    <3>3. \E o : o \in Owners
      BY PumpConstants
    <3> QED BY <2>0, <3>1, <3>2, <3>3, AccountStep
  <2>3. CASE e = d /\ ~DeliveryWorkedOn(d)
    <3>1. ASSUME NEW o \in Owners, courier[o].at \notin {"idle", "dead"}, courier[o].on = d
          PROVE  ~InForce(o) /\ ~InForce(o)'
      BY <1>1, <1>4, <2>3, <3>1 DEF DeliveryWorkedOn, InForce, CanSettleDelivery
    <3>2. Belated(d)' \subseteq Belated(d)
      BY <1>1, <3>1 DEF Belated
    <3>3. ~Made(d)
      BY <1>1, <3>1 DEF Made
    <3>4. \E o : o \in Owners
      BY PumpConstants
    <3> QED BY <2>0, <2>3, <3>2, <3>3, <3>4, AccountStep
  <2>4. CASE e = d /\ DeliveryWorkedOn(d)
    <3>1. faults' = faults + 1
      BY <1>1, <2>4 DEF Lapses, Fault
    <3>2. PICK o \in Owners : /\ courier[o].at \notin {"idle", "dead"} /\ courier[o].on = d
                              /\ courier[o].version = outbox[d].version
      BY <2>4 DEF DeliveryWorkedOn
    <3>3. CanSettleDelivery(o)
      BY <1>1, <3>2 DEF CanSettleDelivery
    <3>4. ASSUME NEW p \in Owners \ {o}, courier[p].at \notin {"idle", "dead"}, courier[p].on = d
          PROVE  ~InForce(p)
      BY <3>2, <3>3, <3>4, OnlySettler
    <3>5. Belated(d)' \subseteq Belated(d) \cup {o}
      BY <1>1, <3>4 DEF Belated
    <3>6. CASE courier[o].at = "complete"
      <4>1. Belated(d)' \subseteq Belated(d)
        BY <1>1, <3>5, <3>6 DEF Belated
      <4> QED BY <2>0, <2>4, <3>1, <4>1, AccountStep
    <3>7. CASE courier[o].at # "complete"
      <4>1. ~Made(d)
        BY <1>1, <3>4, <3>7 DEF Made
      <4> QED BY <2>0, <2>4, <3>1, <3>5, <4>1, AccountStep
    <3> QED BY <3>6, <3>7
  <2> QED BY <2>2, <2>3, <2>4
<1>10. \A e \in Deliveries : outbox'[e].state = "delivered" => received'[e] >= 1
  BY <1>1, <1>4 DEF SinkCallsPaidFor
<1> QED BY <1>5, <1>7, <1>8, <1>9, <1>10 DEF DeliveryInv, SinkCallsPaidFor, Account

\* The rows of the terminal commit, before which there was none.
LEMMA InsertStep ==
    ASSUME DeliveryTypes, CouriersKnowTheirRows, OnlyClaimsExpire, NEW o \in Owners,
           NEW D, InsertDeliveries(D), \A d \in Deliveries : outbox[d].state = "none"
    PROVE  /\ CourierStep(o) /\ UNCHANGED <<courier, received>>
           /\ \A d \in Deliveries : outbox'[d].state # "delivered"
           /\ \A p \in Owners : courier[p].at # "idle" => ~InForce(p)
<1>t. /\ outbox \in [Deliveries -> DeliveryRows] /\ courier \in [Owners -> Couriers]
      /\ received \in [Deliveries -> Nat]
  BY DEF DeliveryTypes
<1>1. /\ UNCHANGED <<courier, received>>
      /\ outbox' = [d \in Deliveries |->
                       IF d \in D THEN [outbox[d] EXCEPT !.state = "pending"] ELSE outbox[d]]
  BY DEF InsertDeliveries
<1>2. \A d \in Deliveries : /\ outbox[d] \in DeliveryRows /\ outbox[d].version \in Nat
                            /\ [outbox[d] EXCEPT !.state = "pending"] \in DeliveryRows
                            /\ ~outbox[d].stale
  BY DeliveryFields DEF DeliveryRows, OnlyClaimsExpire
<1>3. \A d \in Deliveries :
         /\ outbox'[d] \in DeliveryRows /\ outbox'[d].version = outbox[d].version
         /\ outbox'[d].state \in {"none", "pending"} /\ ~outbox'[d].stale
  BY <1>1, <1>2 DEF DeliveryRows
<1>4. DeliveryTypes'
  BY <1>t, <1>1, <1>3 DEF DeliveryTypes
<1>5. OnlyClaimsExpire'
  BY <1>3 DEF OnlyClaimsExpire
<1>6. \A d \in Deliveries : RowQuiet(o, d)
  <2>1. \A d \in Deliveries : received[d] <= received'[d]
    BY <1>t, <1>1
  <2> QED BY <1>3, <2>1 DEF RowQuiet
<1>7. \A p \in Owners : courier[p].at # "idle" => ~CanSettleDelivery(p) /\ ~CanSettleDelivery(p)'
  BY <1>1, <1>3 DEF CanSettleDelivery, CouriersKnowTheirRows
<1>8. OwnCourier(o)
  BY <1>1, <1>3, <1>7 DEF OwnCourier, CouriersKnowTheirRows
<1> QED BY <1>1, <1>3, <1>4, <1>5, <1>6, <1>7, <1>8 DEF CourierStep, InForce

\* The deliveries, step by step.
LEMMA DeliveryStep ==
    ASSUME DeliveryTypes, DeliveryInv, faults \in Nat, FaultsGrow, DeliveryMove,
           run # "ended" => \A d \in Deliveries : outbox[d].state = "none"
    PROVE  DeliveryTypes' /\ DeliveryInv'
<1>i. CouriersKnowTheirRows /\ OnlyClaimsExpire /\ SinkCallsPaidFor
  BY DEF DeliveryInv
<1>r. \A d \in Deliveries : received[d] \in Nat /\ Account(d)
  BY <1>i, DeliveryFields DEF SinkCallsPaidFor, Account
<1>s. ASSUME NEW o \in Owners, CourierStep(o), \A d \in Deliveries : Account(d)',
             \A d \in Deliveries : outbox'[d].state = "delivered" => received'[d] >= 1
      PROVE  DeliveryTypes' /\ DeliveryInv'
  <2>1. CouriersKnowTheirRows'
    BY <1>i, <1>s, CouriersKnowStep
  <2> QED BY <1>s, <2>1 DEF DeliveryInv, SinkCallsPaidFor, Account, CourierStep
<1>n. ASSUME NEW o \in Owners, CourierStep(o) PROVE \A d \in Deliveries : received'[d] \in Nat
  BY <1>n DEF CourierStep, DeliveryTypes
<1>q. ASSUME NEW o \in Owners, CourierStep(o), UNCHANGED received,
             \A d \in Deliveries : o \in Belated(d)' => o \in Belated(d),
             \A d \in Deliveries : courier[o].at = "complete" /\ InForce(o) /\ courier[o].on = d =>
                 Made(d)' \/ faults' = faults + 1
      PROVE  \A d \in Deliveries : Account(d)'
  <2> SUFFICES ASSUME NEW d \in Deliveries PROVE Account(d)'
    OBVIOUS
  <2>1. Belated(d)' \subseteq Belated(d)
    BY <1>i, <1>q, BelatedKept
  <2>2. ASSUME Made(d) PROVE Made(d)' \/ faults' = faults + 1
    <3>1. Made(d)' \/ (courier[o].at = "complete" /\ courier[o].on = d /\ InForce(o))
      BY <1>i, <1>q, <2>2, BelatedKept
    <3> QED BY <1>q, <3>1
  <2> QED BY <1>q, <1>n, <1>r, <2>1, <2>2, AccountStep
<1>d. ASSUME NEW o \in Owners, CourierStep(o), UNCHANGED received,
             \A d \in Deliveries : outbox'[d].state = "delivered" => outbox[d].state = "delivered"
      PROVE  \A d \in Deliveries : outbox'[d].state = "delivered" => received'[d] >= 1
  BY <1>i, <1>d DEF SinkCallsPaidFor
<1>1. ASSUME NEW o \in Owners, ClaimDelivery(o) PROVE DeliveryTypes' /\ DeliveryInv'
  <2>1. /\ CourierStep(o) /\ UNCHANGED received
        /\ courier[o].at = "idle" /\ courier'[o].at = "claimed" /\ InForce(o)'
    BY <1>1, <1>i, ClaimIsCourierStep
  <2>2. \A d \in Deliveries : Account(d)'
    BY <1>q, <2>1 DEF Belated
  <2>3. \A d \in Deliveries : outbox'[d].state = "delivered" => outbox[d].state = "delivered"
    <3>1. PICK c \in Deliveries, r \in DeliveryRows :
             /\ r.state = "claimed"
             /\ outbox' = [[e \in Deliveries |-> Expired(outbox[e])] EXCEPT ![c] = r]
      BY <1>1, ClaimDeliveryEffect
    <3>2. ASSUME NEW e \in Deliveries, outbox'[e].state = "delivered"
          PROVE  outbox[e].state = "delivered"
      <4>1. e # c
        BY <3>1, <3>2
      <4>2. outbox'[e] = Expired(outbox[e])
        BY <3>1, <4>1
      <4> QED BY <3>2, <4>2, ExpiredRow, DeliveryFields
    <3> QED BY <3>2
  <2> QED BY <1>s, <1>d, <2>1, <2>2, <2>3
<1>2. ASSUME NEW o \in Owners, RecordHandoff(o) PROVE DeliveryTypes' /\ DeliveryInv'
  <2>1. /\ CourierStep(o) /\ UNCHANGED received /\ courier[o].at = "claimed"
        /\ \/ courier'[o].at = "dead"
           \/ /\ courier'[o].at = "handed_off" /\ courier'[o].on = courier[o].on
              /\ InForce(o) => InForce(o)'
    BY <1>2, <1>i, HandoffStep
  <2>2. \A d \in Deliveries : o \in Belated(d)' => o \in Belated(d)
    BY <2>1 DEF Belated
  <2>3. \A d \in Deliveries : Account(d)'
    BY <1>q, <2>1, <2>2
  <2>4. \A d \in Deliveries : outbox'[d].state = "delivered" => outbox[d].state = "delivered"
    <3>0. courier[o].on \in Deliveries
      BY <1>i, <2>1 DEF CouriersKnowTheirRows
    <3> QED BY <1>2, <3>0 DEF RecordHandoff, DeliveryTypes, DeliveryRows
  <2> QED BY <1>s, <1>d, <2>1, <2>3, <2>4
<1>3. ASSUME NEW o \in Owners, SinkAccepts(o) \/ SinkRaises(o) PROVE DeliveryTypes' /\ DeliveryInv'
  <2>0. courier[o].at = "handed_off" /\ courier[o].on \in Deliveries /\ UNCHANGED outbox
    BY <1>3, <1>i DEF SinkAccepts, SinkRaises, CouriersKnowTheirRows
  <2>1. PICK at \in {"complete", "release"},
             n \in {received[courier[o].on], received[courier[o].on] + 1} :
           /\ courier' = [courier EXCEPT ![o].at = at]
           /\ received' = [received EXCEPT ![courier[o].on] = n]
           /\ at = "complete" => n = received[courier[o].on] + 1
           /\ at = "release" => faults' = faults + 1
    <3>1. CASE SinkAccepts(o)
      BY <3>1 DEF SinkAccepts
    <3>2. CASE SinkRaises(o)
      <4>1. received = [received EXCEPT ![courier[o].on] = received[courier[o].on]]
        BY DEF DeliveryTypes
      <4>2. \E n \in {received[courier[o].on], received[courier[o].on] + 1} :
               received' = [received EXCEPT ![courier[o].on] = n]
        BY <3>2, <4>1 DEF SinkRaises
      <4> QED BY <3>2, <4>2 DEF SinkRaises, Fault
    <3> QED BY <1>3, <3>1, <3>2
  <2>2. /\ CourierStep(o) /\ courier'[o].at = at /\ courier'[o].on = courier[o].on
        /\ InForce(o)' <=> InForce(o)
    BY <1>i, <2>0, <2>1, SinkStep
  <2>3. \A d \in Deliveries \ {courier[o].on} : received'[d] = received[d]
    BY <2>1 DEF DeliveryTypes
  <2>4. received'[courier[o].on] = n
    BY <2>0, <2>1 DEF DeliveryTypes
  <2>5. ASSUME NEW d \in Deliveries PROVE Account(d)'
    <3>0. /\ Belated(d)' \ {o} = Belated(d) \ {o} /\ (Made(d) => Made(d)')
          /\ o \notin Belated(d)'
      BY <1>i, <2>0, <2>1, <2>2, BelatedKept DEF Belated
    <3>1. CASE d # courier[o].on
      BY <1>n, <1>r, <2>2, <2>3, <3>0, <3>1, AccountStep
    <3>2. CASE d = courier[o].on /\ n = received[d]
      BY <1>n, <1>r, <2>2, <2>4, <3>0, <3>2, AccountStep
    <3>3. CASE d = courier[o].on /\ n = received[d] + 1 /\ at = "release"
      BY <1>n, <1>r, <2>1, <2>2, <2>4, <3>0, <3>3, AccountStep
    <3>4. CASE d = courier[o].on /\ n = received[d] + 1 /\ at = "complete" /\ InForce(o)
      <4>1. Made(d)'
        BY <2>2, <3>4 DEF Made
      <4>2. ~Made(d)
        <5>1. outbox[d].state = "claimed"
          BY <3>4 DEF InForce, CanSettleDelivery
        <5>2. ASSUME NEW p \in Owners \ {o}, courier[p].at = "complete", courier[p].on = d
              PROVE  ~InForce(p)
          BY <1>i, <2>0, <3>4, <5>2, OnlySettler DEF InForce
        <5> QED BY <2>0, <5>1, <5>2 DEF Made
      <4> QED BY <1>n, <1>r, <2>2, <2>4, <3>0, <3>4, <4>1, <4>2, AccountStep
    <3>5. CASE d = courier[o].on /\ n = received[d] + 1 /\ at = "complete" /\ ~InForce(o)
      <4>1. o \in Belated(d)
        BY <2>0, <3>5 DEF Belated
      <4>2. Belated(d)' \subseteq Belated(d) \ {o}
        BY <3>0
      <4> QED BY <1>n, <1>r, <2>2, <2>4, <3>0, <3>5, <4>1, <4>2, AccountStep
    <3> QED BY <2>1, <3>1, <3>2, <3>3, <3>4, <3>5
  <2>6. \A d \in Deliveries : outbox'[d].state = "delivered" => received'[d] >= 1
    <3>1. \A d \in Deliveries : received[d] <= received'[d] /\ received[d] \in Nat /\ received'[d] \in Nat
      BY <1>n, <1>r, <2>2 DEF CourierStep, RowQuiet
    <3> QED BY <1>i, <2>0, <3>1 DEF SinkCallsPaidFor
  <2> QED BY <1>s, <2>2, <2>5, <2>6
<1>4. ASSUME NEW o \in Owners, SettleDelivery(o) PROVE DeliveryTypes' /\ DeliveryInv'
  <2>1. /\ CourierStep(o) /\ UNCHANGED received
        /\ courier[o].at \in {"complete", "release"} /\ courier'[o].at \in {"idle", "dead"}
        /\ courier[o].at = "complete" /\ InForce(o) => outbox'[courier[o].on].state = "delivered"
        /\ \A d \in Deliveries : outbox'[d].state = "delivered" => received[d] >= 1
    BY <1>4, <1>i, SettleStep
  <2>a. \A d \in Deliveries : o \in Belated(d)' => o \in Belated(d)
    BY <2>1 DEF Belated
  <2>b. \A d \in Deliveries :
           courier[o].at = "complete" /\ InForce(o) /\ courier[o].on = d => Made(d)'
    BY <2>1 DEF Made
  <2>2. \A d \in Deliveries : Account(d)'
    BY <1>q, <2>1, <2>a, <2>b
  <2> QED BY <1>s, <2>1, <2>2
<1>5. ASSUME NEW o \in Owners, DeliveryPumpDies(o), Fault PROVE DeliveryTypes' /\ DeliveryInv'
  <2>1. CourierStep(o) /\ courier'[o].at = "idle" /\ UNCHANGED <<outbox, received>>
    BY <1>5, <1>i, DiesStep
  <2>2. faults' = faults + 1
    BY <1>5 DEF Fault
  <2>3. \A d \in Deliveries : Account(d)'
    BY <1>q, <2>1, <2>2 DEF Belated
  <2> QED BY <1>s, <1>d, <2>1, <2>3
<1>6. ASSUME NEW d \in Deliveries, DeliveryClaimLapses(d) PROVE DeliveryTypes' /\ DeliveryInv'
  BY <1>6, <1>i, LapseStep
<1>7. ASSUME RunEnds, NEW D, InsertDeliveries(D) PROVE DeliveryTypes' /\ DeliveryInv'
  <2>1. \A d \in Deliveries : outbox[d].state = "none"
    BY <1>7 DEF RunEnds
  <2>2. PICK o \in Owners : TRUE
    BY PumpConstants
  <2>3. /\ CourierStep(o) /\ UNCHANGED <<courier, received>>
        /\ \A d \in Deliveries : outbox'[d].state # "delivered"
        /\ \A p \in Owners : courier[p].at # "idle" => ~InForce(p)
    BY <1>i, <1>7, <2>1, InsertStep
  <2>4. \A d \in Deliveries : o \in Belated(d)' => o \in Belated(d)
    BY <2>3 DEF Belated
  <2>5. \A d \in Deliveries : Account(d)'
    BY <1>q, <2>3, <2>4
  <2> QED BY <1>s, <2>3, <2>5
<1>8. CASE UNCHANGED deliveryVars
  <2>1. \A d \in Deliveries : /\ Belated(d)' = Belated(d) /\ (Made(d)' <=> Made(d))
                              /\ received'[d] = received[d] /\ outbox'[d] = outbox[d]
    BY <1>8 DEF deliveryVars, Belated, Made, InForce, CanSettleDelivery
  <2>2. \E o : o \in Owners
    BY PumpConstants
  <2>3. \A d \in Deliveries : Account(d)'
    BY <1>r, <2>1, <2>2, AccountStep
  <2>4. DeliveryTypes' /\ CouriersKnowTheirRows' /\ OnlyClaimsExpire'
    BY <1>8, <1>i DEF deliveryVars, DeliveryTypes, CouriersKnowTheirRows, OnlyClaimsExpire,
       CanSettleDelivery
  <2> QED BY <1>i, <2>1, <2>3, <2>4 DEF DeliveryInv, SinkCallsPaidFor, Account
<1> QED BY <1>1, <1>2, <1>3, <1>4, <1>5, <1>6, <1>7, <1>8 DEF DeliveryMove, DeliveryPumpStep

-----------------------------------------------------------------------------
(* The children and their signals.                                         *)

ParentRows == [state : {"running", "waiting", "queued", "cancel_requested", "ended"},
               holder : Owners \cup {NoOwner}, drive : {"none", "scheduled", "driver"},
               claimed : BOOLEAN]
ChildRows == [state : {"none", "active", "ended"}, home : Owners \cup {NoOwner}]
SignalRows == [state : {"none", "pending", "claimed", "acked"}, at : Nat,
               owner : Owners \cup {NoOwner}, epoch : Nat, expired : BOOLEAN]
ListenerRows == [at : {"idle", "ack", "starting", "dead"}, on : Children,
                 epoch : Nat, acked : BOOLEAN]

\* The types of the children, by their tables.
ChildTypes ==
    /\ parent \in ParentRows /\ child \in [Children -> ChildRows]
    /\ signal \in [Children -> SignalRows] /\ listener \in [Owners -> ListenerRows]
    /\ told \in Seq(Children) /\ taken \in 0..Len(told) /\ lost \in BOOLEAN

LEMMA ChildTypeForm == (ChildTypeOK <=> ChildTypes) /\ (ChildTypeOK' <=> ChildTypes')
BY DEF ChildTypeOK, ChildTypes, ParentRows, ChildRows, SignalRows, ListenerRows

LEMMA SignalFields ==
    ASSUME ChildTypes
    PROVE  \A c \in Children :
              /\ signal[c] \in SignalRows /\ signal[c].at \in Nat /\ signal[c].epoch \in Nat
              /\ signal[c].state \in {"none", "pending", "claimed", "acked"}
BY DEF ChildTypes, SignalRows

\* The signals are as many as a natural number says.
LEMMA SignalsCount ==
    /\ IsFiniteSet(Signalled) /\ Cardinality(Signalled) \in Nat
    /\ IsFiniteSet({c \in Children : signal[c].state = "acked"})
<1>1. IsFiniteSet(Children)
  BY ChildConstants
<1>2. Signalled \subseteq Children /\ {c \in Children : signal[c].state = "acked"} \subseteq Children
  BY DEF Signalled
<1> QED BY <1>1, <1>2, FS_Subset, FS_CardinalityType

\* The oldest signal that is not acked is the one after those the parent was told.
LEMMA OldestIsNext ==
    ASSUME ChildTypes, SignalsNumbered, NEW c \in Children, IsOldest(c)
    PROVE  signal[c].at = Len(told) + 1 /\ signal[c].state \in {"pending", "claimed"}
<1>1. Len(told) \in Nat
  BY DEF ChildTypes
<1>2. c \in Signalled /\ signal[c].state \in {"pending", "claimed"} /\ signal[c].at \in Nat
  BY SignalFields DEF IsOldest, Signalled
<1>3. signal[c].at > Len(told) /\ signal[c].at <= Cardinality(Signalled)
  BY <1>1, <1>2, SignalsCount DEF SignalsNumbered
<1>4. Len(told) + 1 \in 1..Cardinality(Signalled)
  BY <1>1, <1>2, <1>3, SignalsCount
<1>5. PICK d \in Signalled : signal[d].at = Len(told) + 1
  BY <1>4 DEF SignalsNumbered
<1>6. d \in Children /\ signal[d].state \in {"pending", "claimed"}
  <2>1. d \in Children /\ signal[d].state # "none"
    BY DEF Signalled
  <2>2. signal[d].state # "acked"
    BY <1>1, <1>5 DEF SignalsNumbered
  <2> QED BY <2>1, <2>2, SignalFields
<1>7. signal[c].at <= signal[d].at
  BY <1>6 DEF IsOldest
<1> QED BY <1>1, <1>2, <1>3, <1>5, <1>7

\* No signal is inserted or acked; a claim takes the next signal.
SignalsKept ==
    /\ UNCHANGED told
    /\ \A c \in Children :
          /\ child[c].state = "ended" => child'[c].state = "ended"
          /\ signal'[c].at = signal[c].at
          /\ signal'[c].state = "none" <=> signal[c].state = "none"
          /\ signal'[c].state = "acked" <=> signal[c].state = "acked"
          /\ signal'[c].state = "claimed" =>
                signal[c].state = "claimed" \/ signal[c].at = Len(told) + 1

LEMMA SignalsKeptStep ==
    ASSUME ChildTypes, SignalsNumbered, ToldInOrder, SignalsKept
    PROVE  SignalsNumbered' /\ ToldInOrder'
<1>1. Signalled' = Signalled
  BY DEF Signalled, SignalsKept
<1>2. {c \in Children : signal'[c].state = "acked"} = {c \in Children : signal[c].state = "acked"}
  BY DEF SignalsKept
<1>3. \A i \in 1..Len(told) : told[i] \in Children
  BY DEF ChildTypes
<1>4. ToldInOrder'
  <2>1. \A i \in 1..Len(told) : signal'[told[i]].state = "acked" /\ signal'[told[i]].at = i
    BY <1>3 DEF ToldInOrder, SignalsKept
  <2>2. told' = told
    BY DEF SignalsKept
  <2> QED BY <1>2, <2>1, <2>2 DEF ToldInOrder
<1>5. \A c \in Children : child'[c].state # "ended" => signal'[c].state = "none"
  BY DEF SignalsNumbered, SignalsKept
<1>6. ASSUME NEW c \in Signalled
      PROVE  /\ signal'[c].at \in 1..Cardinality(Signalled)
             /\ \A d \in Signalled : signal'[d].at = signal'[c].at => d = c
             /\ signal'[c].state = "acked" <=> signal'[c].at <= Len(told')
             /\ signal'[c].state = "claimed" => signal'[c].at = Len(told') + 1
  BY DEF SignalsNumbered, SignalsKept, Signalled
<1>7. \A i \in 1..Cardinality(Signalled) : \E c \in Signalled : signal'[c].at = i
  BY DEF SignalsNumbered, SignalsKept, Signalled
<1> QED BY <1>1, <1>4, <1>5, <1>6, <1>7 DEF SignalsNumbered

\* A child ends: its signal gets the next number.
LEMMA EndChildStep ==
    ASSUME ChildTypes, SignalsNumbered, ToldInOrder, NEW c \in Children, EndChild(c)
    PROVE  ChildTypes' /\ SignalsNumbered' /\ ToldInOrder'
<1> DEFINE n == Cardinality(Signalled)
<1>n. n \in Nat /\ IsFiniteSet(Signalled) /\ Len(told) \in Nat
  BY SignalsCount DEF ChildTypes
<1>1. signal[c].state = "none" /\ c \notin Signalled /\ child[c].state = "active"
  BY DEF EndChild, SignalsNumbered, Signalled
<1>2. signal' = [signal EXCEPT ![c].state = "pending", ![c].at = 1 + n]
  BY DEF EndChild, Signalled
<1>3. \A d \in Children \ {c} : signal'[d] = signal[d] /\ child'[d] = child[d]
  BY <1>2 DEF EndChild, ChildTypes
<1>4. /\ signal'[c] \in SignalRows /\ signal'[c].state = "pending" /\ signal'[c].at = n + 1
      /\ child'[c] \in ChildRows /\ child'[c].state = "ended"
  <2>1. child'[c] \in ChildRows /\ child'[c].state = "ended"
    BY DEF EndChild, ChildTypes, ChildRows
  <2>2. signal'[c] = [signal[c] EXCEPT !.state = "pending", !.at = 1 + n]
    BY <1>2 DEF ChildTypes
  <2>3. signal[c] \in SignalRows /\ 1 + n \in Nat /\ n + 1 = 1 + n
    BY <1>n, SignalFields
  <2> HIDE DEF n
  <2> QED BY <2>1, <2>2, <2>3 DEF SignalRows
<1>5. ChildTypes'
  <2>1. signal' \in [Children -> SignalRows]
    BY <1>2, <1>3, <1>4 DEF ChildTypes
  <2>2. child' \in [Children -> ChildRows]
    BY <1>3, <1>4 DEF ChildTypes, EndChild
  <2> QED BY <2>1, <2>2 DEF ChildTypes, EndChild
<1>6. Signalled' = Signalled \cup {c}
  BY <1>3, <1>4 DEF Signalled
<1>7. Cardinality(Signalled)' = n + 1
  BY <1>n, <1>1, <1>6, FS_AddElement
<1>8. UNCHANGED told
  BY DEF EndChild
<1> HIDE DEF n
<1>9. Len(told) <= n
  <2>1. {d \in Children : signal[d].state = "acked"} \subseteq Signalled
    BY DEF Signalled
  <2> QED BY <1>n, <2>1, FS_Subset DEF ToldInOrder, n
<1>10. \A d \in Children : child'[d].state # "ended" => signal'[d].state = "none"
  BY <1>3, <1>4 DEF SignalsNumbered
<1>11. \A d \in Signalled : /\ d \in Children \ {c} /\ signal'[d] = signal[d]
                            /\ signal[d].at \in Nat /\ 1 <= signal[d].at /\ signal[d].at <= n
  BY <1>1, <1>3, <1>n, SignalFields DEF SignalsNumbered, Signalled, n
<1>12. ASSUME NEW d \in Signalled \cup {c}
       PROVE  /\ signal'[d].at \in 1..(n + 1)
              /\ \A e \in Signalled \cup {c} : signal'[e].at = signal'[d].at => e = d
              /\ signal'[d].state = "acked" <=> signal'[d].at <= Len(told)
              /\ signal'[d].state = "claimed" => signal'[d].at = Len(told) + 1
  <2>1. CASE d = c
    BY <1>4, <1>9, <1>11, <1>n, <2>1
  <2>2. CASE d \in Signalled
    <3>1. \A e \in Signalled : signal[e].at = signal[d].at => e = d
      BY <2>2 DEF SignalsNumbered
    <3>2. \A e \in Signalled \cup {c} : signal'[e].at = signal'[d].at => e = d
      BY <1>4, <1>11, <1>n, <2>2, <3>1
    <3>3. /\ signal[d].state = "acked" <=> signal[d].at <= Len(told)
          /\ signal[d].state = "claimed" => signal[d].at = Len(told) + 1
      BY <2>2 DEF SignalsNumbered
    <3>4. signal'[d].at \in 1..(n + 1)
      BY <1>11, <1>n, <2>2
    <3> QED BY <1>11, <2>2, <3>2, <3>3, <3>4
  <2> QED BY <2>1, <2>2
<1>13. ASSUME NEW i \in 1..(n + 1) PROVE \E d \in Signalled \cup {c} : signal'[d].at = i
  <2>1. CASE i = n + 1
    BY <1>4, <2>1
  <2>2. CASE i # n + 1
    <3>1. i \in 1..n
      BY <1>n, <2>2
    <3>2. PICK d \in Signalled : signal[d].at = i
      BY <3>1 DEF SignalsNumbered, n
    <3> QED BY <1>11, <3>2
  <2> QED BY <2>1, <2>2
<1>14. SignalsNumbered'
  BY <1>6, <1>7, <1>8, <1>10, <1>12, <1>13 DEF SignalsNumbered
<1>15. ToldInOrder'
  <2>1. {d \in Children : signal'[d].state = "acked"} = {d \in Children : signal[d].state = "acked"}
    BY <1>1, <1>3, <1>4
  <2>2. \A i \in 1..Len(told) : told[i] \in Children /\ signal[told[i]].state = "acked"
    BY DEF ChildTypes, ToldInOrder
  <2>3. \A i \in 1..Len(told) : signal'[told[i]] = signal[told[i]]
    BY <1>1, <1>3, <2>2
  <2> QED BY <1>8, <2>1, <2>3 DEF ToldInOrder
<1> QED BY <1>5, <1>14, <1>15

\* The next signal is acked and the parent is told of it.
SignalAcked(c) ==
    /\ signal[c].state \in {"pending", "claimed"} /\ signal[c].at = Len(told) + 1
    /\ signal' = [signal EXCEPT ![c].state = "acked"]
    /\ told' = Append(told, c)
    /\ UNCHANGED child

LEMMA SignalAckedStep ==
    ASSUME ChildTypes, SignalsNumbered, ToldInOrder, NEW c \in Children, SignalAcked(c)
    PROVE  SignalsNumbered' /\ ToldInOrder'
<1>n. Len(told) \in Nat /\ told \in Seq(Children)
  BY DEF ChildTypes
<1>1. \A d \in Children \ {c} : signal'[d] = signal[d]
  BY DEF SignalAcked, ChildTypes
<1>2. signal'[c].state = "acked" /\ signal'[c].at = Len(told) + 1
  BY DEF SignalAcked, ChildTypes, SignalRows
<1>3. /\ Len(told') = Len(told) + 1 /\ told'[Len(told) + 1] = c
      /\ \A i \in 1..Len(told) : told'[i] = told[i]
  BY <1>n DEF SignalAcked
<1>4. c \in Signalled /\ Signalled' = Signalled
  BY <1>1, <1>2 DEF SignalAcked, Signalled
<1>5. \A d \in Children : signal'[d].at = signal[d].at
  BY <1>1, <1>2 DEF SignalAcked
<1>6. \A d \in Children : child'[d].state # "ended" => signal'[d].state = "none"
  <2>1. child[c].state = "ended"
    BY DEF SignalsNumbered, SignalAcked
  <2> QED BY <1>1, <2>1 DEF SignalsNumbered, SignalAcked
<1>7. ASSUME NEW d \in Signalled
      PROVE  /\ signal'[d].at \in 1..Cardinality(Signalled)
             /\ \A e \in Signalled : signal'[e].at = signal'[d].at => e = d
             /\ signal'[d].state = "acked" <=> signal'[d].at <= Len(told')
             /\ signal'[d].state = "claimed" => signal'[d].at = Len(told') + 1
  <2>1. \A e \in Signalled : e \in Children /\ signal[e].at \in Nat
    BY SignalFields DEF Signalled
  <2>2. /\ signal'[d].at \in 1..Cardinality(Signalled)
        /\ \A e \in Signalled : signal'[e].at = signal'[d].at => e = d
    BY <1>5, <2>1 DEF SignalsNumbered
  <2>3. CASE d = c
    BY <1>n, <1>2, <1>3, <2>2, <2>3
  <2>4. CASE d # c
    <3>1. signal'[d] = signal[d] /\ signal[d].at # Len(told) + 1
      BY <1>1, <1>4, <2>1, <2>4 DEF SignalsNumbered, SignalAcked
    <3>2. /\ signal[d].state = "acked" <=> signal[d].at <= Len(told)
          /\ signal[d].state = "claimed" => signal[d].at = Len(told) + 1
      BY DEF SignalsNumbered
    <3>3. signal[d].at <= Len(told) <=> signal[d].at <= Len(told) + 1
      BY <1>n, <2>1, <3>1
    <3> QED BY <1>3, <2>2, <3>1, <3>2, <3>3
  <2> QED BY <2>3, <2>4
<1>8. \A i \in 1..Cardinality(Signalled) : \E d \in Signalled : signal'[d].at = i
  BY <1>5 DEF SignalsNumbered, Signalled
<1>9. SignalsNumbered'
  BY <1>4, <1>6, <1>7, <1>8 DEF SignalsNumbered
<1>10. ASSUME NEW i \in 1..Len(told')
       PROVE  signal'[told'[i]].state = "acked" /\ signal'[told'[i]].at = i
  <2>1. CASE i = Len(told) + 1
    BY <1>2, <1>3, <2>1
  <2>2. CASE i # Len(told) + 1
    <3>1. i \in 1..Len(told)
      BY <1>n, <1>3, <2>2
    <3>2. told[i] \in Children /\ signal[told[i]].state = "acked" /\ signal[told[i]].at = i
      BY <1>n, <3>1 DEF ToldInOrder
    <3>3. told[i] # c
      BY <3>2 DEF SignalAcked
    <3> QED BY <1>1, <1>3, <3>1, <3>2, <3>3
  <2> QED BY <2>1, <2>2
<1>11. Len(told') = Cardinality({d \in Children : signal'[d].state = "acked"})
  <2> DEFINE A == {d \in Children : signal[d].state = "acked"}
             B == {d \in Children : signal'[d].state = "acked"}
  <2>1. B = A \cup {c} /\ c \notin A
    BY <1>1, <1>2 DEF SignalAcked
  <2>2. IsFiniteSet(A)
    BY SignalsCount
  <2>3. Len(told) = Cardinality(A)
    BY DEF ToldInOrder
  <2> HIDE DEF A, B
  <2>4. Cardinality(B) = Cardinality(A) + 1
    BY <2>1, <2>2, FS_AddElement
  <2>5. Len(told') = Cardinality(B)
    BY <1>3, <2>3, <2>4
  <2> QED BY <2>5 DEF B
<1> QED BY <1>9, <1>10, <1>11 DEF ToldInOrder

\* What the claims of a driver rest on.
LEMMA ClaimedInputStep ==
    ASSUME ChildTypes, ClaimedInputIsLeft, Len(told') \in Nat, Len(told) <= Len(told'),
           UNCHANGED taken,
           parent'.claimed => parent.claimed \/ InputLeft
    PROVE  ClaimedInputIsLeft'
<1>1. Len(told) \in Nat /\ taken \in Nat
  BY DEF ChildTypes
<1> QED BY <1>1 DEF ClaimedInputIsLeft, InputLeft

\* What is proved of the children.
ChildInv == SignalsNumbered /\ ClaimedInputIsLeft /\ ToldInOrder

\* Steps of the parent alone.
LEMMA ParentStep ==
    ASSUME ChildTypes, ChildInv, UNCHANGED <<signal, told, taken>>,
           child' \in [Children -> ChildRows], parent' \in ParentRows,
           listener' \in [Owners -> ListenerRows], lost' \in BOOLEAN,
           \A c \in Children : child[c].state = "ended" => child'[c].state = "ended",
           parent'.claimed => parent.claimed \/ InputLeft
    PROVE  ChildTypes' /\ ChildInv'
<1>1. ChildTypes'
  BY DEF ChildTypes
<1>2. SignalsKept
  BY DEF SignalsKept
<1>3. SignalsNumbered' /\ ToldInOrder'
  BY <1>2, SignalsKeptStep DEF ChildInv
<1>4. Len(told') \in Nat /\ Len(told) <= Len(told')
  BY DEF ChildTypes
<1> QED BY <1>1, <1>3, <1>4, ClaimedInputStep DEF ChildInv

\* Whatever the parent may become.
LEMMA ParentRowFacts ==
    ASSUME ChildTypes, NEW o \in Owners
    PROVE  /\ EndedParent \in ParentRows /\ ~EndedParent.claimed
           /\ Woken(o) \in ParentRows /\ Woken(o).claimed = parent.claimed
           /\ \A drive \in {"none", "scheduled", "driver"} :
                 /\ [parent EXCEPT !.drive = drive] \in ParentRows
                 /\ [parent EXCEPT !.drive = drive].claimed = parent.claimed
                 /\ [parent EXCEPT !.state = "waiting", !.claimed = FALSE, !.drive = drive]
                       \in ParentRows
                 /\ ~[parent EXCEPT !.state = "waiting", !.claimed = FALSE, !.drive = drive].claimed
           /\ \A state \in {"running", "waiting", "queued", "cancel_requested", "ended"} :
                 /\ [parent EXCEPT !.state = state] \in ParentRows
                 /\ [parent EXCEPT !.state = state].claimed = parent.claimed
           /\ [parent EXCEPT !.holder = NoOwner, !.drive = "none", !.claimed = FALSE] \in ParentRows
<1>p. parent \in ParentRows
  BY DEF ChildTypes
<1>1. EndedParent \in ParentRows /\ ~EndedParent.claimed
  BY DEF EndedParent, ParentRows
<1>2. Woken(o) \in ParentRows /\ Woken(o).claimed = parent.claimed
  BY <1>p DEF Woken, ParentRows
<1>3. ASSUME NEW drive \in {"none", "scheduled", "driver"}
      PROVE  /\ [parent EXCEPT !.drive = drive] \in ParentRows
             /\ [parent EXCEPT !.drive = drive].claimed = parent.claimed
  BY <1>p DEF ParentRows
<1>4. ASSUME NEW drive \in {"none", "scheduled", "driver"}
      PROVE  /\ [parent EXCEPT !.state = "waiting", !.claimed = FALSE, !.drive = drive] \in ParentRows
             /\ ~[parent EXCEPT !.state = "waiting", !.claimed = FALSE, !.drive = drive].claimed
  BY <1>p DEF ParentRows
<1>5. ASSUME NEW state \in {"running", "waiting", "queued", "cancel_requested", "ended"}
      PROVE  /\ [parent EXCEPT !.state = state] \in ParentRows
             /\ [parent EXCEPT !.state = state].claimed = parent.claimed
  BY <1>p DEF ParentRows
<1>6. [parent EXCEPT !.holder = NoOwner, !.drive = "none", !.claimed = FALSE] \in ParentRows
  BY <1>p DEF ParentRows
<1> QED BY <1>1, <1>2, <1>3, <1>4, <1>5, <1>6

\* A signal is claimed.
LEMMA ClaimSignalStep ==
    ASSUME ChildTypes, ChildInv, NEW o \in Owners, ClaimSignal(o)
    PROVE  ChildTypes' /\ ChildInv'
<1>1. PICK c \in Children :
         /\ SignalIsDue(c)
         /\ signal' = [signal EXCEPT ![c].state = "claimed", ![c].owner = o,
                                     ![c].epoch = @ + 1, ![c].expired = FALSE]
         /\ listener' = [listener EXCEPT ![o].at = "ack", ![o].on = c,
                                         ![o].epoch = signal'[c].epoch]
  BY DEF ClaimSignal
<1>2. signal[c].at = Len(told) + 1 /\ signal[c].state \in {"pending", "claimed"}
  BY <1>1, OldestIsNext DEF SignalIsDue, ChildInv
<1>3. signal'[c] = [signal[c] EXCEPT !.state = "claimed", !.owner = o, !.epoch = @ + 1,
                                     !.expired = FALSE]
  BY <1>1 DEF ChildTypes
<1>4. signal[c] \in SignalRows
  BY SignalFields
<1>5. /\ signal'[c] \in SignalRows /\ signal'[c].state = "claimed"
      /\ signal'[c].at = signal[c].at /\ signal'[c].epoch \in Nat
  <2>1. signal[c].epoch + 1 \in Nat
    BY SignalFields
  <2>2. signal'[c] = [signal[c] EXCEPT !.state = "claimed", !.owner = o,
                                       !.epoch = signal[c].epoch + 1, !.expired = FALSE]
    BY <1>3, <1>4 DEF SignalRows
  <2> QED BY <1>4, <2>1, <2>2 DEF SignalRows
<1>6. \A d \in Children \ {c} : signal'[d] = signal[d]
  BY <1>1 DEF ChildTypes
<1>7. signal' \in [Children -> SignalRows]
  BY <1>1, <1>5, <1>6 DEF ChildTypes
<1>8. listener' \in [Owners -> ListenerRows]
  <2>1. [listener[o] EXCEPT !.at = "ack", !.on = c, !.epoch = signal'[c].epoch] \in ListenerRows
    BY <1>5 DEF ChildTypes, ListenerRows
  <2> QED BY <1>1, <2>1 DEF ChildTypes
<1>9. ChildTypes'
  BY <1>7, <1>8 DEF ChildTypes, ClaimSignal
<1>10. SignalsKept
  BY <1>2, <1>5, <1>6 DEF SignalsKept, ClaimSignal
<1>11. SignalsNumbered' /\ ToldInOrder'
  BY <1>10, SignalsKeptStep DEF ChildInv
<1>12. ClaimedInputIsLeft'
  BY DEF ClaimSignal, ClaimedInputIsLeft, InputLeft, ChildInv
<1> QED BY <1>9, <1>11, <1>12 DEF ChildInv

\* A signal lapses.
LEMMA SignalLapsesStep ==
    ASSUME ChildTypes, ChildInv, NEW c \in Children, SignalLapses(c)
    PROVE  ChildTypes' /\ ChildInv'
<1>1. signal' = [signal EXCEPT ![c].expired = TRUE]
  BY DEF SignalLapses
<1>2. signal[c] \in SignalRows
  BY SignalFields
<1>3. [signal[c] EXCEPT !.expired = TRUE] \in SignalRows
  BY <1>2 DEF SignalRows
<1>4. signal' \in [Children -> SignalRows]
  BY <1>1, <1>3 DEF ChildTypes
<1>5. \A d \in Children : signal'[d].state = signal[d].state /\ signal'[d].at = signal[d].at
  BY <1>1, <1>2 DEF ChildTypes, SignalRows
<1>6. SignalsKept
  BY <1>5 DEF SignalsKept, SignalLapses
<1>7. SignalsNumbered' /\ ToldInOrder'
  BY <1>6, SignalsKeptStep DEF ChildInv
<1>8. ChildTypes'
  BY <1>4 DEF ChildTypes, SignalLapses
<1>9. ClaimedInputIsLeft'
  BY DEF SignalLapses, ClaimedInputIsLeft, InputLeft, ChildInv
<1> QED BY <1>7, <1>8, <1>9 DEF ChildInv

\* The parent is told.
LEMMA ToldStep ==
    ASSUME ChildTypes, ChildInv, NEW c \in Children, SignalAcked(c), UNCHANGED taken,
           parent' \in ParentRows, parent'.claimed = parent.claimed,
           listener' \in [Owners -> ListenerRows], lost' \in BOOLEAN
    PROVE  ChildTypes' /\ ChildInv'
<1>1. SignalsNumbered' /\ ToldInOrder'
  BY SignalAckedStep DEF ChildInv
<1>2. told' \in Seq(Children) /\ Len(told') = Len(told) + 1 /\ Len(told) \in Nat
  BY DEF ChildTypes, SignalAcked
<1>3. taken' \in 0..Len(told')
  BY <1>2 DEF ChildTypes
<1>4. signal' \in [Children -> SignalRows]
  <2>1. [signal[c] EXCEPT !.state = "acked"] \in SignalRows
    BY SignalFields DEF SignalRows
  <2> QED BY <2>1 DEF SignalAcked, ChildTypes
<1>5. ChildTypes'
  BY <1>2, <1>3, <1>4 DEF ChildTypes, SignalAcked
<1>6. ClaimedInputIsLeft'
  BY <1>2, ClaimedInputStep DEF ChildInv
<1> QED BY <1>1, <1>5, <1>6 DEF ChildInv

\* A step of a wake drain.
LEMMA ListenerStepKeeps ==
    ASSUME ChildTypes, ChildInv, NEW o \in Owners, ListenerStep(o)
    PROVE  ChildTypes' /\ ChildInv'
<1>l. /\ listener[o] \in ListenerRows /\ lost \in BOOLEAN /\ parent \in ParentRows
      /\ listener \in [Owners -> ListenerRows] /\ child \in [Children -> ChildRows]
  BY DEF ChildTypes
<1>1. CASE ClaimSignal(o)
  BY <1>1, ClaimSignalStep
<1>2. CASE QuarantineSignal(o)
  <2>1. PICK c \in Children : /\ IsOldest(c) /\ signal' = [signal EXCEPT ![c].state = "acked"]
                              /\ told' = Append(told, c)
    BY <1>2 DEF QuarantineSignal
  <2>2. SignalAcked(c)
    BY <1>2, <2>1, OldestIsNext DEF SignalAcked, QuarantineSignal, ChildInv
  <2> QED BY <1>2, <1>l, <2>2, ToldStep DEF QuarantineSignal
<1>3. CASE AckSignal(o) /\ CanAckSignal(o)
  <2> DEFINE c == listener[o].on
             s == IF parent.state = "waiting" THEN "queued" ELSE parent.state
  <2>1. c \in Children
    BY <1>l DEF ListenerRows
  <2>2. signal[c].state = "claimed"
    BY <1>3 DEF CanAckSignal, HoldsSignal
  <2>3. signal[c].at = Len(told) + 1
    BY <2>1, <2>2 DEF ChildInv, SignalsNumbered, Signalled
  <2>4. SignalAcked(c)
    BY <1>3, <2>2, <2>3 DEF AckSignal, SignalAcked
  <2>5. /\ parent' = [parent EXCEPT !.state = s]
        /\ s \in {"running", "waiting", "queued", "cancel_requested", "ended"}
    BY <1>3, <1>l DEF AckSignal, ParentRows
  <2>6. listener' \in [Owners -> ListenerRows]
    <3>1. [listener[o] EXCEPT !.at = "idle", !.acked = TRUE] \in ListenerRows
      BY <1>l DEF ListenerRows
    <3> QED BY <1>3, <1>l, <3>1 DEF AckSignal
  <2>7. UNCHANGED taken /\ lost' \in BOOLEAN
    BY <1>3, <1>l DEF AckSignal
  <2> HIDE DEF c, s
  <2>8. parent' \in ParentRows /\ parent'.claimed = parent.claimed
    BY <2>5, ParentRowFacts
  <2> QED BY <2>1, <2>4, <2>6, <2>7, <2>8, ToldStep
<1>4. CASE AckSignal(o) /\ ~CanAckSignal(o)
  <2>1. [listener[o] EXCEPT !.at = "dead"] \in ListenerRows /\ listener[o].acked \in BOOLEAN
    BY <1>l DEF ListenerRows
  <2>2. listener' \in [Owners -> ListenerRows] /\ lost' \in BOOLEAN
    BY <1>4, <1>l, <2>1 DEF AckSignal
  <2> QED BY <1>4, <1>l, <2>2, ParentStep DEF AckSignal
<1>5. CASE WakeParent(o)
  <2>1. [listener[o] EXCEPT !.acked = FALSE] \in ListenerRows
    BY <1>l DEF ListenerRows
  <2>2. listener' \in [Owners -> ListenerRows]
    BY <1>5, <1>l, <2>1 DEF WakeParent
  <2>3. parent' \in {parent, Woken(o), [parent EXCEPT !.drive = "scheduled"]}
    BY <1>5 DEF WakeParent
  <2>4. parent' \in ParentRows /\ parent'.claimed = parent.claimed
    BY <1>l, <2>3, ParentRowFacts
  <2>5. lost' \in BOOLEAN
    BY <1>5, <1>l DEF WakeParent
  <2> QED BY <1>5, <1>l, <2>2, <2>4, <2>5, ParentStep DEF WakeParent
<1>6. CASE RecoverParent(o)
  <2>1. [listener[o] EXCEPT !.at = "idle"] \in ListenerRows
    BY <1>l DEF ListenerRows
  <2>2. listener' \in [Owners -> ListenerRows]
    BY <1>6, <1>l, <2>1 DEF RecoverParent
  <2>3. parent' \in {parent, Woken(o)}
    BY <1>6 DEF RecoverParent
  <2>4. parent' \in ParentRows /\ parent'.claimed = parent.claimed
    BY <1>l, <2>3, ParentRowFacts
  <2> QED BY <1>6, <1>l, <2>2, <2>4, ParentStep DEF RecoverParent
<1>7. CASE DriveParent(o)
  <2>1. parent' \in {EndedParent, [parent EXCEPT !.drive = "none"],
                     [parent EXCEPT !.drive = "driver", !.claimed = InputLeft]}
    BY <1>7 DEF DriveParent
  <2>2. InputLeft \in BOOLEAN
    BY DEF InputLeft
  <2>3. [parent EXCEPT !.drive = "driver", !.claimed = TRUE] \in ParentRows
    BY <1>l DEF ParentRows
  <2>4. /\ [parent EXCEPT !.drive = "driver", !.claimed = FALSE] \in ParentRows
        /\ ~[parent EXCEPT !.drive = "driver", !.claimed = FALSE].claimed
    BY <1>l DEF ParentRows
  <2>5. CASE InputLeft
    <3>1. [parent EXCEPT !.drive = "driver", !.claimed = InputLeft] \in ParentRows
      BY <2>2, <2>3, <2>5
    <3>2. parent' \in ParentRows
      BY <2>1, <3>1, ParentRowFacts
    <3> QED BY <1>7, <1>l, <2>5, <3>2, ParentStep DEF DriveParent
  <2>6. CASE ~InputLeft
    <3>1. InputLeft = FALSE
      BY <2>2, <2>6
    <3>2. parent' \in {EndedParent, [parent EXCEPT !.drive = "none"],
                       [parent EXCEPT !.drive = "driver", !.claimed = FALSE]}
      BY <2>1, <3>1
    <3>3. parent' \in ParentRows /\ (parent'.claimed => parent.claimed)
      BY <2>4, <3>2, ParentRowFacts
    <3> QED BY <1>7, <1>l, <3>3, ParentStep DEF DriveParent
  <2> QED BY <2>5, <2>6
<1> QED BY <1>1, <1>2, <1>3, <1>4, <1>5, <1>6, <1>7 DEF ListenerStep

\* The children, step by step.
LEMMA ChildStep ==
    ASSUME ChildTypes, ChildInv, ChildMove, workload.children \subseteq Children
    PROVE  ChildTypes' /\ ChildInv'
<1>l. /\ lost \in BOOLEAN /\ parent \in ParentRows
      /\ listener \in [Owners -> ListenerRows] /\ child \in [Children -> ChildRows]
  BY DEF ChildTypes
<1>o. PICK p \in Owners : TRUE
  BY PumpConstants
<1>1. ASSUME NEW o \in Owners, ParentWaits(o) PROVE ChildTypes' /\ ChildInv'
  <2> DEFINE drive == IF parent.claimed THEN AfterAnswer ELSE "none"
  <2>1. /\ drive \in {"none", "scheduled", "driver"}
        /\ parent' = [parent EXCEPT !.state = "waiting", !.claimed = FALSE, !.drive = drive]
    BY <1>1 DEF ParentWaits, AfterAnswer
  <2> HIDE DEF drive
  <2>2. parent' \in ParentRows /\ ~parent'.claimed
    BY <2>1, ParentRowFacts
  <2>3. taken' \in 0..Len(told')
    BY <1>1 DEF ParentWaits, ChildTypes, ChildInv, ClaimedInputIsLeft, InputLeft
  <2>4. ChildTypes'
    BY <1>1, <2>2, <2>3 DEF ChildTypes, ParentWaits
  <2>5. SignalsKept
    BY <1>1 DEF SignalsKept, ParentWaits
  <2>6. SignalsNumbered' /\ ToldInOrder'
    BY <2>5, SignalsKeptStep DEF ChildInv
  <2> QED BY <2>2, <2>4, <2>6 DEF ChildInv, ClaimedInputIsLeft
<1>2. ASSUME NEW o \in Owners, ParentEnds(o) PROVE ChildTypes' /\ ChildInv'
  <2>1. parent' \in ParentRows /\ ~parent'.claimed
    BY <1>2, ParentRowFacts DEF ParentEnds
  <2> QED BY <1>2, <1>l, <2>1, ParentStep DEF ParentEnds
<1>3. ASSUME NEW o \in Owners, NEW c \in Children, LaunchChild(o, c) PROVE ChildTypes' /\ ChildInv'
  <2>1. parent' \in ParentRows /\ parent'.claimed = parent.claimed
    BY <1>3, ParentRowFacts DEF LaunchChild
  <2>2. child' \in [Children -> ChildRows]
    BY <1>3, <1>l DEF LaunchChild, ChildRows
  <2>3. \A d \in Children : child[d].state = "ended" => child'[d].state = "ended"
    BY <1>3, <1>l DEF LaunchChild
  <2> QED BY <1>3, <1>l, <2>1, <2>2, <2>3, ParentStep DEF LaunchChild
<1>4. ASSUME NEW o \in Owners \cup {NoOwner}, NEW c \in Children,
             child' = [child EXCEPT ![c].home = o],
             UNCHANGED <<parent, signal, told, taken, listener, lost>>
      PROVE  ChildTypes' /\ ChildInv'
  <2>1. child' \in [Children -> ChildRows]
    BY <1>4, <1>l DEF ChildRows
  <2>2. \A d \in Children : child[d].state = "ended" => child'[d].state = "ended"
    BY <1>4, <1>l DEF ChildRows
  <2> QED BY <1>4, <1>l, <2>1, <2>2, ParentStep
<1>5. ASSUME NEW c \in Children, EndChild(c) PROVE ChildTypes' /\ ChildInv'
  <2>1. ChildTypes' /\ SignalsNumbered' /\ ToldInOrder'
    BY <1>5, EndChildStep DEF ChildInv
  <2> QED BY <1>5, <2>1 DEF EndChild, ChildInv, ClaimedInputIsLeft, InputLeft
<1>6. ASSUME CancelParent PROVE ChildTypes' /\ ChildInv'
  <2>1. parent' \in ParentRows /\ parent'.claimed = parent.claimed
    BY <1>6, <1>o, ParentRowFacts DEF CancelParent
  <2> QED BY <1>6, <1>l, <2>1, ParentStep DEF CancelParent
<1>7. ASSUME NEW o \in Owners, ListenerDies(o) PROVE ChildTypes' /\ ChildInv'
  <2>1. parent' \in {parent, [parent EXCEPT !.holder = NoOwner, !.drive = "none", !.claimed = FALSE]}
    BY <1>7 DEF ListenerDies
  <2>2. parent' \in ParentRows /\ (parent'.claimed => parent.claimed)
    <3>1. ~[parent EXCEPT !.holder = NoOwner, !.drive = "none", !.claimed = FALSE].claimed
      BY <1>l DEF ParentRows
    <3> QED BY <1>l, <2>1, <3>1, ParentRowFacts
  <2>3. \A c \in Children : [child[c] EXCEPT !.home = NoOwner] \in ChildRows
    BY <1>l DEF ChildRows
  <2>4. child' = [c \in Children |-> IF child[c].home = o THEN [child[c] EXCEPT !.home = NoOwner]
                                                           ELSE child[c]]
    BY <1>7 DEF ListenerDies
  <2>5. child' \in [Children -> ChildRows]
    BY <1>l, <2>3, <2>4
  <2>6. \A c \in Children : child[c].state = "ended" => child'[c].state = "ended"
    BY <1>l, <2>4 DEF ChildRows
  <2>7. \A at \in {"idle", "starting"} : [IdleListener(AnyChild) EXCEPT !.at = at] \in ListenerRows
    BY ChildConstants DEF AnyChild, IdleListener, ListenerRows
  <2>8. listener' \in [Owners -> ListenerRows]
    BY <1>7, <1>l, <2>7 DEF ListenerDies
  <2>9. lost' \in BOOLEAN
    <3>1. \A q \in Owners : listener[q].acked \in BOOLEAN
      BY <1>l DEF ListenerRows
    <3> QED BY <1>7, <1>l, <3>1 DEF ListenerDies
  <2>10. UNCHANGED <<signal, told, taken>>
    BY <1>7 DEF ListenerDies
  <2> QED BY <2>2, <2>5, <2>6, <2>8, <2>9, <2>10, ParentStep
<1>8. CASE UNCHANGED childVars
  <2>1. UNCHANGED <<parent, child, signal, told, taken, listener, lost>>
    BY <1>8 DEF childVars
  <2> QED BY <1>l, <2>1, ParentStep
<1>9. ASSUME NEW o \in Owners, NEW c \in Children, DriveChild(o, c) PROVE ChildTypes' /\ ChildInv'
  BY <1>4, <1>9 DEF DriveChild
<1>10. ASSUME NEW c \in Children, ChildTaskDone(c) PROVE ChildTypes' /\ ChildInv'
  BY <1>4, <1>10 DEF ChildTaskDone
<1>11. ASSUME NEW c \in Children, SignalLapses(c) PROVE ChildTypes' /\ ChildInv'
  BY <1>11, SignalLapsesStep
<1>12. ASSUME NEW o \in Owners, ListenerStep(o) PROVE ChildTypes' /\ ChildInv'
  BY <1>12, ListenerStepKeeps
<1> QED
  BY <1>1, <1>2, <1>3, <1>5, <1>6, <1>7, <1>8, <1>9, <1>10, <1>11, <1>12 DEF ChildMove, ChildNext

-----------------------------------------------------------------------------
(* The shared capacity.                                                    *)

EntryStates == {"NONE", "WAITING", "RELEASED", "SETTLED"} \cup Held
EntryRows == [state : EntryStates, sequence : Nat, process : Owners \cup {NoOwner}]
CallerRows == [at : {"idle", "waiting", "reserved", "marked", "calling", "finish"},
               process : Owners \cup {NoOwner}, known : BOOLEAN]
InvocationStates == {"claimed", "handed_off", "charged", "closed", "unknown"}

\* The types of the capacity pool, by its tables.
CapacityTypes ==
    /\ entry \in [Calls -> EntryRows] /\ caller \in [Calls -> CallerRows]
    /\ invocation \in [Calls -> InvocationStates] /\ atProvider \subseteq Calls

LEMMA CapacityTypeForm == (CapacityTypeOK <=> CapacityTypes) /\ (CapacityTypeOK' <=> CapacityTypes')
BY DEF CapacityTypeOK, CapacityTypes, EntryRows, EntryStates, CallerRows, InvocationStates

LEMMA CapacityFields ==
    ASSUME CapacityTypes
    PROVE  \A c \in Calls :
              /\ entry[c] \in EntryRows /\ entry[c].state \in EntryStates
              /\ caller[c] \in CallerRows /\ caller[c].known \in BOOLEAN
              /\ entry[c].process \in Owners \cup {NoOwner}
BY DEF CapacityTypes, EntryRows, CallerRows

\* The entry holds capacity, as a transaction that sweeps first sees it.
Holding(e) ==
    \/ e.state \in {"HANDED_OFF", "UNKNOWN"}
    \/ e.state = "RESERVED" /\ e.process # NoOwner

\* What the sweep makes of an entry.
LEMMA SweptEntry ==
    ASSUME CapacityTypes, NEW c \in Calls
    PROVE  /\ Swept[c] \in EntryRows /\ Swept[c].process = entry[c].process
           /\ Swept[c].state \in Held <=> Holding(entry[c])
           /\ Holding(Swept[c]) <=> Holding(entry[c])
           /\ entry[c].state \in {"HANDED_OFF", "UNKNOWN"} =>
                 Swept[c].state \in {"HANDED_OFF", "UNKNOWN"}
           /\ entry[c].process # NoOwner => Swept[c] = entry[c]
<1>1. entry[c] \in EntryRows
  BY CapacityFields
<1>2. CASE entry[c].process # NoOwner
  <2>1. Swept[c] = entry[c]
    BY <1>2 DEF Swept
  <2> QED BY <1>1, <1>2, <2>1 DEF Holding, Held, EntryRows
<1>3. CASE entry[c].process = NoOwner
  <2> DEFINE s == AfterDeath(entry[c].state)
  <2>1. Swept[c] = [entry[c] EXCEPT !.state = s]
    BY <1>3 DEF Swept
  <2>2. /\ s \in EntryStates /\ s # "RESERVED"
        /\ s \in {"HANDED_OFF", "UNKNOWN"} <=> entry[c].state \in {"HANDED_OFF", "UNKNOWN"}
    BY <1>1 DEF AfterDeath, EntryRows, EntryStates, Held
  <2> HIDE DEF s
  <2>3. Swept[c] \in EntryRows /\ Swept[c].state = s /\ Swept[c].process = NoOwner
    BY <1>1, <1>3, <2>1, <2>2 DEF EntryRows
  <2> QED BY <1>3, <2>2, <2>3 DEF Holding, Held
<1> QED BY <1>2, <1>3

\* What is held, told by the entries.
LEMMA HeldForm ==
    ASSUME CapacityTypes, CapacityTypes'
    PROVE  /\ HeldCalls = {c \in Calls : Holding(entry[c])}
           /\ HeldCalls' = {c \in Calls : Holding(entry'[c])}
<1>1. HeldCalls = {c \in Calls : Holding(entry[c])}
  BY SweptEntry DEF HeldCalls
<1>2. ASSUME NEW c \in Calls PROVE (Swept[c].state \in Held)' <=> Holding(entry'[c])
  <2>1. entry'[c] \in EntryRows
    BY DEF CapacityTypes
  <2>2. CASE entry'[c].process # NoOwner
    <3>1. (Swept[c])' = entry'[c]
      BY <2>2 DEF Swept
    <3> QED BY <2>1, <2>2, <3>1 DEF Holding, Held
  <2>3. CASE entry'[c].process = NoOwner
    <3> DEFINE s == AfterDeath(entry'[c].state)
    <3>1. (Swept[c])' = [entry'[c] EXCEPT !.state = s]
      BY <2>3 DEF Swept
    <3>2. s \in Held <=> entry'[c].state \in {"HANDED_OFF", "UNKNOWN"}
      BY <2>1 DEF AfterDeath, EntryRows, EntryStates, Held
    <3> HIDE DEF s
    <3>3. (Swept[c])'.state = s
      BY <2>1, <3>1 DEF EntryRows
    <3> QED BY <2>3, <3>2, <3>3 DEF Holding
  <2> QED BY <2>2, <2>3
<1> QED BY <1>1, <1>2 DEF HeldCalls

\* Sizes.
LEMMA HeldSizes ==
    /\ IsFiniteSet(HeldCalls) /\ Cardinality(HeldCalls) \in Nat /\ Tokens(HeldCalls) \in Nat
    /\ \A c \in Calls : Weight[c] \in Nat
<1>1. HeldCalls \subseteq Calls
  BY DEF HeldCalls
<1>2. IsFiniteSet(HeldCalls)
  BY <1>1, CapacityConstants, FS_Subset
<1>3. \A c \in Calls : Weight[c] \in Nat
  BY CapacityConstants
<1> QED BY <1>1, <1>2, <1>3, FS_CardinalityType, SumRemove DEF Tokens

WithinBounds == Cardinality(HeldCalls) <= MaxSlots /\ Tokens(HeldCalls) <= MaxTokens

\* Giving capacity back, or keeping it, keeps the bounds.
LEMMA HeldShrinks ==
    ASSUME WithinBounds, HeldCalls' \subseteq HeldCalls
    PROVE  WithinBounds'
<1> DEFINE H == HeldCalls
           K == HeldCalls'
<1>0. IsFiniteSet(H) /\ K \in SUBSET H /\ H \subseteq Calls
  BY HeldSizes DEF HeldCalls
<1>1. \A c \in H : Weight[c] \in Nat
  BY <1>0, HeldSizes
<1>w. Cardinality(H) <= MaxSlots /\ SumFunctionOnSet(Weight, H) <= MaxTokens
  BY DEF WithinBounds, Tokens
<1>m. MaxSlots \in Nat /\ MaxTokens \in Nat
  BY CapacityConstants
<1> HIDE DEF H, K
<1>2. /\ Cardinality(K) <= Cardinality(H) /\ IsFiniteSet(K)
      /\ Cardinality(K) \in Nat /\ Cardinality(H) \in Nat
  BY <1>0, FS_Subset, FS_CardinalityType
<1>3. SumFunctionOnSet(Weight, K) <= SumFunctionOnSet(Weight, H)
  BY <1>0, <1>1, SumSubset
<1>4. SumFunctionOnSet(Weight, K) \in Nat /\ SumFunctionOnSet(Weight, H) \in Nat
  BY <1>0, <1>1, <1>2, SumRemove
<1>5. Cardinality(K) <= MaxSlots /\ SumFunctionOnSet(Weight, K) <= MaxTokens
  BY <1>w, <1>m, <1>2, <1>3, <1>4
<1> QED BY <1>5 DEF WithinBounds, Tokens, K

\* Capacity is taken where it is free.
LEMMA HeldGrows ==
    ASSUME NEW c \in Calls, Fits(c), HeldCalls' = HeldCalls \cup {c}, c \notin HeldCalls
    PROVE  WithinBounds'
<1> DEFINE H == HeldCalls
           K == HeldCalls'
<1>0. IsFiniteSet(H) /\ H \subseteq Calls /\ K = H \cup {c} /\ c \notin H
  BY HeldSizes DEF HeldCalls
<1>1. \A d \in Calls : Weight[d] \in Nat
  BY HeldSizes
<1>w. Cardinality(H) < MaxSlots /\ SumFunctionOnSet(Weight, H) + Weight[c] <= MaxTokens
  BY DEF Fits, Tokens
<1>m. MaxSlots \in Nat /\ MaxTokens \in Nat /\ Cardinality(H) \in Nat
  BY CapacityConstants, HeldSizes
<1> HIDE DEF H, K
<1>2. IsFiniteSet(K) /\ Cardinality(K) = Cardinality(H) + 1
  BY <1>0, FS_AddElement
<1>3. SumFunctionOnSet(Weight, K) = Weight[c] + SumFunctionOnSet(Weight, K \ {c})
  BY <1>0, <1>1, <1>2, SumRemove
<1>4. K \ {c} = H
  BY <1>0
<1>5. SumFunctionOnSet(Weight, H) \in Nat
  BY <1>0, <1>1, SumRemove
<1>6. Cardinality(K) <= MaxSlots /\ SumFunctionOnSet(Weight, K) <= MaxTokens
  BY <1>w, <1>m, <1>1, <1>2, <1>3, <1>4, <1>5
<1> QED BY <1>6 DEF WithinBounds, Tokens, K

\* What is proved of the capacity.
CapacityInv == CallersMatchEntries /\ CapacityHolds

\* The call is at the Provider and its entry says so.
CallIsHeld(c) == c \in atProvider => entry[c].state \in {"HANDED_OFF", "UNKNOWN"}

LEMMA CapacityInvForm ==
    ASSUME CapacityTypes, CapacityTypes'
    PROVE  /\ CapacityInv <=> (\A c \in Calls : CallerMatches(c) /\ CallIsHeld(c)) /\ WithinBounds
           /\ CapacityInv' <=> (\A c \in Calls : CallerMatches(c)' /\ CallIsHeld(c)') /\ WithinBounds'
BY DEF CapacityInv, CallersMatchEntries, CapacityHolds, CallIsHeld, WithinBounds, CapacityTypes

\* A step about the call c: the entries of the others are at most swept.
CallMoves(c) ==
    \A d \in Calls \ {c} :
        /\ entry'[d] \in {entry[d], Swept[d]} /\ caller'[d] = caller[d]
        /\ invocation'[d] = invocation[d] /\ (d \in atProvider' <=> d \in atProvider)

LEMMA OtherCallsKept ==
    ASSUME CapacityTypes, CapacityTypes', CapacityInv, NEW c \in Calls, CallMoves(c),
           NEW d \in Calls \ {c}
    PROVE  /\ CallerMatches(d)' /\ CallIsHeld(d)'
           /\ Holding(entry'[d]) <=> Holding(entry[d])
<1>1. /\ entry'[d] \in {entry[d], Swept[d]} /\ caller'[d] = caller[d]
      /\ invocation'[d] = invocation[d] /\ (d \in atProvider' <=> d \in atProvider)
  BY DEF CallMoves
<1>2. CallerMatches(d) /\ CallIsHeld(d) /\ caller[d] \in CallerRows
  BY CapacityInvForm, CapacityFields
<1>3. /\ Swept[d].process = entry[d].process /\ (Holding(Swept[d]) <=> Holding(entry[d]))
      /\ entry[d].state \in {"HANDED_OFF", "UNKNOWN"} => Swept[d].state \in {"HANDED_OFF", "UNKNOWN"}
      /\ entry[d].process # NoOwner => Swept[d] = entry[d]
  BY SweptEntry
<1>4. caller[d].at # "idle" => entry'[d] = entry[d]
  BY <1>1, <1>2, <1>3 DEF CallerMatches
<1>5. CallIsHeld(d)'
  BY <1>1, <1>2, <1>3 DEF CallIsHeld
<1>6. CallerMatches(d)'
  <2>1. CASE caller[d].at # "idle"
    BY <1>1, <1>2, <1>4, <2>1 DEF CallerMatches
  <2>2. CASE caller[d].at = "idle"
    BY <1>1, <1>2, <2>2 DEF CallerMatches
  <2> QED BY <2>1, <2>2
<1> QED BY <1>1, <1>3, <1>5, <1>6

\* A step that takes no capacity, and the step that takes some.
LEMMA CallMovesKeep ==
    ASSUME CapacityTypes, CapacityTypes', CapacityInv, NEW c \in Calls, CallMoves(c),
           CallerMatches(c)', CallIsHeld(c)',
           \/ Holding(entry'[c]) => Holding(entry[c])
           \/ Fits(c) /\ Holding(entry'[c]) /\ ~Holding(entry[c])
    PROVE  CapacityInv'
<1>1. \A d \in Calls : CallerMatches(d)' /\ CallIsHeld(d)'
  BY OtherCallsKept
<1>2. \A d \in Calls \ {c} : Holding(entry'[d]) <=> Holding(entry[d])
  BY OtherCallsKept
<1>3. /\ HeldCalls = {d \in Calls : Holding(entry[d])}
      /\ HeldCalls' = {d \in Calls : Holding(entry'[d])}
  BY HeldForm
<1>4. WithinBounds
  BY CapacityInvForm
<1>5. CASE Holding(entry'[c]) => Holding(entry[c])
  <2>1. HeldCalls' \subseteq HeldCalls
    BY <1>2, <1>3, <1>5
  <2>2. WithinBounds'
    BY <1>4, <2>1, HeldShrinks
  <2> QED BY <1>1, <2>2, CapacityInvForm
<1>6. CASE Fits(c) /\ Holding(entry'[c]) /\ ~Holding(entry[c])
  <2>1. HeldCalls' = HeldCalls \cup {c} /\ c \notin HeldCalls
    BY <1>2, <1>3, <1>6
  <2>2. WithinBounds'
    BY <1>6, <2>1, HeldGrows
  <2> QED BY <1>1, <2>2, CapacityInvForm
<1> QED BY <1>5, <1>6

\* A transaction of the ledger that changes the state of one entry.
LEMMA SetEntryStep ==
    ASSUME CapacityTypes, NEW c \in Calls, NEW s \in EntryStates, SetEntry(c, s)
    PROVE  /\ entry' \in [Calls -> EntryRows]
           /\ entry'[c].state = s /\ entry'[c].process = entry[c].process
           /\ \A d \in Calls \ {c} : entry'[d] = Swept[d]
<1>1. /\ Swept \in [Calls -> EntryRows] /\ Swept[c] \in EntryRows
      /\ Swept[c].process = entry[c].process
  <2>1. Swept = [d \in Calls |-> Swept[d]]
    BY DEF Swept
  <2>2. \A d \in Calls : Swept[d] \in EntryRows
    BY SweptEntry
  <2> QED BY <2>1, <2>2, SweptEntry
<1>2. entry' = [Swept EXCEPT ![c].state = s]
  BY DEF SetEntry
<1>3. entry'[c] = [Swept[c] EXCEPT !.state = s]
  BY <1>1, <1>2
<1>4. /\ [Swept[c] EXCEPT !.state = s] \in EntryRows /\ [Swept[c] EXCEPT !.state = s].state = s
      /\ [Swept[c] EXCEPT !.state = s].process = entry[c].process
  BY <1>1 DEF EntryRows
<1>5. \A d \in Calls \ {c} : entry'[d] = Swept[d]
  BY <1>1, <1>2
<1>6. entry' \in [Calls -> EntryRows]
  BY <1>1, <1>2, <1>4
<1> QED BY <1>3, <1>4, <1>5, <1>6

\* What a dispatcher may become.
LEMMA CallerRowFacts ==
    ASSUME CapacityTypes, NEW c \in Calls
    PROVE  /\ NoCaller \in CallerRows
           /\ \A at \in {"reserved", "marked", "calling", "finish"} :
                 /\ [caller[c] EXCEPT !.at = at] \in CallerRows
                 /\ [caller[c] EXCEPT !.at = at].at = at
                 /\ [caller[c] EXCEPT !.at = at].process = caller[c].process
                 /\ [caller[c] EXCEPT !.at = at].known = caller[c].known
           /\ \A known \in BOOLEAN :
                 /\ [caller[c] EXCEPT !.at = "finish", !.known = known] \in CallerRows
                 /\ [caller[c] EXCEPT !.at = "finish", !.known = known].at = "finish"
                 /\ [caller[c] EXCEPT !.at = "finish", !.known = known].process = caller[c].process
                 /\ [caller[c] EXCEPT !.at = "finish", !.known = known].known = known
<1>p. caller[c] \in CallerRows
  BY CapacityFields
<1>1. NoCaller \in CallerRows
  BY DEF NoCaller, CallerRows
<1>2. ASSUME NEW at \in {"reserved", "marked", "calling", "finish"}
      PROVE  /\ [caller[c] EXCEPT !.at = at] \in CallerRows
             /\ [caller[c] EXCEPT !.at = at].at = at
             /\ [caller[c] EXCEPT !.at = at].process = caller[c].process
             /\ [caller[c] EXCEPT !.at = at].known = caller[c].known
  BY <1>p DEF CallerRows
<1>3. ASSUME NEW known \in BOOLEAN
      PROVE  /\ [caller[c] EXCEPT !.at = "finish", !.known = known] \in CallerRows
             /\ [caller[c] EXCEPT !.at = "finish", !.known = known].at = "finish"
             /\ [caller[c] EXCEPT !.at = "finish", !.known = known].process = caller[c].process
             /\ [caller[c] EXCEPT !.at = "finish", !.known = known].known = known
  BY <1>p DEF CallerRows
<1> QED BY <1>1, <1>2, <1>3

\* Steps that write the entry of a call: what is left to show of each.
LEMMA LedgerStep ==
    ASSUME CapacityTypes, CapacityInv, NEW c \in Calls, NEW s \in EntryStates, SetEntry(c, s),
           NEW r \in CallerRows, caller' = [caller EXCEPT ![c] = r],
           UNCHANGED <<invocation, atProvider>>,
           c \in atProvider => s \in {"HANDED_OFF", "UNKNOWN"},
           r.at # "idle" => r.process # NoOwner /\ entry[c].process = r.process,
           r.at = "waiting" => s = "WAITING", r.at = "reserved" => s = "RESERVED",
           r.at = "marked" => s = "HANDED_OFF",
           r.at \in {"waiting", "reserved", "marked"} => invocation[c] = "claimed",
           r.at = "calling" => s = "HANDED_OFF" /\ invocation[c] = "handed_off",
           r.known => r.at = "finish" /\ c \notin atProvider,
           \/ s \in Held => Holding(entry[c])
           \/ Fits(c) /\ s = "RESERVED" /\ entry[c].process # NoOwner /\ ~Holding(entry[c])
    PROVE  CapacityTypes' /\ CapacityInv'
<1>1. /\ entry' \in [Calls -> EntryRows] /\ entry'[c].state = s
      /\ entry'[c].process = entry[c].process
      /\ \A d \in Calls \ {c} : entry'[d] = Swept[d]
  BY SetEntryStep
<1>2. /\ caller' \in [Calls -> CallerRows] /\ caller'[c] = r
      /\ \A d \in Calls \ {c} : caller'[d] = caller[d]
  BY DEF CapacityTypes
<1>3. CapacityTypes'
  BY <1>1, <1>2 DEF CapacityTypes
<1>4. CallMoves(c)
  BY <1>1, <1>2 DEF CallMoves
<1>5. CallIsHeld(c)'
  BY <1>1 DEF CallIsHeld
<1>6. c \in atProvider => invocation[c] \in {"handed_off", "unknown"}
  BY <1>3, CapacityInvForm DEF CallerMatches
<1>7. CallerMatches(c)'
  BY <1>1, <1>2, <1>6 DEF CallerMatches
<1>8. Holding(entry'[c]) <=> s \in {"HANDED_OFF", "UNKNOWN"} \/ (s = "RESERVED" /\ entry[c].process # NoOwner)
  BY <1>1 DEF Holding
<1>9. \/ Holding(entry'[c]) => Holding(entry[c])
      \/ Fits(c) /\ Holding(entry'[c]) /\ ~Holding(entry[c])
  BY <1>8 DEF Held
<1> QED BY <1>3, <1>4, <1>5, <1>7, <1>9, CallMovesKeep

\* Steps that leave the entries alone.
LEMMA DispatchStep ==
    ASSUME CapacityTypes, CapacityInv, NEW c \in Calls, UNCHANGED entry,
           NEW r \in CallerRows, caller' = [caller EXCEPT ![c] = r],
           NEW i \in InvocationStates, invocation' = [invocation EXCEPT ![c] = i],
           atProvider' \in {atProvider, atProvider \cup {c}, atProvider \ {c}},
           c \in atProvider' => i \in {"handed_off", "unknown"} /\
                                entry[c].state \in {"HANDED_OFF", "UNKNOWN"},
           r.at # "idle" => r.process # NoOwner /\ entry[c].process = r.process,
           r.at = "waiting" => entry[c].state = "WAITING",
           r.at = "reserved" => entry[c].state = "RESERVED",
           r.at = "marked" => entry[c].state = "HANDED_OFF",
           r.at \in {"waiting", "reserved", "marked"} => i = "claimed",
           r.at = "calling" => entry[c].state = "HANDED_OFF" /\ i = "handed_off",
           r.known => r.at = "finish" /\ c \notin atProvider'
    PROVE  CapacityTypes' /\ CapacityInv'
<1>1. /\ caller' \in [Calls -> CallerRows] /\ caller'[c] = r
      /\ \A d \in Calls \ {c} : caller'[d] = caller[d]
  BY DEF CapacityTypes
<1>2. /\ invocation' \in [Calls -> InvocationStates] /\ invocation'[c] = i
      /\ \A d \in Calls \ {c} : invocation'[d] = invocation[d]
  BY DEF CapacityTypes
<1>3. atProvider' \subseteq Calls /\ \A d \in Calls \ {c} : d \in atProvider' <=> d \in atProvider
  BY DEF CapacityTypes
<1>4. CapacityTypes'
  BY <1>1, <1>2, <1>3 DEF CapacityTypes
<1>5. CallMoves(c)
  BY <1>1, <1>2, <1>3 DEF CallMoves
<1>6. CallIsHeld(c)'
  BY DEF CallIsHeld
<1>7. CallerMatches(c)'
  BY <1>1, <1>2 DEF CallerMatches
<1> QED BY <1>4, <1>5, <1>6, <1>7, CallMovesKeep

\* What the dispatcher of a call knows, with the record it keeps.
LEMMA CallKnows ==
    ASSUME CapacityTypes, CapacityInv, NEW c \in Calls
    PROVE  CallerMatches(c) /\ CallIsHeld(c)
BY DEF CapacityInv, CallersMatchEntries, CapacityHolds, CallIsHeld

\* The steps of guard that write the ledger.
LEMMA GuardStep ==
    ASSUME CapacityTypes, CapacityInv, NEW c \in Calls,
           TryAcquire(c) \/ GiveUp(c) \/ MarkHandedOff(c) \/ FinishCall(c)
    PROVE  CapacityTypes' /\ CapacityInv'
<1>k. CallerMatches(c) /\ CallIsHeld(c)
  BY CallKnows
<1>t. caller \in [Calls -> CallerRows] /\ NoCaller \in CallerRows
  BY CallerRowFacts DEF CapacityTypes
<1>f. entry[c].state \in EntryStates
  BY CapacityFields
<1>n. NoCaller.at = "idle" /\ ~NoCaller.known
  BY DEF NoCaller
<1>1. CASE TryAcquire(c)
  <2> DEFINE r == [caller[c] EXCEPT !.at = "reserved"]
  <2>1. /\ caller[c].at = "waiting" /\ SetEntry(c, "RESERVED") /\ Fits(c)
        /\ UNCHANGED <<invocation, atProvider>> /\ caller' = [caller EXCEPT ![c] = r]
    BY <1>1, <1>t DEF TryAcquire
  <2>2. r \in CallerRows /\ r.at = "reserved" /\ r.process = caller[c].process /\ r.known = caller[c].known
    BY CallerRowFacts
  <2>3. /\ entry[c].state = "WAITING" /\ ~caller[c].known /\ c \notin atProvider
        /\ caller[c].process # NoOwner /\ entry[c].process = caller[c].process
        /\ invocation[c] = "claimed"
    BY <1>k, <2>1 DEF CallerMatches, CallIsHeld
  <2>4. ~Holding(entry[c])
    BY <2>3 DEF Holding
  <2>5. "RESERVED" \in EntryStates
    BY DEF EntryStates, Held
  <2> HIDE DEF r
  <2> QED BY <2>1, <2>2, <2>3, <2>4, <2>5, LedgerStep
<1>2. CASE GiveUp(c)
  <2>1. /\ caller[c].at = "waiting" /\ SetEntry(c, "RELEASED")
        /\ UNCHANGED <<invocation, atProvider>> /\ caller' = [caller EXCEPT ![c] = NoCaller]
    BY <1>2 DEF GiveUp
  <2>2. c \notin atProvider
    BY <1>k, <2>1 DEF CallerMatches, CallIsHeld
  <2>3. "RELEASED" \in EntryStates /\ "RELEASED" \notin Held
    BY DEF EntryStates, Held
  <2> QED BY <1>t, <1>n, <2>1, <2>2, <2>3, LedgerStep
<1>3. CASE MarkHandedOff(c)
  <2> DEFINE r == [caller[c] EXCEPT !.at = "marked"]
  <2>1. /\ caller[c].at = "reserved" /\ SetEntry(c, "HANDED_OFF")
        /\ UNCHANGED <<invocation, atProvider>> /\ caller' = [caller EXCEPT ![c] = r]
    BY <1>3, <1>t DEF MarkHandedOff
  <2>2. r \in CallerRows /\ r.at = "marked" /\ r.process = caller[c].process /\ r.known = caller[c].known
    BY CallerRowFacts
  <2>3. /\ entry[c].state = "RESERVED" /\ ~caller[c].known /\ c \notin atProvider
        /\ caller[c].process # NoOwner /\ entry[c].process = caller[c].process
        /\ invocation[c] = "claimed"
    BY <1>k, <2>1 DEF CallerMatches, CallIsHeld
  <2>4. Holding(entry[c])
    BY <2>3 DEF Holding
  <2>5. "HANDED_OFF" \in EntryStates
    BY DEF EntryStates, Held
  <2> HIDE DEF r
  <2> QED BY <2>1, <2>2, <2>3, <2>4, <2>5, LedgerStep
<1>4. CASE FinishCall(c)
  <2>1. /\ SetEntry(c, FinishedState(c))
        /\ UNCHANGED <<invocation, atProvider>> /\ caller' = [caller EXCEPT ![c] = NoCaller]
    BY <1>4 DEF FinishCall
  <2>2. FinishedState(c) \in EntryStates /\ (FinishedState(c) \in Held => Holding(entry[c]))
    BY <1>f DEF FinishedState, EntryStates, Held, Holding
  <2>3. c \in atProvider => FinishedState(c) \in {"HANDED_OFF", "UNKNOWN"}
    BY <1>k DEF FinishedState, CallIsHeld, CallerMatches
  <2> QED BY <1>t, <1>n, <2>1, <2>2, <2>3, LedgerStep
<1> QED BY <1>1, <1>2, <1>3, <1>4

\* A call is queued.
LEMMA EnqueueStep ==
    ASSUME CapacityTypes, CapacityInv, NEW o \in Owners, NEW c \in Calls, Enqueue(o, c)
    PROVE  CapacityTypes' /\ CapacityInv'
<1> DEFINE n == 1 + Cardinality({d \in Calls : entry[d].state # "NONE"})
           e == [state |-> "WAITING", process |-> o, sequence |-> n]
           r == [at |-> "waiting", process |-> o, known |-> FALSE]
<1>k. CallerMatches(c) /\ CallIsHeld(c)
  BY CallKnows
<1>1. /\ invocation[c] = "claimed" /\ entry[c].state = "NONE"
      /\ entry' = [Swept EXCEPT ![c] = e] /\ caller' = [caller EXCEPT ![c] = r]
      /\ UNCHANGED <<invocation, atProvider>>
  BY DEF Enqueue
<1>2. n \in Nat
  <2>1. {d \in Calls : entry[d].state # "NONE"} \subseteq Calls /\ IsFiniteSet(Calls)
    BY CapacityConstants
  <2>2. Cardinality({d \in Calls : entry[d].state # "NONE"}) \in Nat
    BY <2>1, FS_Subset, FS_CardinalityType
  <2> QED BY <2>2
<1> HIDE DEF n
<1>3. e \in EntryRows /\ e.state = "WAITING" /\ e.process = o
  BY <1>2 DEF EntryRows, EntryStates
<1>4. r \in CallerRows /\ r.at = "waiting" /\ r.process = o /\ ~r.known
  BY DEF CallerRows
<1> HIDE DEF e, r
<1>5. Swept \in [Calls -> EntryRows]
  <2>1. Swept = [d \in Calls |-> Swept[d]]
    BY DEF Swept
  <2>2. \A d \in Calls : Swept[d] \in EntryRows
    BY SweptEntry
  <2> QED BY <2>1, <2>2
<1>6. /\ entry' \in [Calls -> EntryRows] /\ entry'[c] = e
      /\ \A d \in Calls \ {c} : entry'[d] = Swept[d]
  BY <1>1, <1>3, <1>5
<1>7. /\ caller' \in [Calls -> CallerRows] /\ caller'[c] = r
      /\ \A d \in Calls \ {c} : caller'[d] = caller[d]
  BY <1>1, <1>4 DEF CapacityTypes
<1>8. CapacityTypes'
  BY <1>1, <1>6, <1>7 DEF CapacityTypes
<1>9. CallMoves(c)
  BY <1>1, <1>6, <1>7 DEF CallMoves
<1>10. c \notin atProvider
  BY <1>k, <1>1 DEF CallIsHeld
<1>11. CallIsHeld(c)' /\ ~Holding(entry'[c])
  BY <1>1, <1>3, <1>6, <1>10 DEF CallIsHeld, Holding
<1>12. CallerMatches(c)'
  BY <1>1, <1>3, <1>4, <1>6, <1>7, <1>10, PumpConstants DEF CallerMatches
<1> QED BY <1>8, <1>9, <1>11, <1>12, CallMovesKeep

\* The steps of a dispatcher outside the ledger, and of the Provider.
LEMMA OutsideStep ==
    ASSUME CapacityTypes, CapacityInv, NEW c \in Calls,
           \/ NotAdmitted(c) \/ HandOff(c) \/ HandOffConflict(c) \/ ProviderAnswers(c)
           \/ OutcomeUnknown(c) \/ ProviderStops(c) \/ OutcomeResolved(c)
    PROVE  CapacityTypes' /\ CapacityInv'
<1>k. CallerMatches(c) /\ CallIsHeld(c)
  BY CallKnows
<1>t. /\ caller \in [Calls -> CallerRows] /\ caller[c] \in CallerRows
      /\ invocation \in [Calls -> InvocationStates] /\ invocation[c] \in InvocationStates
  BY DEF CapacityTypes
<1>i. /\ invocation = [invocation EXCEPT ![c] = invocation[c]]
      /\ caller = [caller EXCEPT ![c] = caller[c]]
  BY <1>t
<1>s. {"claimed", "handed_off", "charged", "closed", "unknown"} = InvocationStates
  BY DEF InvocationStates
<1>1. CASE NotAdmitted(c)
  <2> DEFINE r == [caller[c] EXCEPT !.at = "finish"]
  <2>1. /\ caller[c].at = "reserved" /\ UNCHANGED <<entry, invocation, atProvider>>
        /\ caller' = [caller EXCEPT ![c] = r]
    BY <1>1, <1>t DEF NotAdmitted
  <2>2. r \in CallerRows /\ r.at = "finish" /\ r.process = caller[c].process /\ r.known = caller[c].known
    BY CallerRowFacts
  <2> HIDE DEF r
  <2>3. invocation' = [invocation EXCEPT ![c] = invocation[c]]
    BY <1>i, <2>1
  <2>4. /\ ~caller[c].known /\ c \notin atProvider'
        /\ r.process # NoOwner /\ entry[c].process = r.process
    BY <1>k, <2>1, <2>2 DEF CallerMatches, CallIsHeld
  <2> QED BY <1>t, <2>1, <2>2, <2>3, <2>4, DispatchStep
<1>2. CASE HandOff(c)
  <2> DEFINE r == [caller[c] EXCEPT !.at = "calling"]
  <2>1. /\ caller[c].at = "marked" /\ UNCHANGED entry /\ atProvider' = atProvider \cup {c}
        /\ caller' = [caller EXCEPT ![c] = r]
        /\ invocation' = [invocation EXCEPT ![c] = "handed_off"]
    BY <1>2, <1>t DEF HandOff
  <2>2. r \in CallerRows /\ r.at = "calling" /\ r.process = caller[c].process /\ r.known = caller[c].known
    BY CallerRowFacts
  <2> HIDE DEF r
  <2>3. /\ ~r.known /\ entry[c].state = "HANDED_OFF"
        /\ r.process # NoOwner /\ entry[c].process = r.process
    BY <1>k, <2>1, <2>2 DEF CallerMatches
  <2> QED BY <1>s, <2>1, <2>2, <2>3, DispatchStep
<1>3. CASE HandOffConflict(c)
  <2> DEFINE r == [caller[c] EXCEPT !.at = "finish", !.known = TRUE]
  <2>1. /\ caller[c].at = "marked" /\ UNCHANGED <<entry, invocation, atProvider>>
        /\ caller' = [caller EXCEPT ![c] = r]
    BY <1>3, <1>t DEF HandOffConflict
  <2>2. r \in CallerRows /\ r.at = "finish" /\ r.process = caller[c].process
    BY CallerRowFacts
  <2> HIDE DEF r
  <2>3. invocation' = [invocation EXCEPT ![c] = invocation[c]]
    BY <1>i, <2>1
  <2>4. c \notin atProvider' /\ r.process # NoOwner /\ entry[c].process = r.process
    BY <1>k, <2>1, <2>2 DEF CallerMatches
  <2> QED BY <1>t, <2>1, <2>2, <2>3, <2>4, DispatchStep
<1>4. CASE ProviderAnswers(c)
  <2>1. PICK usage \in BOOLEAN :
           /\ invocation' = [invocation EXCEPT ![c] = IF usage THEN "charged" ELSE "closed"]
           /\ caller' = [caller EXCEPT ![c].at = "finish", ![c].known = usage]
    BY <1>4 DEF ProviderAnswers
  <2> DEFINE r == [caller[c] EXCEPT !.at = "finish", !.known = usage]
             i == IF usage THEN "charged" ELSE "closed"
  <2>2. /\ caller[c].at = "calling" /\ UNCHANGED entry /\ atProvider' = atProvider \ {c}
        /\ caller' = [caller EXCEPT ![c] = r] /\ invocation' = [invocation EXCEPT ![c] = i]
        /\ i \in InvocationStates
    BY <1>4, <1>t, <1>s, <2>1 DEF ProviderAnswers
  <2>3. r \in CallerRows /\ r.at = "finish" /\ r.process = caller[c].process
    BY CallerRowFacts
  <2> HIDE DEF r, i
  <2>4. c \notin atProvider' /\ r.process # NoOwner /\ entry[c].process = r.process
    BY <1>k, <2>2, <2>3 DEF CallerMatches
  <2> QED BY <2>2, <2>3, <2>4, DispatchStep
<1>5. CASE OutcomeUnknown(c)
  <2> DEFINE r == [caller[c] EXCEPT !.at = "finish"]
  <2>1. /\ caller[c].at = "calling" /\ UNCHANGED <<entry, atProvider>>
        /\ caller' = [caller EXCEPT ![c] = r]
        /\ invocation' = [invocation EXCEPT ![c] = "unknown"]
    BY <1>5, <1>t DEF OutcomeUnknown
  <2>2. r \in CallerRows /\ r.at = "finish" /\ r.process = caller[c].process /\ r.known = caller[c].known
    BY CallerRowFacts
  <2> HIDE DEF r
  <2>3. /\ ~r.known /\ entry[c].state = "HANDED_OFF"
        /\ r.process # NoOwner /\ entry[c].process = r.process
    BY <1>k, <2>1, <2>2 DEF CallerMatches
  <2> QED BY <1>s, <2>1, <2>2, <2>3, DispatchStep
<1>6. CASE ProviderStops(c)
  <2>1. /\ UNCHANGED <<entry, invocation, caller>> /\ atProvider' = atProvider \ {c}
    BY <1>6 DEF ProviderStops
  <2>2. /\ caller' = [caller EXCEPT ![c] = caller[c]]
        /\ invocation' = [invocation EXCEPT ![c] = invocation[c]]
    BY <1>i, <2>1
  <2>3. c \notin atProvider' /\ atProvider' \in {atProvider, atProvider \cup {c}, atProvider \ {c}}
    BY <2>1
  <2>4. /\ caller[c].at # "idle" => caller[c].process # NoOwner /\ entry[c].process = caller[c].process
        /\ caller[c].at = "waiting" => entry[c].state = "WAITING"
        /\ caller[c].at = "reserved" => entry[c].state = "RESERVED"
        /\ caller[c].at = "marked" => entry[c].state = "HANDED_OFF"
        /\ caller[c].at \in {"waiting", "reserved", "marked"} => invocation[c] = "claimed"
        /\ caller[c].at = "calling" => entry[c].state = "HANDED_OFF" /\ invocation[c] = "handed_off"
        /\ caller[c].known => caller[c].at = "finish"
    BY <1>k DEF CallerMatches
  <2> DEFINE r == caller[c]
             i == invocation[c]
  <2>5. r \in CallerRows /\ i \in InvocationStates
    BY <1>t
  <2>6. /\ r.at # "idle" => r.process # NoOwner /\ entry[c].process = r.process
        /\ r.at = "waiting" => entry[c].state = "WAITING"
        /\ r.at = "reserved" => entry[c].state = "RESERVED"
        /\ r.at = "marked" => entry[c].state = "HANDED_OFF"
        /\ r.at \in {"waiting", "reserved", "marked"} => i = "claimed"
        /\ r.at = "calling" => entry[c].state = "HANDED_OFF" /\ i = "handed_off"
        /\ r.known => r.at = "finish"
    BY <2>4
  <2>7. caller' = [caller EXCEPT ![c] = r] /\ invocation' = [invocation EXCEPT ![c] = i]
    BY <2>2
  <2> HIDE DEF r, i
  <2> QED BY <2>1, <2>3, <2>5, <2>6, <2>7, DispatchStep
<1>7. CASE OutcomeResolved(c)
  <2>1. /\ UNCHANGED <<entry, caller, atProvider>> /\ c \notin atProvider
        /\ invocation' = [invocation EXCEPT ![c] = "charged"]
        /\ invocation[c] = "unknown" \/ (invocation[c] = "handed_off" /\ caller[c].at = "idle")
    BY <1>7 DEF OutcomeResolved
  <2>2. caller' = [caller EXCEPT ![c] = caller[c]]
    BY <1>i, <2>1
  <2>3. caller[c].at \notin {"waiting", "reserved", "marked", "calling"}
    BY <1>k, <2>1 DEF CallerMatches
  <2> QED BY <1>k, <1>t, <1>s, <2>1, <2>2, <2>3, DispatchStep DEF CallerMatches
<1> QED BY <1>1, <1>2, <1>3, <1>4, <1>5, <1>6, <1>7

\* Steps that leave every call as it was, or as the sweep or the end of its process
\* leaves it.
LEMMA ManyCallsStep ==
    ASSUME CapacityTypes, CapacityInv, CapacityTypes', UNCHANGED <<invocation, atProvider>>,
           \A c \in Calls : CallerMatches(c)' /\ CallIsHeld(c)',
           \A c \in Calls : Holding(entry'[c]) => Holding(entry[c])
    PROVE  CapacityInv'
<1>1. HeldCalls' \subseteq HeldCalls
  BY HeldForm
<1>2. WithinBounds'
  BY <1>1, CapacityInvForm, HeldShrinks
<1> QED BY <1>2, CapacityInvForm

\* The shared capacity, step by step.
LEMMA CapacityStep ==
    ASSUME CapacityTypes, CapacityInv, CapacityMove, workload.calls \subseteq Owners \X Calls
    PROVE  CapacityTypes' /\ CapacityInv'
<1>k. \A c \in Calls : CallerMatches(c) /\ CallIsHeld(c)
  BY CallKnows
<1>t. /\ caller \in [Calls -> CallerRows] /\ entry \in [Calls -> EntryRows]
      /\ \A c \in Calls : caller[c] \in CallerRows /\ entry[c] \in EntryRows
  BY DEF CapacityTypes
<1>1. ASSUME NEW w \in workload.calls, Enqueue(w[1], w[2]) PROVE CapacityTypes' /\ CapacityInv'
  <2>1. w[1] \in Owners /\ w[2] \in Calls
    OBVIOUS
  <2> QED BY <1>1, <2>1, EnqueueStep
<1>2. ASSUME SweepDead PROVE CapacityTypes' /\ CapacityInv'
  <2>1. entry' = Swept /\ UNCHANGED <<invocation, caller, atProvider>>
    BY <1>2 DEF SweepDead
  <2>2. Swept = [d \in Calls |-> Swept[d]] /\ \A d \in Calls : Swept[d] \in EntryRows
    BY SweptEntry DEF Swept
  <2>3. CapacityTypes'
    BY <2>1, <2>2 DEF CapacityTypes
  <2>4. ASSUME NEW c \in Calls
        PROVE  /\ CallerMatches(c)' /\ CallIsHeld(c)'
               /\ Holding(entry'[c]) => Holding(entry[c])
    <3>1. /\ entry'[c] = Swept[c] /\ (Holding(Swept[c]) <=> Holding(entry[c]))
          /\ entry[c].state \in {"HANDED_OFF", "UNKNOWN"} =>
                Swept[c].state \in {"HANDED_OFF", "UNKNOWN"}
          /\ entry[c].process # NoOwner => Swept[c] = entry[c]
      BY <2>1, SweptEntry
    <3>2. CallIsHeld(c)'
      BY <1>k, <2>1, <3>1 DEF CallIsHeld
    <3>3. CallerMatches(c)'
      BY <1>k, <2>1, <3>1 DEF CallerMatches
    <3> QED BY <3>1, <3>2, <3>3
  <2> QED BY <2>1, <2>3, <2>4, ManyCallsStep
<1>3. ASSUME NEW c \in Calls, ReconcileEntry(c) PROVE CapacityTypes' /\ CapacityInv'
  <2>1. KnownTerminal(c) /\ SetEntry(c, "SETTLED") /\ UNCHANGED <<invocation, caller, atProvider>>
    BY <1>3 DEF ReconcileEntry
  <2>2. caller' = [caller EXCEPT ![c] = caller[c]]
    BY <1>t, <2>1
  <2>3. c \notin atProvider
    BY <1>k, <2>1 DEF KnownTerminal, CallerMatches
  <2>4. caller[c].at \notin {"waiting", "reserved", "marked", "calling"}
    BY <1>k, <2>1 DEF KnownTerminal, CallerMatches
  <2>5. /\ caller[c].at # "idle" => caller[c].process # NoOwner /\ entry[c].process = caller[c].process
        /\ caller[c].known => caller[c].at = "finish"
    BY <1>k DEF CallerMatches
  <2>6. "SETTLED" \in EntryStates /\ "SETTLED" \notin Held
    BY DEF EntryStates, Held
  <2> QED BY <1>t, <2>1, <2>2, <2>3, <2>4, <2>5, <2>6, LedgerStep
<1>4. ASSUME NEW o \in Owners, CallerDies(o) PROVE CapacityTypes' /\ CapacityInv'
  <2>1. /\ entry' = [c \in Calls |-> IF entry[c].process = o THEN [entry[c] EXCEPT !.process = NoOwner]
                                                             ELSE entry[c]]
        /\ caller' = [c \in Calls |-> IF caller[c].process = o THEN NoCaller ELSE caller[c]]
        /\ UNCHANGED <<invocation, atProvider>>
    BY <1>4 DEF CallerDies
  <2>2. \A c \in Calls : /\ [entry[c] EXCEPT !.process = NoOwner] \in EntryRows
                         /\ [entry[c] EXCEPT !.process = NoOwner].state = entry[c].state
                         /\ [entry[c] EXCEPT !.process = NoOwner].process = NoOwner
    BY <1>t DEF EntryRows
  <2>3. NoCaller \in CallerRows /\ NoCaller.at = "idle" /\ ~NoCaller.known
    BY DEF NoCaller, CallerRows
  <2>4. CapacityTypes'
    BY <1>t, <2>1, <2>2, <2>3 DEF CapacityTypes
  <2>5. ASSUME NEW c \in Calls
        PROVE  /\ CallerMatches(c)' /\ CallIsHeld(c)'
               /\ Holding(entry'[c]) => Holding(entry[c])
    <3>1. /\ entry'[c].state = entry[c].state
          /\ entry'[c].process # NoOwner => entry[c].process # NoOwner
          /\ entry[c].process # o => entry'[c] = entry[c]
      BY <2>1, <2>2
    <3>2. /\ caller'[c].at # "idle" \/ caller'[c].known =>
                caller'[c] = caller[c] /\ caller[c].process # o
      BY <2>1, <2>3
    <3>3. CallIsHeld(c)' /\ (Holding(entry'[c]) => Holding(entry[c]))
      BY <1>k, <2>1, <3>1 DEF CallIsHeld, Holding
    <3>u. invocation' = invocation /\ atProvider' = atProvider
      BY <2>1
    <3>4. ASSUME caller'[c].at = "idle", ~caller'[c].known PROVE CallerMatches(c)'
      BY <1>k, <3>u, <3>4 DEF CallerMatches
    <3>5. ASSUME caller'[c].at # "idle" \/ caller'[c].known PROVE CallerMatches(c)'
      <4>1. caller'[c] = caller[c] /\ caller[c].process # o /\ caller[c].at # "idle"
        BY <1>k, <3>2, <3>5 DEF CallerMatches
      <4>2. entry'[c] = entry[c]
        BY <1>k, <3>1, <4>1 DEF CallerMatches
      <4> QED BY <1>k, <3>u, <4>1, <4>2 DEF CallerMatches
    <3> QED BY <3>3, <3>4, <3>5
  <2> QED BY <2>1, <2>4, <2>5, ManyCallsStep
<1>5. CASE UNCHANGED capacityVars
  <2>1. UNCHANGED <<entry, invocation, caller, atProvider>>
    BY <1>5 DEF capacityVars
  <2>2. CapacityTypes'
    BY <2>1 DEF CapacityTypes
  <2>3. \A c \in Calls : CallerMatches(c)' /\ CallIsHeld(c)'
    BY <1>k, <2>1 DEF CallerMatches, CallIsHeld
  <2> QED BY <2>1, <2>2, <2>3, ManyCallsStep
<1>6. ASSUME NEW c \in Calls,
             \/ CallerStep(c) \/ GiveUp(c) \/ NotAdmitted(c) \/ HandOffConflict(c)
             \/ ProviderAnswers(c) \/ OutcomeUnknown(c) \/ ProviderStops(c) \/ OutcomeResolved(c)
      PROVE  CapacityTypes' /\ CapacityInv'
  BY <1>6, GuardStep, OutsideStep DEF CallerStep
<1> QED BY <1>1, <1>2, <1>3, <1>4, <1>5, <1>6 DEF CapacityMove, CapacityNext, RecoverCapacity

-----------------------------------------------------------------------------
(* The pumps together.                                                     *)

\* Before the Run has ended there is nothing to deliver.
NothingToDeliver == run # "ended" => \A d \in Deliveries : outbox[d].state = "none"

LEMMA NothingToDeliverStep ==
    ASSUME DeliveryTypes, CouriersKnowTheirRows, NothingToDeliver, StreamStep, DeliveryMove
    PROVE  NothingToDeliver'
<1> SUFFICES ASSUME run' # "ended", NEW d \in Deliveries PROVE outbox'[d].state = "none"
  BY DEF NothingToDeliver
<1>1. run # "ended" /\ \A e \in Deliveries : outbox[e].state = "none"
  BY DEF StreamStep, NothingToDeliver
<1>2. ASSUME NEW o \in Owners, ClaimDelivery(o) PROVE FALSE
  <2>1. \A e \in Deliveries : Expired(outbox[e]).state = "none"
    BY <1>1 DEF Expired
  <2> QED BY <1>2, <2>1 DEF ClaimDelivery
<1>3. ASSUME NEW o \in Owners, courier[o].at # "idle" PROVE ~CanSettleDelivery(o)
  BY <1>1, <1>3 DEF CouriersKnowTheirRows, CanSettleDelivery
<1>4. ASSUME NEW o \in Owners, RecordHandoff(o) \/ SettleDelivery(o) PROVE UNCHANGED outbox
  BY <1>3, <1>4 DEF RecordHandoff, SettleDelivery
<1>5. ASSUME NEW o \in Owners, SinkAccepts(o) \/ SinkRaises(o) \/ DeliveryPumpDies(o)
      PROVE  UNCHANGED outbox
  BY <1>5 DEF SinkAccepts, SinkRaises, DeliveryPumpDies
<1>6. ASSUME NEW e \in Deliveries, DeliveryClaimLapses(e) PROVE FALSE
  BY <1>1, <1>6 DEF DeliveryClaimLapses
<1>7. ~RunEnds
  BY DEF RunEnds
<1>8. UNCHANGED outbox
  BY <1>2, <1>4, <1>5, <1>6, <1>7 DEF DeliveryMove, DeliveryPumpStep, deliveryVars
<1> QED BY <1>1, <1>8

\* The invariant, by component.
PumpsParts ==
    /\ workload \in Workloads /\ maxFaults \in Nat /\ faults \in 0..maxFaults
    /\ CommandTypes /\ AttemptsWithin /\ CommandInv
    /\ DeliveryTypes /\ DeliveryInv
    /\ MemoryTypeOK /\ TurnsAreAccountedFor /\ ScribesHaveAnswers
    /\ ChildTypes /\ ChildInv
    /\ CapacityTypes /\ CapacityInv
    /\ NothingToDeliver

LEMMA PumpsPartsForm == PumpsInv <=> PumpsParts
<1>1. ASSUME PumpsInv PROVE PumpsParts
  <2>1. faults \in Nat
    BY <1>1 DEF PumpsInv, PumpsTypeOK
  <2> QED BY <1>1, <2>1, CommandTypeSplit, DeliveryTypeForm, ChildTypeForm, CapacityTypeForm
         DEF PumpsInv, PumpsTypeOK, PumpsParts, ChildInv, CapacityInv, NothingToDeliver
<1>2. ASSUME PumpsParts PROVE PumpsInv
  <2>1. faults \in Nat
    BY <1>2 DEF PumpsParts
  <2> QED BY <1>2, <2>1, CommandTypeSplit, DeliveryTypeForm, ChildTypeForm, CapacityTypeForm
         DEF PumpsInv, PumpsTypeOK, PumpsParts, ChildInv, CapacityInv, NothingToDeliver
<1> QED BY <1>1, <1>2

\* The first states.
LEMMA PumpsStart == ASSUME PumpsInit PROVE PumpsParts
<1>w. /\ workload \in Workloads /\ maxFaults \in Nat /\ faults = 0 /\ faults \in 0..maxFaults
      /\ run \in {"absent", "active"}
  BY WorkloadTypes DEF PumpsInit
<1>1. CommandTypes /\ AttemptsWithin /\ CommandInv
  <2>0. CommandInit
    BY DEF PumpsInit
  <2>1. /\ cmd \in [Commands -> CommandRows] /\ pump \in [Owners -> Pumps]
        /\ \A c \in Commands : cmd[c] = NoCommand
        /\ \A o \in Owners : pump[o] = IdlePump
    BY <2>0, CommandConstantTypes DEF CommandInit
  <2>2. CommandTypes
    BY <1>w, <2>0, <2>1 DEF CommandTypes, CommandInit, RunStates
  <2>3. /\ NoCommand.state = "none" /\ NoCommand.attempts = 0 /\ NoCommand.owner = NoOwner
        /\ IdlePump.at = "idle" /\ NoCommand.epoch = 0
    BY DEF NoCommand, IdlePump
  <2>4. \A c \in Commands : ~HadItsTurn(c)
    BY <2>1, <2>3 DEF HadItsTurn
  <2>5. StreamNumbered /\ ServedInTurn
    BY <2>1, <2>3, <2>4, CommandConstantTypes DEF StreamNumbered, ServedInTurn
  <2>6. AttemptsAccounted
    BY <2>1, <2>3 DEF AttemptsAccounted, Unsettled
  <2>7. AttemptsWithin
    BY <1>w, <2>1, <2>3, CommandConstants DEF AttemptsWithin
  <2> QED BY <2>2, <2>5, <2>6, <2>7 DEF CommandInv
<1>2. DeliveryTypes /\ DeliveryInv /\ NothingToDeliver
  <2>0. DeliveryInit
    BY DEF PumpsInit
  <2>1. NoDelivery \in DeliveryRows /\ NoDelivery.state = "none" /\ ~NoDelivery.stale
    BY DEF NoDelivery, DeliveryRows
  <2>2. /\ DeliveryTypes
        /\ \A d \in Deliveries : outbox[d] = NoDelivery /\ received[d] = 0
        /\ \A o \in Owners : courier[o] = IdleCourier
    BY <2>0, <2>1, CourierAtRest DEF DeliveryInit, DeliveryTypes
  <2>3. CouriersKnowTheirRows /\ OnlyClaimsExpire /\ NothingToDeliver
    BY <2>1, <2>2, CourierAtRest DEF CouriersKnowTheirRows, OnlyClaimsExpire, NothingToDeliver
  <2>4. \A d \in Deliveries : Belated(d) = {}
    BY <2>2, CourierAtRest DEF Belated
  <2>5. SinkCallsPaidFor
    BY <1>w, <2>1, <2>2, <2>4, FS_EmptySet DEF SinkCallsPaidFor
  <2> QED BY <2>2, <2>3, <2>5 DEF DeliveryInv
<1>3. MemoryTypeOK /\ TurnsAreAccountedFor /\ ScribesHaveAnswers
  <2>0. MemoryInit
    BY DEF PumpsInit
  <2>1. NoTurn \in TurnRows /\ NoTurn.state = "none"
    BY DEF NoTurn, TurnRows
  <2>2. /\ turn \in [Turns -> TurnRows] /\ scribe \in [Owners -> Scribes]
        /\ memory \in [Turns -> SUBSET Answers]
    BY <2>0, <2>1, ScribeAtRest DEF MemoryInit
  <2>3. TurnsAreAccountedFor /\ ScribesHaveAnswers
    BY <2>0, <2>1, ScribeAtRest DEF MemoryInit, TurnsAreAccountedFor, ScribesHaveAnswers
  <2> QED BY <2>2, <2>3, MemoryTypes
<1>4. ChildTypes /\ ChildInv
  <2>0. ChildInit(workload.children)
    BY DEF PumpsInit
  <2>1. /\ NoSignal \in SignalRows /\ NoSignal.state = "none"
        /\ [state |-> "none", home |-> NoOwner] \in ChildRows
    BY DEF NoSignal, SignalRows, ChildRows
  <2>2. IdleListener(AnyChild) \in ListenerRows
    BY ChildConstants DEF AnyChild, IdleListener, ListenerRows
  <2>3. parent \in ParentRows /\ ~parent.claimed
    <3>1. (CHOOSE o \in Owners : TRUE) \in Owners
      BY PumpConstants
    <3>2. EndedParent \in ParentRows /\ ~EndedParent.claimed
      BY DEF EndedParent, ParentRows
    <3>3. CASE workload.children = {}
      BY <2>0, <3>2, <3>3 DEF ChildInit
    <3>4. CASE workload.children # {}
      <4> DEFINE p == CHOOSE o \in Owners : TRUE
      <4>1. parent = [state |-> "running", holder |-> p, drive |-> "driver", claimed |-> FALSE]
        BY <2>0, <3>4 DEF ChildInit
      <4>2. p \in Owners
        BY <3>1
      <4> HIDE DEF p
      <4> QED BY <4>1, <4>2 DEF ParentRows
    <3> QED BY <3>3, <3>4
  <2>4. /\ child \in [Children -> ChildRows] /\ signal \in [Children -> SignalRows]
        /\ listener \in [Owners -> ListenerRows] /\ \A c \in Children : signal[c] = NoSignal
    BY <2>0, <2>1, <2>2 DEF ChildInit
  <2>5. told = <<>> /\ told \in Seq(Children) /\ Len(told) = 0 /\ taken \in 0..Len(told) /\ lost \in BOOLEAN
    <3>1. told = <<>> /\ taken = 0 /\ lost = FALSE
      BY <2>0 DEF ChildInit
    <3>2. told \in Seq(Children) /\ Len(told) = 0
      BY <3>1
    <3>3. taken \in 0..Len(told)
      BY <3>1, <3>2
    <3> QED BY <3>1, <3>2, <3>3
  <2>6. ChildTypes
    BY <2>3, <2>4, <2>5 DEF ChildTypes
  <2>7. Signalled = {} /\ {c \in Children : signal[c].state = "acked"} = {}
    BY <2>1, <2>4 DEF Signalled
  <2>8. Cardinality(Signalled) = 0
    BY <2>7, FS_EmptySet
  <2>9. SignalsNumbered
    BY <2>1, <2>4, <2>7, <2>8 DEF SignalsNumbered
  <2>10. ToldInOrder
    BY <2>5, <2>7, FS_EmptySet DEF ToldInOrder
  <2> QED BY <2>3, <2>6, <2>9, <2>10 DEF ChildInv, ClaimedInputIsLeft
<1>5. CapacityTypes /\ CapacityInv
  <2>0. CapacityInit
    BY DEF PumpsInit
  <2>1. NoEntry \in EntryRows /\ NoEntry.state = "NONE" /\ NoEntry.process = NoOwner
    BY DEF NoEntry, EntryRows, EntryStates
  <2>2. NoCaller \in CallerRows /\ NoCaller.at = "idle" /\ ~NoCaller.known
    BY DEF NoCaller, CallerRows
  <2>3. CapacityTypes /\ atProvider = {}
    BY <2>0, <2>1, <2>2 DEF CapacityInit, CapacityTypes, InvocationStates
  <2>4. \A c \in Calls : CallerMatches(c)
    BY <2>0, <2>2 DEF CapacityInit, CallerMatches
  <2>5. \A c \in Calls : ~Holding(entry[c])
    BY <2>0, <2>1 DEF CapacityInit, Holding
  <2>6. HeldCalls = {}
    BY <2>3, <2>5, SweptEntry DEF HeldCalls
  <2>7. Cardinality(HeldCalls) = 0 /\ Tokens(HeldCalls) = 0
    BY <2>6, FS_EmptySet, SumEmpty DEF Tokens
  <2> QED BY <2>3, <2>4, <2>7, CapacityConstants DEF CapacityInv, CallersMatchEntries, CapacityHolds
<1> QED BY <1>w, <1>1, <1>2, <1>3, <1>4, <1>5 DEF PumpsParts

\* Every step keeps the invariant.
LEMMA PumpsStep ==
    ASSUME PumpsParts, [PumpsNext]_pumpVars
    PROVE  PumpsParts' /\ StreamStep
<1>i. /\ workload \in Workloads /\ maxFaults \in Nat /\ faults \in 0..maxFaults /\ faults \in Nat
      /\ CommandTypes /\ AttemptsWithin /\ StreamNumbered /\ ServedInTurn
      /\ AttemptsAccounted
      /\ DeliveryTypes /\ DeliveryInv /\ CouriersKnowTheirRows
      /\ MemoryTypeOK /\ TurnsAreAccountedFor /\ ScribesHaveAnswers
      /\ ChildTypes /\ ChildInv /\ CapacityTypes /\ CapacityInv /\ NothingToDeliver
  BY DEF PumpsParts, CommandInv, DeliveryInv
<1>f. /\ CommandMove /\ DeliveryMove /\ MemoryMove /\ ChildMove /\ CapacityMove
      /\ UNCHANGED <<workload, maxFaults>>
  BY <1>i, Frames
<1>w. /\ workload.children \subseteq Children /\ workload.calls \subseteq Owners \X Calls
  BY <1>i, WorkloadTypes
<1>1. FaultsGrow /\ faults' \in 0..maxFaults' /\ maxFaults' \in Nat /\ workload' \in Workloads
  BY <1>i, <1>f, FaultsCount
<1>2. CommandTypes'
  BY <1>i, <1>f, CommandTypeStep
<1>3. StreamStep
  BY <1>i, <1>f, CommandsMoveAlong
<1>4. StreamNumbered' /\ ServedInTurn'
  BY <1>i, <1>2, <1>3, StreamNumberedStep, ServedInTurnStep
<1>5. AttemptsWithin' /\ AttemptsAccounted'
  BY <1>i, <1>f, <1>1, <1>2, <1>3, AttemptsStep
<1>6. DeliveryTypes' /\ DeliveryInv'
  BY <1>i, <1>f, <1>1, DeliveryStep DEF NothingToDeliver
<1>7. NothingToDeliver'
  BY <1>i, <1>f, <1>3, NothingToDeliverStep
<1>8. MemoryTypeOK' /\ TurnsAreAccountedFor' /\ ScribesHaveAnswers'
  BY <1>i, <1>f, MemoryTypeStep, MemoryStep
<1>9. ChildTypes' /\ ChildInv'
  BY <1>i, <1>f, <1>w, ChildStep
<1>10. CapacityTypes' /\ CapacityInv'
  BY <1>i, <1>f, <1>w, CapacityStep
<1> QED
  BY <1>1, <1>2, <1>3, <1>4, <1>5, <1>6, <1>7, <1>8, <1>9, <1>10 DEF PumpsParts, CommandInv

\* What the pumps rely on holds for every number of processes, commands, deliveries,
\* turns, children and calls, and whatever they are asked to do: the tables have their
\* types, a command is not tried more often than _drain_commands_bounded allows and the
\* faults explain, and each component keeps its own invariant.
THEOREM PumpsInvariant == PumpsSpec => []PumpsInv
<1>1. PumpsInit => PumpsParts
  BY PumpsStart
<1>2. PumpsParts /\ [PumpsNext]_pumpVars => PumpsParts'
  BY PumpsStep
<1>3. PumpsParts <=> PumpsInv
  BY PumpsPartsForm
<1> QED BY <1>1, <1>2, <1>3, PTL DEF PumpsSpec

\* Commands take effect in the order submit_command accepted them, although several
\* pumps work on them, their claims lapse and a cancel sweeps them.
THEOREM CommandOrder == PumpsSpec => []CommandsInOrder
<1>1. PumpsInv => CommandsInOrder
  BY DEF PumpsInv, CommandInv, ServedInTurn, HadItsTurn, CommandsInOrder
<1> QED BY <1>1, PumpsInvariant, PTL

\* Once apply_cancel_command has applied a cancel, no start or continue is left that could
\* still take effect, and no command makes the Run active: only a wait that replaces the
\* request does.
THEOREM CancelFinal == PumpsSpec => CancelIsFinal
<1>1. ASSUME PumpsInv
      PROVE  CancelApplied => \A d \in Commands \ Cancels : cmd[d].state \notin Unsettled
  <2>1. CommandTypes /\ StreamNumbered /\ ServedInTurn
    BY <1>1, PumpsPartsForm DEF PumpsParts, CommandInv
  <2> QED BY <2>1, AppliedCancelEndsAll DEF CancelApplied
<1>2. ASSUME PumpsInv, [PumpsNext]_pumpVars
      PROVE  [CancelApplied' /\ run' = "active" =>
                 run = "cancel_requested" \/ (CancelApplied /\ run = "active")]_commandVars
  <2>1. CommandTypes /\ StreamNumbered /\ ServedInTurn /\ StreamStep
    BY <1>2, PumpsPartsForm, PumpsStep DEF PumpsParts, CommandInv
  <2> QED BY <2>1, CancelledRunStep
<1> QED BY <1>1, <1>2, PumpsInvariant, PTL DEF PumpsSpec, CancelIsFinal

\* The outcome a client has read in the receipt of a command never changes, whatever a
\* pump that lost its claim still writes.
THEOREM OutcomesFinal == PumpsSpec => OutcomeIsFinal
<1>1. ASSUME PumpsInv, [PumpsNext]_pumpVars
      PROVE  [\A c \in Commands : cmd[c].state \in CommandSettled =>
                 cmd'[c].state = cmd[c].state]_commandVars
  <2>1. StreamStep
    BY <1>1, PumpsPartsForm, PumpsStep
  <2>2. ASSUME NEW c \in Commands, cmd[c].state \in CommandSettled
        PROVE  cmd'[c].state = cmd[c].state
    BY <2>1, <2>2 DEF StreamStep, CommandKept, CommandAdded, CommandSettled
  <2> QED BY <2>2
<1> QED BY <1>1, PumpsInvariant, PTL DEF PumpsSpec, OutcomeIsFinal

\* A delivery that complete_delivery marked was taken by its sink, and a sink is called
\* once, and once more for every crash, failed call or claim that lapsed under its
\* dispatcher.
THEOREM DeliveryOften == PumpsSpec => []DeliveredAsOften
<1>1. ASSUME PumpsInv PROVE DeliveredAsOften
  <2>1. SinkCallsPaidFor /\ faults \in Nat /\ \A d \in Deliveries : received[d] \in Nat
    BY <1>1 DEF PumpsInv, DeliveryInv, PumpsTypeOK, DeliveryTypeOK
  <2>2. ASSUME NEW d \in Deliveries
        PROVE  /\ outbox[d].state = "delivered" => received[d] >= 1
               /\ received[d] <= 1 + faults
    <3>1. Cardinality(Belated(d)) \in Nat
      BY BelatedFinite
    <3>2. /\ outbox[d].state = "delivered" => received[d] >= 1
          /\ received[d] + Cardinality(Belated(d)) <= faults + (IF Made(d) THEN 1 ELSE 0)
      BY <2>1 DEF SinkCallsPaidFor
    <3> QED BY <2>1, <3>1, <3>2
  <2> QED BY <2>2 DEF DeliveredAsOften
<1> QED BY <1>1, PumpsInvariant, PTL

\* The row of a committed turn tells what the host's memory did with it, although calls
\* fail in transit and several dispatchers make them.
THEOREM TurnsAccounted == PumpsSpec => []TurnsAreAccountedFor
<1>1. PumpsInv => TurnsAreAccountedFor
  BY DEF PumpsInv
<1> QED BY <1>1, PumpsInvariant, PTL

\* A parent is told of every child once, in the order _commit_child_terminal ended the
\* children, whichever kernel claims the signals and whether claims lapse.
THEOREM SignalsInOrder == PumpsSpec => []ToldInOrder
<1>1. PumpsInv => ToldInOrder
  BY DEF PumpsInv
<1> QED BY <1>1, PumpsInvariant, PTL

\* Every call the Provider may still be working on holds its capacity, also when its
\* process is gone, and what DeploymentCapacity has given out stays within the slots and
\* the tokens of the pool.
THEOREM CapacityKept == PumpsSpec => []CapacityHolds
<1>1. PumpsInv => CapacityHolds
  BY DEF PumpsInv
<1> QED BY <1>1, PumpsInvariant, PTL

=============================================================================
