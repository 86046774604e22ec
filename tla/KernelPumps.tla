---------------------------- MODULE KernelPumps ----------------------------
(***************************************************************************)
(* The pumps of RuntimeKernel together: commands create, continue and      *)
(* cancel a Run; the transaction that ends the Run inserts its deliveries  *)
(* and its committed turn; a process that dies takes its pumps with it.    *)
(***************************************************************************)
EXTENDS CommandIngress, DeliveryOutbox, MemoryOutbox, ChildSignals,
        SharedCapacity

CONSTANT Workloads   \* what clients and the Run may ask for: the commands they
                     \* submit, the deliveries and the turns the Run commits,
                     \* the children another Run of theirs launches, the
                     \* Provider calls of other Runs, each with its process,
                     \* whether the Run was created without a command, and
                     \* how much may go wrong

ASSUME WorkloadConstants ==
    Workloads \subseteq [commands : SUBSET Commands, deliveries : SUBSET Deliveries,
                         turns : SUBSET Turns, children : SUBSET Children,
                         calls : SUBSET (Owners \X Calls), run : {"absent", "active"}, faults : Nat]

VARIABLE workload    \* the workload of this behaviour

pumpVars == <<workload, faults, maxFaults, commandVars, deliveryVars, memoryVars, childVars,
              capacityVars>>

PumpsInit ==
    /\ workload \in Workloads
    /\ faults = 0 /\ maxFaults = workload.faults
    /\ run = workload.run
    /\ CommandInit /\ DeliveryInit /\ MemoryInit /\ ChildInit(workload.children)
    /\ CapacityInit

\* _terminalize of a root Run: a failed Run has deliveries and no committed
\* turn, a completed one may have both.
TerminalCommit(D, T) ==
    /\ RunEnds
    /\ InsertDeliveries(D)
    /\ InsertTurns(T)
    /\ NoFault
    /\ UNCHANGED <<childVars, capacityVars>>

\* _terminalize_cancelled by whoever drives the Run: no deliveries, no turn.
CancelCommit ==
    /\ run = "cancel_requested"
    /\ RunEnds
    /\ UNCHANGED <<faults, deliveryVars, memoryVars, childVars, capacityVars>>

\* The process of o dies and is started again.
ProcessDies(o) ==
    /\ Fault
    /\ CommandPumpDies(o)
    /\ DeliveryPumpDies(o)
    /\ MemoryPumpDies(o)
    /\ ListenerDies(o)
    /\ CallerDies(o)

\* Steps of one of the components leave the others as they are.
OnlyCommands   == UNCHANGED <<workload, maxFaults, deliveryVars, memoryVars, childVars, capacityVars>>
OnlyDeliveries == UNCHANGED <<workload, maxFaults, commandVars, memoryVars, childVars, capacityVars>>
OnlyMemory     == UNCHANGED <<workload, maxFaults, commandVars, deliveryVars, childVars, capacityVars>>
OnlyChildren   == UNCHANGED <<workload, maxFaults, commandVars, deliveryVars, memoryVars, capacityVars>>
OnlyCapacity   == UNCHANGED <<workload, maxFaults, commandVars, deliveryVars, memoryVars, childVars>>

PumpsNext ==
    \/ (CommandNext \/ \E c \in workload.commands : SubmitCommand(c)) /\ OnlyCommands
    \/ DeliveryNext /\ OnlyDeliveries
    \/ MemoryNext /\ OnlyMemory
    \/ ChildNext(workload.children) /\ OnlyChildren
    \/ CapacityNext(workload.calls) /\ OnlyCapacity
    \/ /\ \/ \E T \in SUBSET workload.turns : TerminalCommit(workload.deliveries, T)
          \/ CancelCommit
          \/ \E o \in Owners : ProcessDies(o)
       /\ UNCHANGED <<workload, maxFaults>>

\* Every pump goes on, and time passes.
PumpsFairness ==
    /\ \A o \in Owners :
          /\ WF_pumpVars(CommandPumpStep(o) /\ OnlyCommands)
          /\ WF_pumpVars(DeliveryPumpStep(o) /\ OnlyDeliveries)
          /\ WF_pumpVars(MemoryPumpStep(o) /\ OnlyMemory)
          /\ WF_pumpVars(ListenerStep(o) /\ OnlyChildren)
    /\ \A c \in Commands : WF_pumpVars(CommandTime(c) /\ NoFault /\ OnlyCommands)
    /\ \A d \in Deliveries : WF_pumpVars(DeliveryClaimLapses(d) /\ NoFault /\ OnlyDeliveries)
    /\ \A t \in Turns : WF_pumpVars(TurnTime(t) /\ NoFault /\ OnlyMemory)
    /\ \A c \in Children : WF_pumpVars(SignalLapses(c) /\ NoFault /\ OnlyChildren)
    /\ \A c \in Calls : WF_pumpVars(CallerStep(c) /\ OnlyCapacity)
    /\ WF_pumpVars(RecoverCapacity /\ OnlyCapacity)

PumpsSpec == PumpsInit /\ [][PumpsNext]_pumpVars /\ PumpsFairness

-----------------------------------------------------------------------------

\* The type invariant of the composition; that of the commands also bounds how
\* often a command is tried (_drain_commands_bounded rejects the last attempt).
PumpsTypeOK ==
    /\ CommandTypeOK /\ DeliveryTypeOK /\ MemoryTypeOK /\ ChildTypeOK /\ CapacityTypeOK
    /\ workload \in Workloads
    /\ maxFaults \in Nat /\ faults \in 0..maxFaults

\* The inductive invariant: the types, and what each of the components relies on.  The
\* deliveries are inserted once, when the Run ends.
PumpsInv ==
    /\ PumpsTypeOK
    /\ CommandInv /\ DeliveryInv
    /\ TurnsAreAccountedFor /\ ScribesHaveAnswers
    /\ SignalsNumbered /\ ClaimedInputIsLeft /\ ToldInOrder
    /\ CallersMatchEntries /\ CapacityHolds
    /\ run # "ended" => \A d \in Deliveries : outbox[d].state = "none"

=============================================================================
