--------------------------- MODULE CommandIngress ---------------------------
(***************************************************************************)
(* The durable commands of one Run (tables conversation_commands and       *)
(* conversation_command_streams) and the command pump of every kernel.     *)
(* Clients submit one start, then continues and cancels; a pump claims the *)
(* oldest unsettled command of the Run, prepares its context, and applies  *)
(* it to the Run in the transaction that settles the command.              *)
(*                                                                         *)
(* The steps of a pump are its transactions; a command's context and the   *)
(* admission of a start are awaited between them.  Of the Run only what    *)
(* commands ask of it is kept; RunLifecycle and ContinuationQueue have the *)
(* rest.                                                                   *)
(***************************************************************************)
EXTENDS PumpFaults

CONSTANTS StartCommand,  \* the start command of the Run
          Continues,     \* continue commands, by command_id
          Cancels,       \* cancel commands
          MaxAttempts    \* claims after which a transient failure rejects (8)

Commands == {StartCommand} \cup Continues \cup Cancels

ASSUME CommandConstants ==
    /\ StartCommand \notin Continues \cup Cancels
    /\ Continues \cap Cancels = {}
    /\ MaxAttempts \in Nat \ {0}

VARIABLES cmd,      \* conversation_commands, by command_id
          nextSeq,  \* next_accept_seq; 0 before the stream exists
          fenceSeq, \* cancel_fence_seq; 0 for NULL
          run,      \* the Run as far as commands see it
          inputs,   \* the continues that were enqueued as inputs
          pump      \* the command pump of each kernel

commandVars == <<cmd, nextSeq, fenceSeq, run, inputs, pump>>

CommandSettled == {"applied", "rejected", "cancelled"}
Unsettled      == {"accepted", "context_call_intent", "context_ready"}

NoCommand == [state |-> "none", seq |-> 0, owner |-> NoOwner, epoch |-> 0,
              live |-> FALSE, attempts |-> 0, backoff |-> FALSE]
IdlePump  == [at |-> "idle", on |-> StartCommand, epoch |-> 0, state |-> "none",
              attempts |-> 0, definite |-> FALSE]

CommandInit ==
    /\ cmd = [c \in Commands |-> NoCommand]
    /\ nextSeq = 0 /\ fenceSeq = 0
    /\ inputs = {}
    /\ pump = [o \in Owners |-> IdlePump]

-----------------------------------------------------------------------------
(* Submission (CommandIngress._submit).                                    *)

Earlier(c) == {d \in Commands : cmd[d].state # "none" /\ cmd[d].seq < cmd[c].seq}

Accepted(s) == [NoCommand EXCEPT !.state = "accepted", !.seq = s]

SubmitStart ==
    /\ nextSeq = 0
    /\ cmd' = [cmd EXCEPT ![StartCommand] = Accepted(0)]
    /\ nextSeq' = 1
    /\ UNCHANGED <<faults, fenceSeq, run, inputs, pump>>

SubmitContinue(c) ==
    /\ nextSeq > 0 /\ fenceSeq = 0 /\ cmd[c].state = "none"
    /\ cmd' = [cmd EXCEPT ![c] = Accepted(nextSeq)]
    /\ nextSeq' = nextSeq + 1
    /\ UNCHANGED <<faults, fenceSeq, run, inputs, pump>>

\* Faulty: the cancel does not close the stream for later continues.
SubmitCancelUnfenced(c) ==
    /\ nextSeq > 0 /\ cmd[c].state = "none"
    /\ nextSeq' = nextSeq + 1
    /\ LET swept == [d \in Commands |->
                        IF cmd[d].state = "accepted" /\ d \notin Cancels
                        THEN [cmd[d] EXCEPT !.state = "cancelled", !.owner = NoOwner,
                                            !.live = FALSE]
                        ELSE cmd[d]]
           done  == run = "absent" /\ \A d \in Commands : swept[d].state \notin Unsettled
       IN  cmd' = [swept EXCEPT ![c] = [Accepted(nextSeq) EXCEPT
                                           !.state = IF done THEN "applied" ELSE @]]
    /\ UNCHANGED <<faults, fenceSeq, run, inputs, pump>>

\* A cancel closes the stream for continues, cancels the commands nobody has
\* begun to work on, and is applied at once when there is nothing left to cancel.
SubmitCancel(c) ==
    /\ nextSeq > 0 /\ cmd[c].state = "none"
    /\ fenceSeq' = nextSeq
    /\ nextSeq' = nextSeq + 1
    /\ LET swept == [d \in Commands |->
                        IF cmd[d].state = "accepted" /\ d \notin Cancels
                        THEN [cmd[d] EXCEPT !.state = "cancelled", !.owner = NoOwner,
                                            !.live = FALSE]
                        ELSE cmd[d]]
           done  == run = "absent" /\ \A d \in Commands : swept[d].state \notin Unsettled
       IN  cmd' = [swept EXCEPT ![c] = [Accepted(nextSeq) EXCEPT
                                           !.state = IF done THEN "applied" ELSE @]]
    /\ UNCHANGED <<faults, run, inputs, pump>>

-----------------------------------------------------------------------------
(* The claim and the compare-and-swaps that depend on it.                  *)

\* Faulty: a command is served although an earlier one is not settled.
ClaimableOutOfOrder(c) ==
    /\ cmd[c].state \in Unsettled
    /\ ~cmd[c].backoff
    /\ ~cmd[c].live

\* Faulty: a claim that has lapsed is not taken over.
ClaimableUnowned(c) ==
    /\ cmd[c].state \in Unsettled
    /\ ~cmd[c].backoff
    /\ cmd[c].owner = NoOwner
    /\ \A d \in Earlier(c) : cmd[d].state \in CommandSettled

\* claim_next: the head of the stream, unless it is in backoff or its claim is
\* live.  live implies an owner.
Claimable(c) ==
    /\ cmd[c].state \in Unsettled
    /\ ~cmd[c].backoff
    /\ ~cmd[c].live
    /\ \A d \in Earlier(c) : cmd[d].state \in CommandSettled

\* The row still is the one o has claimed.
Holds(o) ==
    LET row == cmd[pump[o].on]
    IN  row.state \in Unsettled /\ row.owner = o /\ row.epoch = pump[o].epoch

Fail(o, definite) ==
    pump' = [pump EXCEPT ![o].at = "failed", ![o].definite = definite]

ClaimNextCommand(o) ==
    /\ pump[o].at = "idle"
    /\ \E c \in Commands :
          /\ Claimable(c)
          /\ cmd' = [cmd EXCEPT ![c].owner = o, ![c].epoch = @ + 1, ![c].live = TRUE,
                                ![c].attempts = @ + 1]
          /\ pump' = [pump EXCEPT ![o] =
                 [at |-> "begin", on |-> c, epoch |-> cmd'[c].epoch,
                  state |-> cmd[c].state, attempts |-> cmd'[c].attempts,
                  definite |-> FALSE]]
    /\ UNCHANGED <<faults, nextSeq, fenceSeq, run, inputs>>

\* transition_command of o's claim from the state o has in mind, which takes o
\* to `next`; a conflict is a CommandError, hence a definite failure.
Transition(o, target, next) ==
    LET c == pump[o].on
    IN  IF Holds(o) /\ cmd[c].state = pump[o].state
        THEN /\ cmd' = [cmd EXCEPT ![c].state = target]
             /\ pump' = [pump EXCEPT ![o].state = target, ![o].at = next]
        ELSE Fail(o, TRUE) /\ UNCHANGED cmd

BeginCommand(o) ==
    /\ pump[o].at = "begin"
    /\ IF pump[o].state = "accepted"
       THEN Transition(o, "context_call_intent", "context")
       ELSE pump' = [pump EXCEPT ![o].at = "context"] /\ UNCHANGED cmd
    /\ UNCHANGED <<faults, nextSeq, fenceSeq, run, inputs>>

\* The context of a start or a continue was prepared; a cancel needs none.
ContextReady(o) ==
    /\ pump[o].at = "context"
    /\ pump[o].on \in Continues => run # "absent"
    /\ IF pump[o].state = "context_call_intent"
       THEN Transition(o, "context_ready", "apply")
       ELSE pump' = [pump EXCEPT ![o].at = "apply"] /\ UNCHANGED cmd
    /\ UNCHANGED <<faults, nextSeq, fenceSeq, run, inputs>>

\* The context, the admission or the database fails, or there is no Run to
\* continue: for good, or in a way that is worth another attempt.
ProcessingFails(o) ==
    /\ pump[o].at \in {"begin", "context", "apply"}
    /\ \/ pump[o].on \notin Cancels /\ Fail(o, TRUE)
       \/ Fail(o, FALSE)
    /\ UNCHANGED <<faults, cmd, nextSeq, fenceSeq, run, inputs>>

\* What applying o's command does to the Run.
Effect(o) ==
    LET c == pump[o].on
    IN  /\ c = StartCommand => run = "absent"
        /\ c \in Continues => run \in {"active", "cancel_requested"}
        /\ run' = IF c = StartCommand THEN "active"
                  ELSE IF c \in Cancels /\ run = "active" THEN "cancel_requested"
                  ELSE run
        /\ inputs' = inputs \cup ({c} \cap Continues)

\* apply_start_command, apply_continue_command, apply_cancel_command: the effect
\* on the Run and _settle_applied_command in one transaction.
ApplyCommand(o) ==
    /\ pump[o].at = "apply"
    /\ Holds(o) /\ cmd[pump[o].on].state = "context_ready"
    /\ Effect(o)
    /\ cmd' = [cmd EXCEPT ![pump[o].on].state = "applied", ![pump[o].on].owner = NoOwner,
                          ![pump[o].on].live = FALSE]
    /\ pump' = [pump EXCEPT ![o].at = "after"]
    /\ UNCHANGED <<faults, nextSeq, fenceSeq>>

\* The claim is gone, or the Run refuses: UnitOfWorkConflict or
\* UnitOfWorkNotFound, neither of them definite.
ApplyConflict(o) ==
    /\ pump[o].at = "apply"
    /\ \/ ~(Holds(o) /\ cmd[pump[o].on].state = "context_ready")
       \/ pump[o].on \in Continues /\ run \in {"absent", "ended"}
    /\ Fail(o, FALSE)
    /\ UNCHANGED <<faults, cmd, nextSeq, fenceSeq, run, inputs>>

\* After the transaction the Run is activated, woken, or its cancellation
\* carried out, if its authority can be had.  A failure finds the command settled.
AfterApply(o) ==
    /\ pump[o].at = "after"
    /\ run' \in {run} \cup (IF pump[o].on \in Cancels /\ run = "cancel_requested"
                            THEN {"ended"} ELSE {})
    /\ pump' = [pump EXCEPT ![o] = IdlePump]
    /\ UNCHANGED <<faults, cmd, nextSeq, fenceSeq, inputs>>

\* Faulty: a late failure is recorded whoever has the command now.
CanSettleAnyFailure(o) == cmd[pump[o].on].state # "none"

\* The CAS of reject_command and retry_command.
CanSettleFailure(o) == Holds(o)

\* Faulty: a transient failure is worth another attempt however many there were.
SettleFailureRetried(o) ==
    LET c == pump[o].on
    IN  /\ pump[o].at = "failed"
        /\ cmd' = IF ~CanSettleFailure(o) THEN cmd
                  ELSE [cmd EXCEPT ![c].state = IF pump[o].definite THEN "rejected" ELSE @,
                                   ![c].owner = NoOwner, ![c].live = FALSE,
                                   ![c].backoff = ~pump[o].definite]
        /\ pump' = [pump EXCEPT ![o] = IdlePump]
        /\ UNCHANGED <<faults, nextSeq, fenceSeq, run, inputs>>

\* The exception handler of _drain_commands_bounded.  A command that is settled
\* or that somebody else has claimed since is left alone.
SettleFailure(o) ==
    LET c == pump[o].on
        rejected == pump[o].definite \/ pump[o].attempts >= MaxAttempts
    IN  /\ pump[o].at = "failed"
        /\ cmd' = IF ~CanSettleFailure(o) THEN cmd
                  ELSE [cmd EXCEPT ![c].state = IF rejected THEN "rejected" ELSE @,
                                   ![c].owner = NoOwner, ![c].live = FALSE,
                                   ![c].backoff = ~rejected]
        /\ pump' = [pump EXCEPT ![o] = IdlePump]
        /\ UNCHANGED <<faults, nextSeq, fenceSeq, run, inputs>>

\* _command_heartbeat: it may revive a claim that has lapsed.
CommandHeartbeat(o) ==
    /\ pump[o].at # "idle" /\ Holds(o)
    /\ ~cmd[pump[o].on].live
    /\ cmd' = [cmd EXCEPT ![pump[o].on].live = TRUE]
    /\ UNCHANGED <<faults, nextSeq, fenceSeq, run, inputs, pump>>

-----------------------------------------------------------------------------
(* Time, crashes, and the Run.                                             *)

CommandWorkedOn(c) == \E o \in Owners : pump[o].at # "idle" /\ pump[o].on = c /\ Holds(o)

CommandClaimLapses(c) ==
    /\ cmd[c].live
    /\ cmd' = [cmd EXCEPT ![c].live = FALSE]
    /\ Lapses(CommandWorkedOn(c))
    /\ UNCHANGED <<nextSeq, fenceSeq, run, inputs, pump>>

\* retry_at is reached.
RetryComesDue(c) ==
    /\ cmd[c].backoff
    /\ cmd' = [cmd EXCEPT ![c].backoff = FALSE]
    /\ UNCHANGED <<faults, nextSeq, fenceSeq, run, inputs, pump>>

\* The process of o dies, or closes and cancels its pump, and is restarted.
CommandPumpDies(o) ==
    /\ pump' = [pump EXCEPT ![o] = IdlePump]
    /\ UNCHANGED <<cmd, nextSeq, fenceSeq, run, inputs>>

\* The Run ends by itself.
RunEnds ==
    /\ run \in {"active", "cancel_requested"}
    /\ run' = "ended"
    /\ UNCHANGED <<cmd, nextSeq, fenceSeq, inputs, pump>>

\* A driver that has not heard of the cancel commits a wait, which replaces
\* cancel_requested: the Run can be woken and goes on.
WaitOverwritesCancel ==
    /\ run = "cancel_requested"
    /\ run' = "active"
    /\ UNCHANGED <<faults, cmd, nextSeq, fenceSeq, inputs, pump>>

SubmitCommand(c) ==
    \/ c = StartCommand /\ SubmitStart
    \/ c \in Continues /\ SubmitContinue(c)
    \/ c \in Cancels /\ SubmitCancel(c)

CommandPumpStep(o) ==
    \/ ClaimNextCommand(o)
    \/ BeginCommand(o)
    \/ ContextReady(o)
    \/ ProcessingFails(o)
    \/ ApplyCommand(o)
    \/ ApplyConflict(o)
    \/ AfterApply(o)
    \/ SettleFailure(o)

CommandTime(c) == CommandClaimLapses(c) \/ RetryComesDue(c)

CommandNext ==
    \/ \E o \in Owners : CommandPumpStep(o) \/ CommandHeartbeat(o)
    \/ \E c \in Commands : CommandTime(c)
    \/ WaitOverwritesCancel
-----------------------------------------------------------------------------
(* Properties.                                                             *)

\* A command is claimed at most MaxAttempts times and once more for every claim
\* that lapsed under its pump or whose process died.
CommandTypeOK ==
    /\ cmd \in [Commands -> [state : {"none"} \cup Unsettled \cup CommandSettled,
                             seq : Nat, owner : Owners \cup {NoOwner}, epoch : Nat,
                             live : BOOLEAN, attempts : 0..(MaxAttempts + faults),
                             backoff : BOOLEAN]]
    /\ nextSeq \in Nat /\ fenceSeq \in Nat
    /\ run \in {"absent", "active", "cancel_requested", "ended"}
    /\ inputs \subseteq Continues
    /\ pump \in [Owners -> [at : {"idle", "begin", "context", "apply", "after", "failed"},
                            on : Commands, epoch : Nat,
                            state : {"none"} \cup Unsettled, attempts : Nat,
                            definite : BOOLEAN]]

\* The stream numbers the commands as they are accepted, and cancels come last.
StreamNumbered ==
    /\ \A c \in Commands : cmd[c].state # "none" => cmd[c].seq < nextSeq
    /\ \A c \in Cancels : cmd[c].state # "none" => fenceSeq > 0
    /\ \A c \in Cancels, d \in Commands \ Cancels :
           cmd[c].state # "none" /\ cmd[d].state # "none" => cmd[d].seq < cmd[c].seq

\* The turn of c has come: it was claimed, is worked on, or was applied.
HadItsTurn(c) ==
    \/ cmd[c].epoch > 0 /\ cmd[c].state # "none"
    \/ cmd[c].state \in {"context_call_intent", "context_ready", "applied"}

\* The turn of a command comes when every earlier one is settled.
ServedInTurn ==
    \A d \in Commands :
        /\ cmd[d].owner # NoOwner => cmd[d].epoch > 0
        /\ HadItsTurn(d) => \A c \in Earlier(d) : cmd[c].state \in CommandSettled

\* A pump knows how often the command it holds was tried, and a command that has
\* used up its attempts is in the hands of a pump that will settle it.
AttemptsAccounted ==
    /\ \A o \in Owners :
          /\ pump[o].at # "idle" /\ Holds(o) => pump[o].attempts = cmd[pump[o].on].attempts
          /\ pump[o].at = "after" => cmd[pump[o].on].state \in CommandSettled
    /\ \A c \in Commands :
          cmd[c].state \in Unsettled =>
              \/ cmd[c].attempts < MaxAttempts + faults
              \/ cmd[c].live /\ CommandWorkedOn(c)

CommandInv == StreamNumbered /\ ServedInTurn /\ AttemptsAccounted

\* Commands take effect in the order they were accepted: whoever works on a
\* command or has applied it finds every earlier one settled, although several
\* pumps, lapsed claims and the sweep of a cancel settle them.
CommandsInOrder ==
    \A d \in Commands :
        cmd[d].state \in {"context_call_intent", "context_ready", "applied"} =>
            \A c \in Earlier(d) : cmd[c].state \in CommandSettled

CancelApplied == \E c \in Cancels : cmd[c].state = "applied"

\* Once a cancel is applied, no start or continue is left that could still take
\* effect, nor is one accepted later; and no command brings the Run to life: if
\* it is active, a wait has replaced the request since.
CancelIsFinal ==
    /\ [](CancelApplied => \A d \in Commands \ Cancels : cmd[d].state \notin Unsettled)
    /\ [][CancelApplied' /\ run' = "active" =>
             run = "cancel_requested" \/ (CancelApplied /\ run = "active")]_commandVars

\* The outcome a client has read in a receipt never changes, whatever a pump
\* that lost its claim still does.
OutcomeIsFinal ==
    [][\A c \in Commands : cmd[c].state \in CommandSettled =>
           cmd'[c].state = cmd[c].state]_commandVars

\* Again and again every accepted command is settled, through crashes, lapsed
\* claims, transient failures and a Run that is never created or ends meanwhile.
EveryCommandSettles == []<>(\A c \in Commands : cmd[c].state \notin Unsettled)

=============================================================================
