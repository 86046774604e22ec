---------------------------- MODULE ChildSignals ----------------------------
(***************************************************************************)
(* A parent Run, its child Runs and the signals that tell it of their ends *)
(* (tables run_links, child_signals, child_signal_ack_receipts).  The wake *)
(* drain of every kernel claims the oldest signal of the parent, and in a  *)
(* second transaction acks it, hands it to the parent as a continuation    *)
(* input and queues the parent; then it wakes the parent.                  *)
(*                                                                         *)
(* UnitOfWorkConflict of the ack is caught nowhere: the wake drain that    *)
(* meets it is dead until its kernel restarts.  Of the parent's authority  *)
(* only the holder of the lease is kept (RunAuthority has the rest), and   *)
(* of its inputs only those a signal brings (ContinuationQueue).  Spawns   *)
(* of the workflow engine, which have tables of their own, are left out,   *)
(* and so are detached children, which send no signal.                     *)
(***************************************************************************)
EXTENDS PumpFaults, Sequences, FiniteSets

CONSTANT Children   \* child Runs that are not launched as DETACHED

ASSUME ChildConstants == IsFiniteSet(Children) /\ Children # {}

VARIABLES parent,   \* the parent Run, the holder of its lease and its drive
          child,    \* the child Runs, and the kernel whose task drives each
          signal,   \* child_signals, by child_run_id
          told,     \* the inputs signals have brought, in the order of fifo_seq
          taken,    \* how many of them are acked
          listener, \* the wake drain of each kernel
          lost      \* history: nobody will wake the parent for an input it has

childVars == <<parent, child, signal, told, taken, listener, lost>>

NoSignal == [state |-> "none", at |-> 0, owner |-> NoOwner, epoch |-> 0, expired |-> FALSE]
IdleListener(c) == [at |-> "idle", on |-> c, epoch |-> 0, acked |-> FALSE]
AnyChild == CHOOSE c \in Children : TRUE

EndedParent == [state |-> "ended", holder |-> NoOwner, drive |-> "none", claimed |-> FALSE]

\* The parent is being driven by one of the kernels (which one makes no
\* difference); or there is no parent to be told of anything.
ChildInit(C) ==
    /\ IF C = {} THEN parent = EndedParent
       ELSE parent = [state |-> "running", holder |-> CHOOSE o \in Owners : TRUE,
                      drive |-> "driver", claimed |-> FALSE]
    /\ child = [c \in Children |-> [state |-> "none", home |-> NoOwner]]
    /\ signal = [c \in Children |-> NoSignal]
    /\ told = <<>> /\ taken = 0
    /\ listener = [o \in Owners |-> IdleListener(AnyChild)]
    /\ lost = FALSE

InputLeft == taken < Len(told)

-----------------------------------------------------------------------------
(* The children.                                                           *)

\* The driver of the parent (a tool it calls) launches a child:
\* claim_profile_launch_and_commit_child and the first drive of the child.  The
\* parent is set to waiting whatever it was doing, also when it is to be
\* cancelled.
LaunchChild(o, c) ==
    /\ child[c].state = "none"
    /\ parent.state # "ended" /\ parent.drive = "driver" /\ parent.holder = o
    /\ child' = [child EXCEPT ![c] = [state |-> "active", home |-> o]]
    /\ parent' = [parent EXCEPT !.state = "waiting"]
    /\ UNCHANGED <<faults, signal, told, taken, listener, lost>>

\* _commit_child_terminal by the kernel that drives the child: the end of the
\* child and the signal in one transaction.
EndChild(c) ==
    /\ child[c].state = "active" /\ child[c].home # NoOwner
    /\ child' = [child EXCEPT ![c].state = "ended"]
    /\ signal' = [signal EXCEPT ![c].state = "pending",
                      ![c].at = 1 + Cardinality({d \in Children : signal[d].state # "none"})]
    /\ UNCHANGED <<faults, parent, told, taken, listener, lost>>

\* The task that drove the child to its end is done.
ChildTaskDone(c) ==
    /\ child[c].state = "ended" /\ child[c].home # NoOwner
    /\ child' = [child EXCEPT ![c].home = NoOwner]
    /\ UNCHANGED <<faults, parent, signal, told, taken, listener, lost>>

\* A child whose process died is recovered.
DriveChild(o, c) ==
    /\ child[c].state = "active" /\ child[c].home = NoOwner
    /\ child' = [child EXCEPT ![c].home = o]
    /\ UNCHANGED <<faults, parent, signal, told, taken, listener, lost>>

-----------------------------------------------------------------------------
(* _drain_child_signals_once: receive_one until nothing is left, then the  *)
(* wake.                                                                   *)

\* A child of the parent is active in o, so that o leaves its signals alone.
Blocked(o) == \E c \in Children : child[c].home = o

IsOldest(c) ==
    /\ signal[c].state \in {"pending", "claimed"}
    /\ \A d \in Children : signal[d].state \in {"pending", "claimed"} => signal[c].at <= signal[d].at

\* Faulty: a claim that has lapsed is not taken over.
SignalIsDueUnclaimed(c) == IsOldest(c) /\ signal[c].state = "pending"

\* The signal claim_next_child_signal claims: the oldest one, unless its claim
\* has not expired.
SignalIsDue(c) == IsOldest(c) /\ (signal[c].state = "pending" \/ signal[c].expired)

\* o is in the drain, past the check for active children, or about to begin one.
Listening(o) == listener[o].at = "idle" /\ (listener[o].acked \/ ~Blocked(o))

ClaimSignal(o) ==
    /\ Listening(o)
    /\ parent.state # "ended"
    /\ \E c \in Children :
          /\ SignalIsDue(c)
          /\ signal' = [signal EXCEPT ![c].state = "claimed", ![c].owner = o,
                                      ![c].epoch = @ + 1, ![c].expired = FALSE]
          /\ listener' = [listener EXCEPT ![o].at = "ack", ![o].on = c,
                                          ![o].epoch = signal'[c].epoch]
    /\ UNCHANGED <<faults, parent, child, told, taken, lost>>

\* claim_next_child_signal of a parent that has ended: the oldest signal is acked
\* at once, claimed or not, and its input quarantined.
QuarantineSignal(o) ==
    /\ Listening(o)
    /\ parent.state = "ended"
    /\ \E c \in Children :
          /\ IsOldest(c)
          /\ signal' = [signal EXCEPT ![c].state = "acked"]
          /\ told' = Append(told, c)
    /\ UNCHANGED <<faults, parent, child, taken, listener, lost>>

\* The signal still is the one o has claimed.  Its expiry is compared with the
\* time of the claim, so that a claim that has only lapsed is good.
HoldsSignal(o) ==
    LET row == signal[listener[o].on]
    IN  row.state = "claimed" /\ row.owner = o /\ row.epoch = listener[o].epoch

\* Faulty: whoever has claimed the signal may ack it.
CanAckAnySignal(o) ==
    parent.state \in {"waiting", "queued", "running"}

CanAckSignal(o) ==
    HoldsSignal(o) /\ parent.state \in {"waiting", "queued", "running"}

\* ack_child_signal_and_commit_parent_progress.  A conflict ends the drain: the
\* wakes for the signals acked before in the same drain are lost with it.
AckSignal(o) ==
    /\ listener[o].at = "ack"
    /\ IF CanAckSignal(o)
       THEN /\ signal' = [signal EXCEPT ![listener[o].on].state = "acked"]
            /\ told' = Append(told, listener[o].on)
            /\ parent' = [parent EXCEPT !.state = IF @ = "waiting" THEN "queued" ELSE @]
            /\ listener' = [listener EXCEPT ![o].at = "idle", ![o].acked = TRUE]
            /\ UNCHANGED lost
       ELSE /\ listener' = [listener EXCEPT ![o].at = "dead"]
            /\ lost' = (lost \/ listener[o].acked)
            /\ UNCHANGED <<parent, signal, told>>
    /\ UNCHANGED <<faults, child, taken>>

\* _activate and _schedule.
Woken(o) == [parent EXCEPT !.holder = o, !.drive = "scheduled",
                           !.state = IF @ = "queued" THEN "running" ELSE @]

\* The drain wakes the parent.  A parent another kernel holds is left to that
\* kernel, which learns nothing of it, and a drive under way is left alone; it
\* looks for inputs again only if it has claimed one.
WakeParent(o) ==
    /\ listener[o].at = "idle" /\ listener[o].acked
    /\ \A c \in Children : ~SignalIsDue(c)
    /\ listener' = [listener EXCEPT ![o].acked = FALSE]
    /\ parent' = IF parent.state = "ended" THEN parent
                 ELSE IF parent.holder = NoOwner THEN Woken(o)
                 ELSE IF parent.holder = o /\ parent.drive = "none"
                      THEN [parent EXCEPT !.drive = "scheduled"]
                 ELSE parent
    /\ lost' = \/ lost
               \/ InputLeft /\ parent.holder \notin {o, NoOwner} /\ parent.drive = "none"
               \/ InputLeft /\ parent.drive = "driver" /\ ~parent.claimed
    /\ UNCHANGED <<faults, child, signal, told, taken>>

SignalWorkedOn(c) == \E o \in Owners : listener[o].at = "ack" /\ listener[o].on = c /\ HoldsSignal(o)

\* claim_expires_at is reached.
SignalLapses(c) ==
    /\ signal[c].state = "claimed" /\ ~signal[c].expired
    /\ signal' = [signal EXCEPT ![c].expired = TRUE]
    /\ Lapses(SignalWorkedOn(c))
    /\ UNCHANGED <<parent, child, told, taken, listener, lost>>

-----------------------------------------------------------------------------
(* The parent.                                                             *)

\* _drive: the oldest input is claimed; without one a waiting parent is left
\* alone, its lease kept.
DriveParent(o) ==
    /\ parent.drive = "scheduled" /\ parent.holder = o
    /\ parent' = IF parent.state = "cancel_requested"
                 THEN EndedParent
                 ELSE IF parent.state = "waiting" /\ ~InputLeft
                 THEN [parent EXCEPT !.drive = "none"]
                 ELSE [parent EXCEPT !.drive = "driver", !.claimed = InputLeft]
    /\ lost' = FALSE
    /\ UNCHANGED <<faults, child, signal, told, taken, listener>>

\* Faulty: the parent is not driven again after it has answered an input.
AfterAnswerIdle == "none"

\* After an answered input the Run is scheduled again: _reschedule.
AfterAnswer == "scheduled"

\* The driver returns: the parent waits, and an input it had claimed is acked ...
ParentWaits(o) ==
    /\ parent.drive = "driver" /\ parent.holder = o
    /\ parent' = [parent EXCEPT !.state = "waiting", !.claimed = FALSE,
                                !.drive = IF parent.claimed THEN AfterAnswer ELSE "none"]
    /\ taken' = IF parent.claimed THEN taken + 1 ELSE taken
    /\ UNCHANGED <<faults, child, signal, told, listener, lost>>

\* ... or the parent ends, and what is left is quarantined.
ParentEnds(o) ==
    /\ \/ parent.drive = "driver" /\ parent.holder = o
       \/ parent.state = "cancel_requested" /\ parent.holder \in {o, NoOwner}
    /\ parent' = EndedParent
    /\ UNCHANGED <<faults, child, signal, told, taken, listener, lost>>

CancelParent ==
    /\ parent.state \notin {"cancel_requested", "ended"}
    /\ parent' = [parent EXCEPT !.state = "cancel_requested"]
    /\ UNCHANGED <<faults, child, signal, told, taken, listener, lost>>

-----------------------------------------------------------------------------
(* Restart.                                                                *)

\* The process of o dies and is started again.  A parent it held can be recovered
\* unless it was waiting.  Its lease is gone at once: that _activate of another kernel
\* conflicts until the TTL is over is left out, the loss of that wake is `lost`.
ListenerDies(o) ==
    /\ listener' = [listener EXCEPT ![o] = [IdleListener(AnyChild) EXCEPT !.at =
                        IF parent.state = "ended" THEN "idle" ELSE "starting"]]
    /\ child' = [c \in Children |-> IF child[c].home = o THEN [child[c] EXCEPT !.home = NoOwner]
                                                         ELSE child[c]]
    /\ parent' = IF parent.holder = o
                 THEN [parent EXCEPT !.holder = NoOwner, !.drive = "none", !.claimed = FALSE]
                 ELSE parent
    /\ lost' = \/ lost
               \/ InputLeft /\ parent.holder = o /\ parent.state = "waiting"
               \/ listener[o].acked /\ parent.holder # o
    /\ UNCHANGED <<signal, told, taken>>

\* recover at startup.  A parent another kernel holds is recovered by that kernel
\* when its time comes.
RecoverParent(o) ==
    /\ listener[o].at = "starting"
    /\ listener' = [listener EXCEPT ![o].at = "idle"]
    /\ parent' = IF /\ parent.state \in {"queued", "running", "cancel_requested"}
                    /\ parent.holder = NoOwner
                 THEN Woken(o) ELSE parent
    /\ UNCHANGED <<faults, child, signal, told, taken, lost>>

ListenerStep(o) ==
    \/ ClaimSignal(o)
    \/ QuarantineSignal(o)
    \/ AckSignal(o)
    \/ WakeParent(o)
    \/ RecoverParent(o)
    \/ DriveParent(o)

ChildNext(C) ==
    \/ \E o \in Owners : ListenerStep(o) \/ ParentWaits(o) \/ ParentEnds(o)
    \/ \E o \in Owners, c \in C : LaunchChild(o, c) \/ DriveChild(o, c)
    \/ \E c \in C : EndChild(c) \/ ChildTaskDone(c) \/ SignalLapses(c)
    \/ CancelParent

-----------------------------------------------------------------------------
(* Properties.                                                             *)

ChildTypeOK ==
    /\ parent \in [state : {"running", "waiting", "queued", "cancel_requested", "ended"},
                   holder : Owners \cup {NoOwner}, drive : {"none", "scheduled", "driver"},
                   claimed : BOOLEAN]
    /\ child \in [Children -> [state : {"none", "active", "ended"}, home : Owners \cup {NoOwner}]]
    /\ signal \in [Children -> [state : {"none", "pending", "claimed", "acked"}, at : Nat,
                                owner : Owners \cup {NoOwner}, epoch : Nat, expired : BOOLEAN]]
    /\ told \in Seq(Children) /\ taken \in 0..Len(told)
    /\ listener \in [Owners -> [at : {"idle", "ack", "starting", "dead"}, on : Children,
                                epoch : Nat, acked : BOOLEAN]]
    /\ lost \in BOOLEAN

Signalled == {c \in Children : signal[c].state # "none"}

\* Signals are numbered from 1 in the order the children ended; those the parent
\* was told of come first, and only the next one is ever claimed.
SignalsNumbered ==
    /\ \A c \in Children : child[c].state # "ended" => signal[c].state = "none"
    /\ \A c \in Signalled :
          /\ signal[c].at \in 1..Cardinality(Signalled)
          /\ \A d \in Signalled : signal[d].at = signal[c].at => d = c
          /\ signal[c].state = "acked" <=> signal[c].at <= Len(told)
          /\ signal[c].state = "claimed" => signal[c].at = Len(told) + 1
    /\ \A i \in 1..Cardinality(Signalled) : \E c \in Signalled : signal[c].at = i

\* A driver that has claimed an input has one that is not acked.
ClaimedInputIsLeft == parent.claimed => InputLeft

\* The parent is told of every child once, in the order the children
\* ended, although several kernels claim the signals, claims lapse, and the
\* parent may end meanwhile.
ToldInOrder ==
    /\ \A i \in 1..Len(told) : signal[told[i]].state = "acked" /\ signal[told[i]].at = i
    /\ Len(told) = Cardinality({c \in Children : signal[c].state = "acked"})

\* When no child is driven any more, again and again the parent has been told of
\* every child that has ended, unless every wake drain has died of a
\* conflict.  (A kernel leaves the signals alone while it drives a child.)
EverySignalArrives ==
    []<>(\/ \A c \in Children : signal[c].state \notin {"pending", "claimed"}
         \/ \A o \in Owners : listener[o].at = "dead"
         \/ \E c \in Children : child[c].home # NoOwner)

\* A parent that was told is driven until it has taken the input.  The exceptions
\* (lost) are the ways its wake is forgotten: another kernel than the one that
\* acked holds the parent, its drive was under way without an input, the drain
\* died after it had acked, and the parent was waiting when its process died.
ToldParentIsDriven ==
    []<>(\/ ~InputLeft \/ lost
         \/ parent.drive = "driver" \/ parent.state \in {"cancel_requested", "ended"})

=============================================================================
