----------------------------- MODULE PumpFaults -----------------------------
(***************************************************************************)
(* What the pumps of a kernel have in common: they run in every process of *)
(* the deployment over the same tables, they claim a row for a time and    *)
(* work on it outside any transaction.  What the code must survive, a      *)
(* crash, a claim that lapses while its holder still works on it, a host   *)
(* port that fails, counts as a fault; a behaviour has a bounded number.   *)
(***************************************************************************)
EXTENDS Naturals, FiniteSets

CONSTANTS Owners,    \* the processes (owner_id)
          NoOwner    \* NULL

ASSUME PumpConstants ==
    /\ IsFiniteSet(Owners) /\ Owners # {}
    /\ NoOwner \notin Owners

VARIABLES faults,    \* faults so far
          maxFaults  \* bound: faults of this behaviour, fixed at its beginning

\* Something goes wrong.
Fault == faults < maxFaults /\ faults' = faults + 1

\* Nothing goes wrong.
NoFault == UNCHANGED faults

\* A claim lapses: by the mere passing of time when nobody works on it any
\* more, by a fault (a stalled process, a slow sink) when somebody does.
Lapses(beingWorkedOn) == IF beingWorkedOn THEN Fault ELSE NoFault

=============================================================================
