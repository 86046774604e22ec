----------------------------- MODULE FifoQueue -----------------------------
(***************************************************************************)
(* What the continuation inputs of a Run promise: inputs are numbered in   *)
(* the order they are accepted, answered one at a time in that order, each *)
(* at most once, and whatever is still open when the Run ends is dropped   *)
(* together with it.                                                       *)
(***************************************************************************)
EXTENDS Naturals

CONSTANT MaxInputs  \* bound: inputs accepted

VARIABLES last,     \* the number of the last accepted input
          open,     \* the accepted inputs that are neither answered nor dropped
          answered  \* the answered inputs

Init == last = 0 /\ open = {} /\ answered = {}

Accept ==
    /\ last < MaxInputs
    /\ last' = last + 1
    /\ open' = open \cup {last'}
    /\ UNCHANGED answered

\* The oldest open input is answered, and the others stay open ...
Answer ==
    \E i \in open :
        /\ \A j \in open : i <= j
        /\ answered' = answered \cup {i}
        /\ open' \in {open \ {i}, {}}     \* ... or the Run ends with the answer.
        /\ UNCHANGED last

Drop == open' = {} /\ UNCHANGED <<last, answered>>

Next == Accept \/ Answer \/ Drop

Spec == Init /\ [][Next]_<<last, open, answered>>

=============================================================================
