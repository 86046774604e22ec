--------------------------- MODULE OneShotEffect ---------------------------
(***************************************************************************)
(* What the effect ledger promises of one Tool call, whoever executes it   *)
(* and however often its executors fail: the call's side effect happens at *)
(* most once, and the call is answered at most once, for good, never with  *)
(* success before its side effect has happened.                            *)
(***************************************************************************)
CONSTANT Attempts,   \* the names under which the side effect can be caused
         Answers     \* the final answers; "succeeded" is one of them

VARIABLES happened,  \* the attempts whose side effect has happened
          answer     \* the final answer, "none" before it

Init == happened = {} /\ answer = "none"

\* The side effect happens, under one attempt.
Happen ==
    /\ happened = {}
    /\ \E k \in Attempts : happened' = {k}
    /\ UNCHANGED answer

\* The call is answered.
Answer ==
    /\ answer = "none"
    /\ answer' \in Answers
    /\ answer' = "succeeded" => happened # {}
    /\ UNCHANGED happened

Next == Happen \/ Answer

Spec == Init /\ [][Next]_<<happened, answer>>

=============================================================================
