--------------------------- MODULE MCKernelPumps ---------------------------
(* Two kernels and their pumps, one kind of work at a time; what may go     *)
(* wrong is a lapse of a claim that is worked on, or the death of a kernel. *)
EXTENDS KernelPumps

CONSTANTS a, b, go, more, stop, said, k1, k2, p1, p2, p3

\* One call needs the whole pool, the others share it.
CallWeight == [c \in Calls |-> IF c = p1 THEN 2 ELSE 1]

\* Commands in every order; a Run with deliveries; a Run with a committed turn; a
\* parent with children; Provider calls that share the capacity.
NoLoad == [commands |-> {}, deliveries |-> {}, turns |-> {}, children |-> {},
           calls |-> {}, run |-> "active", faults |-> 2]
SmallWorkloads ==
    { [NoLoad EXCEPT !.commands = Commands, !.run = "absent", !.faults = 1],
      [NoLoad EXCEPT !.deliveries = Deliveries, !.faults = 3],
      [NoLoad EXCEPT !.turns = Turns, !.commands = {go}, !.run = "absent"],
      [NoLoad EXCEPT !.children = Children, !.faults = 1],
      [NoLoad EXCEPT !.calls = {<<a, p1>>, <<a, p2>>, <<b, p3>>}, !.faults = 1] }

=============================================================================
