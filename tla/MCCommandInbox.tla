--------------------------- MODULE MCCommandInbox ---------------------------
(* Instances of CommandInbox for TLC. *)
EXTENDS CommandInbox

CONSTANTS c1, c2, c3, q1, q2, q3

AddressOf == [q \in {q1, q2, q3} |-> IF q = q2 THEN 2 ELSE 1]

(* Two starts and a stop that cross each other. *)
Crossing == {[starts |-> {c1, c2}, stops |-> {c3}, asks |-> {q1, q2}, defers |-> FALSE]}

(* A start alone, with more requests than places at the gate; then one     *)
(* whose handlers defer, with a shutdown.                                  *)
ThreeScenes == Crossing \union
    {[starts |-> {c1}, stops |-> {}, asks |-> {q1, q2, q3}, defers |-> FALSE],
     [starts |-> {c1}, stops |-> {}, asks |-> {q1, q2}, defers |-> TRUE]}
=============================================================================
