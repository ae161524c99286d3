------------------------------ MODULE MCGateway ------------------------------
(* Token files of up to two lines, with every fault a line can have, and two *)
(* of three lines: a rotated token, and a conflict behind another pair.      *)
EXTENDS Gateway

CONSTANTS t1, t2, alice, bob

MCCallers == {alice, bob}

Pair(token, caller) == [is |-> "pair", token |-> token, caller |-> caller]

Good == {Pair(t1, alice), Pair(t1, bob), Pair(t2, alice), Pair(t2, bob)}

Faulty == {Pair(Empty, alice), Pair(t1, Empty), Pair(t1, Local), [is |-> "other"]}

Lines == Good \cup Faulty \cup {[is |-> "blank"]}

MCFiles ==
  {<<>>} \cup [1..1 -> Lines] \cup {<<Pair(t1, alice), l>> : l \in Lines}
    \cup {<<[is |-> "blank"], Pair(t1, alice), l>> : l \in {Pair(t2, alice), Pair(t2, bob)}}
    \cup {<<Pair(t1, alice), Pair(t2, bob), l>> : l \in {Pair(t1, bob), Pair(t1, alice)}}
=============================================================================
