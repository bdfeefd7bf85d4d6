--------------------------- MODULE MCMapPresence ---------------------------
(***************************************************************************)
(* An instance of MapPresence for TLC: two maps whose exits, on cell 2,    *)
(* lead to cell 1 of each other.  A path leads from the other cells to the *)
(* exit; who is stopped on the way stands on cell 3, or on the exit.  With *)
(* ThreeCharacters one player has two of them, which is too much for the   *)
(* liveness property: for a run of the invariants alone, with two cells.   *)
(***************************************************************************)
EXTENDS MapPresence

CONSTANTS p1, p2, c1, c2, c3, m1, m2

TwoPlayers == {p1, p2}
TwoCharacters == {c1, c2}
ThreeCharacters == {c1, c2, c3}
Owners == [p \in Player |-> IF p = p2 THEN {c2} ELSE Character \ {c2}]
TwoMaps == {m1, m2}
ToExit == [at \in Place |-> IF at.cell = 2 THEN {} ELSE {2}]
Exits ==
    [at \in {a \in Place : a.cell = 2} |->
        [map |-> IF at.map = m1 THEN m2 ELSE m1, cell |-> 1]]
=============================================================================
