--------------------------- MODULE MCSessionCycle ---------------------------
(***************************************************************************)
(* Two instances of SessionCycle.  The first has the constants of the      *)
(* source: two neighbouring pages and the last page of guest memory, with  *)
(* all their ancestors.  The second is a scaled-down tree whose prices hit *)
(* the limit exactly.                                                      *)
(***************************************************************************)
EXTENDS SessionCycle

MCUserPage == {1, 2, 196608}
MCPage == {1, 2, 196608, 212992, 219136, 219648, 219840, 219856, 219862}

(* SHA ecalls of 7000 and 14343 blocks (73 cycles each): two of the first  *)
(* fit into a segment, the second kind into none.                          *)
MCStepCycles == {511000, 1047039}

SmallUserPage == {1, 2}
SmallPage == {1, 2, 8, 9, 12, 14, 15}
SmallStepCycles == {1, 3}
=============================================================================
