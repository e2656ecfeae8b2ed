--------------------------------- MODULE Grid ---------------------------------
(***************************************************************************)
(* The cells of a dungeon level, <<x, y>>, and what steps along the axes   *)
(* reach (neighborsWithoutDiag in worldUtil.ts).                           *)
(***************************************************************************)
EXTENDS Integers, FiniteSets

Beside(c) == {<<c[1] - 1, c[2]>>, <<c[1] + 1, c[2]>>, <<c[1], c[2] - 1>>, <<c[1], c[2] + 1>>}

\* What is reached from "start" inside "free".
Reached(free, start) ==
  LET reach[n \in 0..Cardinality(free)] ==
        IF n = 0 THEN {start}
        ELSE LET r == reach[n - 1]
                 more == free \cap UNION {Beside(c) : c \in r}
             IN  IF more \subseteq r THEN r ELSE r \cup more
  IN  reach[Cardinality(free)]
=============================================================================
