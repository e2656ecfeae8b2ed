--------------------------- MODULE MC_LevelGeneration ---------------------------
EXTENDS LevelGeneration

LOCAL Pick(low, high, up) == IF up THEN high ELSE low

\* Extremes of the radii and the centre, so that each two of the six take every
\* combination of their extremes, and the middle of all.
AFewGeometries ==
  { [cx |-> Pick(176, 184, a), cy |-> Pick(78, 82, b), mx |-> Pick(118, 124, c),
     my |-> Pick(46, 49, a = b), ix |-> Pick(58, 62, a = c), iy |-> Pick(28, 30, b = c)] :
      a \in BOOLEAN, b \in BOOLEAN, c \in BOOLEAN }
  \cup {[cx |-> 180, cy |-> 80, mx |-> 121, my |-> 47, ix |-> 60, iy |-> 29]}

TwoShuffles == {<<7, 13, 101>>, <<31, 3, 97>>}
TwoDraws == {1, 2}
=============================================================================
