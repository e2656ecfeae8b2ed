----------------------------- MODULE InputQueue -----------------------------
(***************************************************************************)
(* What a player may expect of the keys typed ahead: accepted keys are     *)
(* carried out one at a time and in the order they were typed, each at     *)
(* most once, and none is begun after the game has been asked to end.      *)
(***************************************************************************)
EXTENDS Integers, Sequences

CONSTANT Room      \* keys that may wait

VARIABLES
  newest,    \* the number of the last key
  waiting,   \* keys accepted and not begun
  serving,   \* the key being carried out, 0 for none
  done,      \* keys the game has carried out
  closed     \* has the game been asked to end?

vars == <<newest, waiting, serving, done, closed>>

Init == newest \in Nat /\ waiting = <<>> /\ serving = 0 /\ done = <<>> /\ ~closed

\* A key is begun at once if nothing is, else it waits; a full queue refuses.
Accept ==
  /\ ~closed /\ newest' > newest
  /\ \/ /\ serving = 0 /\ waiting = <<>>
        /\ serving' = newest'
        /\ UNCHANGED waiting
     \/ /\ serving # 0 /\ Len(waiting) < Room
        /\ waiting' = Append(waiting, newest')
        /\ UNCHANGED serving
  /\ UNCHANGED <<done, closed>>

\* A key that means something else.
Other == newest' > newest /\ UNCHANGED <<waiting, serving, done, closed>>

Carry ==
  /\ serving # 0
  /\ \A i \in DOMAIN done : done[i] < serving
  /\ done' = Append(done, serving)
  /\ UNCHANGED <<newest, waiting, serving, closed>>

\* Carried out or given up.
Finish ==
  /\ serving # 0
  /\ IF closed \/ waiting = <<>>
       THEN serving' = 0 /\ UNCHANGED waiting
       ELSE serving' = Head(waiting) /\ waiting' = Tail(waiting)
  /\ UNCHANGED <<newest, done, closed>>

\* What waits is forgotten when the player asks for the end.
Close ==
  /\ ~closed /\ closed' = TRUE
  /\ waiting' \in {<<>>, waiting}
  /\ UNCHANGED <<newest, serving, done>>

Reopen ==
  /\ closed /\ closed' = FALSE
  /\ waiting = <<>> /\ serving = 0
  /\ UNCHANGED <<newest, waiting, serving, done>>

Next == Accept \/ Other \/ Carry \/ Finish \/ Close \/ Reopen

Spec == Init /\ [][Next]_vars
=============================================================================
