---------------------------- MODULE StateMirror ----------------------------
(* What a client that follows the game may show of it (server/README.md,   *)
(* "monotonic revisions"): the states the server serves come one after the *)
(* other, and a client jumps forward along them, never back.  It leaves    *)
(* only for an ending at least as new as what it shows.                    *)
EXTENDS Naturals, Sequences

VARIABLES
  states,  \* what the server has served, in order: "playing" or "over"
  shown,   \* index of the state the client shows, 0 before the first
  left     \* has the client quit?

vars == <<states, shown, left>>

Kinds == {"playing", "over"}

Init == states = <<"playing">> /\ shown = 0 /\ left = FALSE

Change ==
  /\ \E kind \in Kinds : states' = Append(states, kind)
  /\ UNCHANGED <<shown, left>>

Show ==
  /\ ~left
  /\ shown' \in (shown + 1)..Len(states)
  /\ UNCHANGED <<states, left>>

Leave ==
  /\ ~left
  /\ \E v \in shown..Len(states) : v > 0 /\ states[v] = "over"
  /\ left' = TRUE
  /\ UNCHANGED <<states, shown>>

Next == Change \/ Show \/ Leave

Spec == Init /\ [][Next]_vars
=============================================================================
