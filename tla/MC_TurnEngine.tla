---------------------------- MODULE MC_TurnEngine ----------------------------
(* A strip of campground for TLC: a road with a shoulder beside it, a wall   *)
(* and a door on the shoulder, stairs at the west end and two cells below.   *)
EXTENDS TurnEngine

CONSTANTS you, ann, bob

RoadRow   == {<<x, 0, 0>> : x \in 1..(Width - 1)}
OneWall   == {<<3, 1, 0>>, <<5, 1, 0>>}
OneDoor   == {<<2, 1, 0>>}
Below     == {<<1, 1, 1>>, <<2, 1, 1>>}
Top       == <<0, 0, 0>>
Bottom    == <<1, 1, 1>>
Landing   == <<2, 1, 1>>
Names     == <<ann, bob>>
Roles     == ann :> "resident" @@ bob :> "traveler"
Homes     == ann :> <<4, 1, 0>> @@ bob :> <<3, 0, 0>>
StopsOf   == ann :> {} @@ bob :> {<<1, 0, 0>>, <<5, 0, 0>>}
Entrances == {<<4, 0, 0>>}
=============================================================================
