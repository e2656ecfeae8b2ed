---------------------- MODULE MC_CampgroundAtmosphere ----------------------
(* Instances of CampgroundAtmosphere: a road from the gate past the temple to *)
(* a crossing of two hosts, and the way down from there.                      *)
EXTENDS CampgroundAtmosphere

Places == {"arrival", "temple", "dusty-spoon", "patch-bay"}

ASpots == {"gate", "crossing", "tunnel", "deep"}
ASteps ==
  [gate |-> {"gate", "crossing"}, crossing |-> {"gate", "crossing", "tunnel"},
   tunnel |-> {"crossing", "tunnel", "deep"}, deep |-> {"tunnel"}]
ALevel == [gate |-> 0, crossing |-> 0, tunnel |-> 1, deep |-> 2]
ADistance ==
  LET far == [q \in Places |-> 99]
  IN  [gate |-> [far EXCEPT !["arrival"] = 2, !["dusty-spoon"] = 14],
       crossing |-> [far EXCEPT !["dusty-spoon"] = 3, !["patch-bay"] = 2, !["temple"] = 12],
       tunnel |-> far, deep |-> far]
ALandmarks == <<"arrival", "temple">>
ACamps == <<"dusty-spoon", "patch-bay">>
AProgramme ==
  {[kind |-> "meal", host |-> "dusty-spoon"], [kind |-> "workshop", host |-> "patch-bay"]}
DaysAlone ==
  {[turns |-> 9, games |-> 1, looks |-> 0], [turns |-> 4, games |-> 2, looks |-> 3]}
AQuietDay == {[turns |-> 6, games |-> 1, looks |-> 0]}
OneLine(zone) == 1
FourLines(zone) == 4
=============================================================================
