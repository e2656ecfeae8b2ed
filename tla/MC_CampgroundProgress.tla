----------------------- MODULE MC_CampgroundProgress -----------------------
(* Small instances of CampgroundProgress for TLC.                          *)
EXTENDS CampgroundProgress

OneWater == {"water"}
Errands  == Keyed \union OneWater
AHammer  == {"otherHammer"}
None     == {}
=============================================================================
