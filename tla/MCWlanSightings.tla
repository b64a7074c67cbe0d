-------------------------- MODULE MCWlanSightings --------------------------
(* WlanSightings for TLC: two access points, one station, two channels and *)
(* a retention of two ticks.                                               *)
EXTENDS WlanSightings, TLC
Symmetry == Permutations(Bssids)
=============================================================================
