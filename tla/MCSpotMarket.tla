---------------------------- MODULE MCSpotMarket -----------------------------
(***************************************************************************)
(* A small account for TLC: drivers are interchangeable, and so are zones. *)
(***************************************************************************)
EXTENDS SpotMarket, TLC

Symmetry == Permutations(Drivers) \cup Permutations(Zones)
==============================================================================
