------------------------------ MODULE MCPanel ------------------------------
(* Instances of Panel for TLC.                                             *)
EXTENDS Panel, TLC

\* Emulators are interchangeable, and so are profiles.
Symmetry == Permutations(Serials) \cup Permutations(Players)
=============================================================================
