--------------------------- MODULE MCReservations ---------------------------
(* Instances of Reservations for TLC.                                      *)
EXTENDS Reservations, TLC

\* Profiles are interchangeable, and so are the games' credentials.
Symmetry == Permutations(Players) \cup Permutations(Credentials)
=============================================================================
