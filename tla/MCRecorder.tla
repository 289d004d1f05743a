---------------------------- MODULE MCRecorder ----------------------------
(* An instance of Recorder for TLC.                                        *)
EXTENDS Recorder, TLC

\* Pages and requests are interchangeable.
Symmetry == Permutations(Exchanges) \cup Permutations(Streams)
=============================================================================
