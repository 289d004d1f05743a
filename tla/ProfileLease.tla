---------------------------- MODULE ProfileLease ----------------------------
(***************************************************************************)
(* What the account reservations promise, without tables, sessions or      *)
(* processes: a profile is leased to at most one emulator, an emulator     *)
(* holds at most one lease, and a profile is played (a game request is     *)
(* accepted for it) only on the emulator that holds its lease at that      *)
(* moment.  README.md:121: "Each profile can be used on only one device at *)
(* a time."  Reservations and Panel implement this specification.          *)
(***************************************************************************)

CONSTANTS Serials,  \* the managed emulators
          Players,  \* the profiles
          Nobody    \* the holder of a profile nobody plays

VARIABLES holder,   \* holder[p]: the emulator profile p is leased to
          played    \* the last accepted game request, <<emulator, profile>>

leaseVars == <<holder, played>>

Init == /\ holder = [p \in Players |-> Nobody]
        /\ played = <<>>

\* Lease p to s, which gives up whatever it held.  A lease is never taken
\* from another emulator.
Acquire(s, p) ==
  /\ holder[p] \in {Nobody, s}
  /\ holder' = [q \in Players |-> IF q = p THEN s
                                  ELSE IF holder[q] = s THEN Nobody
                                  ELSE holder[q]]
  /\ UNCHANGED played

Release(s) ==
  /\ holder' = [q \in Players |-> IF holder[q] = s THEN Nobody ELSE holder[q]]
  /\ UNCHANGED played

Play(s, p) ==
  /\ holder[p] = s
  /\ played' = <<s, p>>
  /\ UNCHANGED holder

Next == \E s \in Serials : \/ Release(s)
                           \/ \E p \in Players : Acquire(s, p) \/ Play(s, p)

Spec == Init /\ [][Next]_leaseVars
=============================================================================
