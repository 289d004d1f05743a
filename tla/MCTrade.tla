------------------------------- MODULE MCTrade -------------------------------
(* An instance of Trade for TLC.                                           *)
EXTENDS Trade, TLC

\* A behaviour has requests of one of these sets of kinds, and so many
\* sessions: settings and heals beside one trade, or two trades.
VARIABLE mix

Mixes == {[kinds |-> Kinds \ {"heal", "settings"}, sessions |-> 2],
          [kinds |-> Kinds \ {"deposit"}, sessions |-> 1]}

Within ==
  /\ \A r \in Calls : call[r] = NoCall \/ call[r].kind \in mix.kinds
  /\ Cardinality({i \in Ids : session[i] # NoSession}) <= mix.sessions

MCInit == Init /\ mix \in Mixes
MCNext == Next /\ UNCHANGED mix /\ Within'
MCSpec == MCInit /\ [][MCNext]_<<vars, mix>>

\* Profiles, cards, session ids and requests are interchangeable.
Symmetry == Permutations(Players) \cup Permutations(Cards)
            \cup Permutations(Ids) \cup Permutations(Calls)
=============================================================================
