------------------------------ MODULE CardSwap ------------------------------
(***************************************************************************)
(* What a trade promises, without sessions, deposits or requests: two      *)
(* players swap one card each in a single step, or nothing happens, and a  *)
(* player swaps only a card it has a second copy of ("trader must retain   *)
(* one copy", internal/store/trade_sessions.go:321).  A card deposited in  *)
(* an open trade still counts as its owner's.  Trade implements this.      *)
(***************************************************************************)
EXTENDS Naturals

CONSTANTS Players, Cards, Copies

VARIABLE holding  \* holding[p][c]: copies of card c that are player p's

Init == holding = [p \in Players |-> [c \in Cards |-> Copies]]

\* p gives c to q and gets d.
Swap(p, q, c, d) ==
  /\ holding[p][c] > 1 /\ holding[q][d] > 1
  /\ LET given == [holding EXCEPT ![p][c] = @ - 1, ![q][d] = @ - 1]
     IN holding' = [given EXCEPT ![p][d] = @ + 1, ![q][c] = @ + 1]

Next == \E p, q \in Players, c, d \in Cards : p # q /\ Swap(p, q, c, d)

Spec == Init /\ [][Next]_holding
=============================================================================
