---------------------------- MODULE MCProgression ----------------------------
(* Instances of Progression for TLC.                                       *)
EXTENDS Progression, TLC

CONSTANTS p1, p2, f1, c1, collector, winner

\* One player opens the feed, which shows packs of another: one with both
\* cards, of which the hash picks the cheap one, and one with that card only.
FeedOwner == [f \in Feeds |-> p2]
FeedCards == [f \in Feeds |-> IF f = f1 THEN Cards ELSE {c1}]
FeedDraw == [p \in Players |-> [f \in Feeds |-> c1]]
CardPrice == [c \in Cards |-> IF c = c1 THEN 1 ELSE 2]
TrophyCounters == [t \in Trophies |-> IF t = collector THEN "card" ELSE "wins"]
TrophyAmounts == [t \in Trophies |-> IF t = collector THEN <<3, 4>> ELSE <<1, 3>>]
Pays == <<1, 2>>
LevelExp == [l \in 2..3 |-> l - 1]

Mix(kinds, players, calls, time) ==
  [kinds |-> kinds, players |-> players, calls |-> calls, time |-> time]

\* What touches the same state is served together.
Mixed == {
  Mix({"friend", "favorite"}, Players, 1, 0),
  Mix({"gift"}, Players, 1, 3),
  Mix({"thank"}, {p1, p2}, 2, 1),
  Mix({"feed", "heal"}, {}, 2, 1),
  Mix({"gift", "count", collector}, {p1, p2}, 2, 1),
  Mix({"gift", "count", "sync"}, {p1, p2}, 2, 2),
  Mix({"battle", "count", winner}, {}, 2, 0),
  Mix({"cards", "tutorial", "level", "mission"}, {}, 2, 0)}

Symmetry == Permutations(Calls)
=============================================================================
