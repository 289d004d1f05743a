---------------------------- MODULE Progression ----------------------------
(***************************************************************************)
(* What players are rewarded for (internal/store/action_states.go,         *)
(* trophies.go, progression.go, tutorial.go and activities.go, called by   *)
(* internal/player/manager.go and action_projection.go), on top of what    *)
(* they do (Social): counted actions, trophies, missions, tutorials,       *)
(* levels and solo battles.                                                *)
(*                                                                         *)
(* A handler counts an action in a transaction after that of the action    *)
(* itself.  What the player owns is counted too, but projected: read, then *)
(* written where it exceeds the count.  Both write the row of the game day *)
(* they fall on, and the row of the latest day is the total.  Completing a *)
(* trophy and the client's synchronisation project first; a trophy and a   *)
(* level are checked against what was read before their transactions.      *)
(*                                                                         *)
(* Targets of a counter (a friend, an expansion, a type) are left out, but *)
(* wins are counted per battle and their sum is projected.  Also left out: *)
(* tries, rental decks, event power, the starter inventory, and the one    *)
(* page of 1000 rows that a synchronisation is cut into.                   *)
(***************************************************************************)
EXTENDS Social

CONSTANTS Battles,      \* solo battles
          Runs,         \* battle session tokens
          MaxWins,      \* bound on the wins counted when runs are finished again
          Trophies,
          Counted,      \* the counter of a trophy (trophyActionProgress)
          Amounts,      \* what each rank of a trophy requires
          Sand,         \* what each rank pays (BrightSandRewards)
          Missions,     \* missions and steps of mission groups
          Tutorials,    \* tutorial steps with a reward
          RequiredExp   \* of each level above the first

Ranks == DOMAIN Sand
Levels == DOMAIN RequiredExp

ASSUME ProgressionAssumption ==
  /\ IsFiniteSet(Ranks) /\ Ranks = 1..Cardinality(Ranks) /\ Sand \in [Ranks -> Nat]
  /\ Amounts \in [Trophies -> [Ranks -> Nat \ {0}]]
  /\ Counted \in [Trophies -> Keys \cup {"wins"}]
  /\ IsFiniteSet(Levels) /\ Levels = 2..(Cardinality(Levels) + 1)
  /\ RequiredExp \in [Levels -> Nat]
  /\ IsFiniteSet(Battles) /\ IsFiniteSet(Trophies)
  /\ IsFiniteSet(Missions) /\ IsFiniteSet(Tutorials)
  /\ None \notin Battles \cup Runs \cup Trophies /\ MaxWins \in Nat

Counters == Keys \cup Battles \cup {"wins"}
CountRow == [player : Players, key : Counters, day : Int, count : Nat \ {0}, at : Nat]

VARIABLES totals,     \* player_action_states: a row per player, key and day
          ranks,      \* player_trophies
          claimed,    \* player_missions and player_mission_group_steps
          tutorials,  \* player_tutorial_grants
          level,      \* player_level_histories ends with it
          rewarded,   \* history: how often a level's rewards were given
          dust,       \* SHINEDUST in player_currencies
          battle,     \* solo_battle_runs
          seen,       \* the client's copy of these rows,
          marks       \* and the times that synchronisations gave it

countVars == <<totals, seen, marks>>
rewardVars == <<ranks, claimed, tutorials, level, rewarded, dust>>
progressVars == <<countVars, rewardVars, battle>>
vars == <<mix, socialVars, progressVars, call, now>>

NoRun == [player |-> None, battle |-> None, won |-> FALSE, finished |-> FALSE]
ProjectionCall ==
  [pc : {"cards", "read", "wins", "check"}, player : Players,
   count : Nat, trophy : Trophies \cup {None}, rank : Ranks \cup {None}]
RewardCall ==
  [pc : {"complete"}, player : Players, trophy : Trophies, rank : Ranks]
    \cup [pc : {"level"}, player : Players, from : Nat, target : Nat]
    \cup [pc : {"finish"}, player : Players, run : Runs]

TypeOK ==
  /\ SocialTypeOK
  /\ totals \subseteq CountRow /\ seen \subseteq CountRow
  /\ ranks \in [Players -> [Trophies -> Ranks \cup {0}]]
  /\ claimed \in [Players -> SUBSET Missions]
  /\ tutorials \in [Players -> SUBSET Tutorials]
  /\ level \in [Players -> Levels \cup {1}]
  /\ rewarded \in [Players -> [Levels -> Nat]]
  /\ dust \in [Players -> Nat]
  /\ battle \in [Runs -> [player : Players, battle : Battles, won : BOOLEAN,
                          finished : BOOLEAN] \cup {NoRun}]
  /\ marks \in [Players -> SUBSET Nat]
  /\ call \in [Calls -> FavoriteCall \cup ThankCall \cup FeedCall
               \cup [pc : {"count"}, player : Players, key : Counters] \cup ProjectionCall \cup RewardCall \cup {NoCall}]

Init ==
  /\ SocialInit
  /\ totals = {} /\ seen = {}
  /\ ranks = [p \in Players |-> [t \in Trophies |-> 0]]
  /\ claimed = [p \in Players |-> {}]
  /\ tutorials = [p \in Players |-> {}]
  /\ level = [p \in Players |-> 1]
  /\ rewarded = [p \in Players |-> [l \in Levels |-> 0]]
  /\ dust = [p \in Players |-> 0]
  /\ battle = [i \in Runs |-> NoRun]
  /\ marks = [p \in Players |-> {}]

-----------------------------------------------------------------------------
(* Counts.                                                                 *)

RowsOf(p, c) == {x \in totals : x.player = p /\ x.key = c}
Today(p, c) == {x \in RowsOf(p, c) : x.day = GameDay}
Highest(rows) == Max({0} \cup {x.count : x \in rows})

\* LatestActionTotals: the row of the latest day.
Latest(p, c) ==
  Highest({x \in RowsOf(p, c) : \A y \in RowsOf(p, c) : y.day <= x.day})

\* Fault: a row keeps the time when it was inserted.
SetTotal_FirstTime(p, c, n) ==
  totals' = (totals \ Today(p, c))
    \cup {[player |-> p, key |-> c, day |-> GameDay, count |-> n,
            at |-> IF Today(p, c) = {} THEN now ELSE Min({x.at : x \in Today(p, c)})]}

SetTotal(p, c, n) ==
  totals' = (totals \ Today(p, c))
    \cup {[player |-> p, key |-> c, day |-> GameDay, count |-> n, at |-> now]}

\* The first of a day goes on from the highest of all days.
Added(p, c) == Highest(IF Today(p, c) # {} THEN Today(p, c) ELSE RowsOf(p, c)) + 1

\* AddAction, one transaction; the last step of many handlers.
AddAction(r) ==
  LET c == call[r] IN
  /\ c.pc = "count"
  /\ SetTotal(c.player, c.key, Added(c.player, c.key))
  /\ Proceed(r, NoCall)
  /\ UNCHANGED <<socialVars, seen, marks, rewardVars, battle>>

\* Fault: a projection writes what it read when that is another number.
Exceeds_Differs(p, c, n) == n # Highest(RowsOf(p, c))

Exceeds(p, c, n) == n > Highest(RowsOf(p, c))

\* ProjectActionTotals: "never decreases a total".
Project(p, c, n) == IF Exceeds(p, c, n) THEN SetTotal(p, c, n) ELSE UNCHANGED totals

\* projectInventoryActions reads the cards, for a synchronisation or a trophy,
ReadCards(r, p, t, k) ==
  /\ Begin(r, [pc |-> "cards", player |-> p, count |-> Total(owned[p]),
               trophy |-> t, rank |-> k])
  /\ UNCHANGED <<socialVars, progressVars>>

\* projects their number,
ProjectCards(r) ==
  LET c == call[r] IN
  /\ c.pc = "cards"
  /\ Project(c.player, "card", c.count)
  /\ Proceed(r, [c EXCEPT !.pc = "read", !.count = 0])
  /\ UNCHANGED <<socialVars, seen, marks, rewardVars, battle>>

\* reads the wins of each battle,
ReadWins(r) ==
  LET c == call[r] IN
  /\ c.pc = "read"
  /\ Proceed(r, [c EXCEPT !.pc = "wins",
                          !.count = Total([b \in Battles |-> Latest(c.player, b)])])
  /\ UNCHANGED <<socialVars, progressVars>>

\* and projects their sum.
ProjectWins(r) ==
  LET c == call[r] IN
  /\ c.pc = "wins"
  /\ Project(c.player, "wins", c.count)
  /\ Proceed(r, [c EXCEPT !.pc = "check", !.count = 0])
  /\ UNCHANGED <<socialVars, seen, marks, rewardVars, battle>>

\* The time the client asks with; the server gives it the newest one.
Mark(p) == Max({-1} \cup marks[p])

\* SyncStatesV1 returns the rows updated since the time the client has, and
\* the time of the newest, or the client's own when there is none.
SyncStates(r) ==
  LET p == call[r].player
      rows == {x \in totals : x.player = p /\ x.at > Mark(p)}
      known == {x \in seen : \E y \in rows : <<x.player, x.key, x.day>> = <<y.player, y.key, y.day>>}
  IN /\ call[r].pc = "check" /\ call[r].trophy = None
     /\ seen' = (seen \ known) \cup rows
     /\ marks' = [marks EXCEPT ![p] = @ \cup (IF rows = {} THEN {} ELSE {Max({x.at : x \in rows})})]
     /\ Proceed(r, NoCall)
     /\ UNCHANGED <<socialVars, totals, rewardVars, battle>>

-----------------------------------------------------------------------------
(* Rewards.                                                                *)

Pay(p, n) == dust' = [dust EXCEPT ![p] = @ + n]
SandOf(low, high) == Total([k \in low..high |-> Sand[k]])

\* CompleteTrophies checks the totals it reads,
CheckTrophy(r) ==
  LET c == call[r] IN
  /\ c.pc = "check" /\ c.trophy # None
  /\ Latest(c.player, Counted[c.trophy]) >= Amounts[c.trophy][c.rank]
  /\ Proceed(r, [pc |-> "complete", player |-> c.player, trophy |-> c.trophy, rank |-> c.rank])
  /\ UNCHANGED <<socialVars, progressVars>>

\* Fault: every rank up to the new one is paid.
RanksPaid_All(p, t, k) == SandOf(1, k)

RanksPaid(p, t, k) == SandOf(ranks[p][t] + 1, k)

\* and pays the ranks above the one it finds then.
CompleteTrophies(r) ==
  LET c == call[r] IN
  /\ c.pc = "complete"
  /\ c.rank > ranks[c.player][c.trophy]
  /\ Pay(c.player, RanksPaid(c.player, c.trophy, c.rank))
  /\ ranks' = [ranks EXCEPT ![c.player][c.trophy] = c.rank]
  /\ Proceed(r, NoCall)
  /\ UNCHANGED <<socialVars, countVars, claimed, tutorials, level, rewarded, battle>>

\* ClaimMissions and ClaimMissionGroupSteps pay those not claimed yet.
ClaimMissions(p, ms) ==
  /\ Pay(p, Cardinality(ms \ claimed[p]))
  /\ claimed' = [claimed EXCEPT ![p] = @ \cup ms]
  /\ UNCHANGED <<socialVars, countVars, ranks, tutorials, level, rewarded, battle, call>>

\* CommitTutorialGrant: "the recorded tutorial step is the idempotency boundary".
GrantTutorial(p, t) ==
  /\ t \notin tutorials[p]
  /\ tutorials' = [tutorials EXCEPT ![p] = @ \cup {t}]
  /\ Pay(p, 1)
  /\ experience' = [experience EXCEPT ![p] = @ + 1]
  /\ UNCHANGED <<friendVars, giftVars, owned, feed, power, chargers, snoop, challenges, paid,
                 countVars, ranks, claimed, level, rewarded, battle, call>>

\* MayLevelUp reads level and experience,
ReadLevel(r, p) ==
  /\ Begin(r, [pc |-> "level", player |-> p, from |-> level[p],
               target |-> Max({level[p]} \cup {l \in Levels : experience[p] >= RequiredExp[l]})])
  /\ UNCHANGED <<socialVars, progressVars>>

LevelsRewarded(c) == (c.from + 1)..c.target

\* and CommitLevelUp gives the rewards of the levels between, unless that
\* level has been reached meanwhile.
CommitLevelUp(r) ==
  LET c == call[r] IN
  /\ c.pc = "level" /\ c.target > level[c.player]
  /\ level' = [level EXCEPT ![c.player] = c.target]
  /\ rewarded' = [rewarded EXCEPT ![c.player] =
                    [l \in Levels |-> @[l] + (IF l \in LevelsRewarded(c) THEN 1 ELSE 0)]]
  /\ Pay(c.player, Cardinality(LevelsRewarded(c)))
  /\ Proceed(r, NoCall)
  /\ UNCHANGED <<socialVars, countVars, ranks, claimed, tutorials, battle>>

-----------------------------------------------------------------------------
(* Solo battles.                                                           *)

\* The outcome is fixed here although the game learns it later.
StartSoloBattle(p, i, b, won) ==
  /\ battle[i] = NoRun
  /\ battle' = [battle EXCEPT ![i] = [player |-> p, battle |-> b, won |-> won,
                                      finished |-> FALSE]]
  /\ UNCHANGED <<socialVars, countVars, rewardVars, call>>

\* After a win the handler counts it, also when the run was finished before.
Afterwards(i) == IF battle[i].won THEN Count(battle[i].player, battle[i].battle) ELSE NoCall

\* FinishSoloBattle reads the run, which a repeated call finds finished,
ReadRun(r, i) ==
  /\ battle[i] # NoRun
  /\ battle[i].finished => Latest(battle[i].player, battle[i].battle) < MaxWins
  /\ Begin(r, IF battle[i].finished THEN Afterwards(i)
              ELSE [pc |-> "finish", player |-> battle[i].player, run |-> i])
  /\ UNCHANGED <<socialVars, progressVars>>

\* and finishes it.
FinishSoloBattle(r) ==
  LET i == call[r].run IN
  /\ call[r].pc = "finish"
  /\ battle' = [battle EXCEPT ![i].finished = TRUE]
  /\ Proceed(r, Afterwards(i))
  /\ UNCHANGED <<socialVars, countVars, rewardVars>>

-----------------------------------------------------------------------------
\* A trophy among the kinds of a behaviour stands for requests of it.
ProgressStep ==
  \/ \E r \in Calls :
       \/ "count" \in mix.kinds /\ AddAction(r)
       \/ ProjectCards(r) \/ ReadWins(r) \/ ProjectWins(r) \/ SyncStates(r)
       \/ CheckTrophy(r) \/ CompleteTrophies(r) \/ CommitLevelUp(r) \/ FinishSoloBattle(r)
  \/ \E r \in Calls, p \in Viewers :
       \/ "sync" \in mix.kinds /\ ReadCards(r, p, None, None)
       \/ \E t \in Trophies \cap mix.kinds, k \in Ranks : ReadCards(r, p, t, k)
       \/ "level" \in mix.kinds /\ ReadLevel(r, p)
  \/ \E p \in Viewers :
       \/ "mission" \in mix.kinds /\ \E ms \in SUBSET Missions : ClaimMissions(p, ms)
       \/ "tutorial" \in mix.kinds /\ \E t \in Tutorials : GrantTutorial(p, t)
       \/ "battle" \in mix.kinds /\ \E i \in Runs, b \in Battles, won \in BOOLEAN :
            StartSoloBattle(p, i, b, won)
  \/ "battle" \in mix.kinds /\ \E r \in Calls, i \in Runs : ReadRun(r, i)

Tick == now < mix.time /\ now' = now + 1 /\ UNCHANGED <<socialVars, progressVars, call>>

Next == /\ \/ SocialStep /\ UNCHANGED <<progressVars, now>>
           \/ ProgressStep /\ UNCHANGED now
           \/ Tick
        /\ UNCHANGED mix

Spec == Init /\ [][Next]_vars

-----------------------------------------------------------------------------
(* What must hold.                                                         *)

(* "never decreases a total when cards are traded away or consumed"        *)
(* (action_states.go:60): the total of the latest day never falls, however *)
(* counts and projections of old reads interleave and whatever day they    *)
(* fall on.                                                                *)
TotalsNeverDecrease ==
  [][\A p \in Players, c \in Counters : Latest(p, c)' >= Latest(p, c)]_vars

(* The dust of a player is that of each trophy rank once, each mission     *)
(* once, each tutorial step once and of the levels as often as they were   *)
(* rewarded, although claims repeat and race; and no level was passed      *)
(* without its rewards.                                                    *)
RewardsAccounted ==
  \A p \in Players :
    /\ dust[p] = Total([t \in Trophies |-> SandOf(1, ranks[p][t])])
                 + Cardinality(claimed[p]) + Cardinality(tutorials[p])
                 + Total(rewarded[p])
    /\ \A l \in 2..level[p] : rewarded[p][l] >= 1

(* "advancing it would make an empty sync skip updates"                    *)
(* (startup_servers.gen.go:272): the client knows every row, or will be    *)
(* given it for the time it asks with next, however its synchronisations   *)
(* interleave with counts.  Only what is counted after a synchronisation   *)
(* in the very second that this one gave is never asked for again.         *)
SyncSkipsNothing ==
  \A x \in totals \ seen : x.at > Mark(x.player) \/ x.at \in marks[x.player]
=============================================================================
