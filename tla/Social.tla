------------------------------- MODULE Social -------------------------------
(***************************************************************************)
(* What players do with each other (internal/store/social.go,              *)
(* card_social.go and feed.go, called by internal/playerapi/               *)
(* friend_handlers.go, give_card_handlers.go and feed_handlers.go through  *)
(* internal/player/manager.go): friend requests, favorites, card gifts,    *)
(* thanks, and the feed, whose entries are snooped and challenged for      *)
(* challenge power.                                                        *)
(*                                                                         *)
(* A transaction is one action.  A favorite and a thank are checked in one *)
(* statement and written in another, and every call about challenge power  *)
(* first reads and stores it outside its transaction, so these are several *)
(* actions between which other requests act.  What a handler does after    *)
(* the store succeeded (it counts the action, in one more transaction) is  *)
(* a call that waits in "count".  A refused or repeated call, an error and *)
(* a server that stops are CallEnds.  Progression completes the system: it *)
(* counts the calls and has the behaviours (Spec).                         *)
(*                                                                         *)
(* Left out: profiles that are deleted, lists of several receivers (the    *)
(* same transaction for each of them), languages of cards (Inventory), and *)
(* presents, which nothing outside the tests queues.                       *)
(***************************************************************************)
EXTENDS Integers, FiniteSets, FiniteSetsExt, Sums

CONSTANTS Players, Cards, Feeds,
          Routes,       \* route types of thanks
          Txs,          \* transaction ids the game chooses for challenges
          Calls,        \* requests being served at one time
          Viewers,      \* bound: the players who open packs and the feed
          Mixes,        \* bounds of a behaviour: the kinds of requests, between which
                        \* players, how many are served at one time, and the clock
          Owner,        \* the player whose opening a feed entry shows
          Shown,        \* the cards of that opening
          Drawn,        \* the card that a player's hash picks from an entry
          Price,        \* feedChallengeCost of a card
          Copies,       \* of each card that each player has at first
          MaxOpenings,  \* bound on the cards that a player opens
          Unlock,       \* giveCardUnlockAge
          DayLength, DayReset,  \* a game day, and when it begins
          ThankLimit,   \* dailyThankRewardLimit
          PowerLimit,   \* ChallengePowerLimit
          PowerPeriod,  \* ChallengePowerPeriod
          ChargerTime,  \* what a charger takes off the period
          Chargers,     \* that each player has at first
          FeedLifetime,
          None

ASSUME SocialAssumption ==
  /\ Owner \in [Feeds -> Players] /\ Shown \in [Feeds -> (SUBSET Cards) \ {{}}]
  /\ Drawn \in [Players -> [Feeds -> Cards]]
  /\ \A p \in Players, f \in Feeds : Drawn[p][f] \in Shown[f]
  /\ PowerLimit \in Nat \ {0} /\ Price \in [Cards -> 1..PowerLimit]
  /\ Viewers \subseteq Players
  /\ Copies \in Nat /\ MaxOpenings \in Nat /\ Chargers \in Nat /\ ThankLimit \in Nat
  /\ Unlock \in Nat /\ DayLength \in Nat \ {0} /\ DayReset \in Nat
  /\ PowerPeriod \in Nat \ {0} /\ ChargerTime \in Nat
  /\ FeedLifetime \in Nat
  /\ \A m \in Mixes : m.players \subseteq Players /\ m.calls \in Nat /\ m.time \in Nat
  /\ None \notin Players \cup Feeds \cup Txs \cup Int
  /\ IsFiniteSet(Calls) /\ IsFiniteSet(Cards)

Row == [amount : 0..PowerLimit, updated : Int]
NoRow == [amount |-> None, updated |-> None]
NoCall == [pc |-> "none"]
\* Gifts per friend and day (dailyGiveCountPerFriend), and per receiver and day
\* (dailyGiveCardReceiveLimit).
GiftsPerFriend == 1
GiftsReceived == 1

FavoriteCall == [pc : {"favorite"}, player : Players, friend : Players, add : BOOLEAN]
ThankCall == [pc : {"thank"}, player : Players, target : Players, route : Routes, day : Int]
FeedCall == [pc : {"store", "commit"}, player : Players,
             kind : {"snoop", "challenge", "heal"},
             feed : Feeds \cup {None}, tx : Txs \cup {None},
             state : Row, insert : BOOLEAN]
\* The counters of internal/player/actions.go that these requests feed.
Keys == {"friend", "gift", "thank", "challenge", "card"}
CountCall == [pc : {"count"}, player : Players, key : Keys]

VARIABLES mix,         \* the bounds of this behaviour
          friends,     \* friendships
          requests,    \* friend_requests: <<sender, receiver>>
          favorites,   \* friend_favorites: <<player, friend>>
          gifts,       \* give_card_histories
          thanks,      \* thank_rewards
          opened,      \* pack_opening_cards: the cards of a player's packs
          owned,       \* player_cards
          experience,  \* in steps of FeedChallengeExperience
          feed,        \* feed_entries: created_at
          power,       \* player_challenge_state
          chargers,    \* the challenge power chargers in player_items
          snoop,       \* feed_snoops: at most one per player
          challenges,  \* feed_challenges
          paid,        \* history: the power a player has given for an entry
          call,        \* requests being served
          now

friendVars == <<friends, requests, favorites>>
giftVars == <<gifts, thanks, opened>>
feedVars == <<feed, power, chargers, snoop, challenges, paid, experience>>
socialVars == <<friendVars, giftVars, owned, feedVars>>

SocialTypeOK ==
  /\ mix \in Mixes
  /\ friends \subseteq {{p, q} : p \in Players, q \in Players}
  /\ requests \subseteq Players \X Players
  /\ favorites \subseteq Players \X Players
  /\ gifts \subseteq [from : Players, to : Players, card : Cards, day : Int]
  /\ thanks \subseteq [from : Players, to : Players, route : Routes, day : Int]
  /\ opened \in [Players -> [Cards -> Nat]]
  /\ owned \in [Players -> [Cards -> Nat]]
  /\ experience \in [Players -> Nat]
  /\ feed \in [Feeds -> Nat \cup {None}]
  /\ power \in [Players -> Row \cup {NoRow}]
  /\ chargers \in [Players -> Nat]
  /\ snoop \in [Players -> Feeds \cup {None}]
  /\ challenges \subseteq [player : Players, feed : Feeds, tx : Txs]
  /\ paid \in [Players -> [Feeds -> Nat]]
  /\ now \in Nat

\* Where nobody asks for a friendship, all players are friends already.
SocialInit ==
  /\ mix \in Mixes
  /\ friends = IF "friend" \in mix.kinds THEN {}
               ELSE {{p, q} : p \in Players, q \in Players} \ {{p} : p \in Players}
  /\ requests = {} /\ favorites = {} /\ gifts = {} /\ thanks = {}
  /\ owned = [p \in Players |-> [c \in Cards |-> Copies]]
  /\ opened = [p \in Players |-> [c \in Cards |-> 0]]
  /\ experience = [p \in Players |-> 0]
  /\ feed = [f \in Feeds |-> None]
  /\ power = [p \in Players |-> NoRow]
  /\ chargers = [p \in Players |-> Chargers]
  /\ snoop = [p \in Players |-> None]
  /\ challenges = {}
  /\ paid = [p \in Players |-> [f \in Feeds |-> 0]]
  /\ call = [r \in Calls |-> NoCall]
  /\ now = 0

Begin(r, c) ==
  /\ call[r] = NoCall /\ Cardinality({i \in Calls : call[i] # NoCall}) < mix.calls
  /\ call' = [call EXCEPT ![r] = c]
Proceed(r, c) == call' = [call EXCEPT ![r] = c]
Count(p, key) == [pc |-> "count", player |-> p, key |-> key]

CallEnds(r) == call[r] # NoCall /\ Proceed(r, NoCall) /\ UNCHANGED socialVars

\* gameDay: a new day begins at DayReset, not at midnight.
GameDay == (now - DayReset) \div DayLength

-----------------------------------------------------------------------------
(* Friends.                                                                *)

Befriend(p, q) == friends' = friends \cup {{p, q}}

\* Fault: a request in the other direction is not looked for.
SendFriendRequests_OneWay(p, q) ==
  /\ p # q /\ {p, q} \notin friends
  /\ requests' = requests \cup {<<p, q>>}
  /\ UNCHANGED <<friends, favorites, giftVars, owned, feedVars, call>>

\* A request to a player who has asked already makes both friends.
SendFriendRequests(p, q) ==
  /\ p # q
  /\ \/ /\ <<q, p>> \in requests
        /\ requests' = requests \ {<<q, p>>} /\ Befriend(p, q)
     \/ /\ <<q, p>> \notin requests /\ {p, q} \notin friends
        /\ requests' = requests \cup {<<p, q>>} /\ UNCHANGED friends
  /\ UNCHANGED <<favorites, giftVars, owned, feedVars, call>>

\* ApproveRequestV1, and the friend it counts.
ApproveFriendRequest(r, p, q) ==
  /\ <<q, p>> \in requests
  /\ requests' = requests \ {<<q, p>>} /\ Befriend(p, q)
  /\ Begin(r, Count(p, "friend"))
  /\ UNCHANGED <<favorites, giftVars, owned, feedVars>>

\* The sender withdraws it or the receiver rejects it.
RemoveFriendRequests(p, q) ==
  /\ <<p, q>> \in requests
  /\ requests' = requests \ {<<p, q>>}
  /\ UNCHANGED <<friends, favorites, giftVars, owned, feedVars, call>>

DeleteFriends(p, q) ==
  /\ friends' = friends \ {{p, q}}
  /\ favorites' = favorites \ {<<p, q>>, <<q, p>>}
  /\ UNCHANGED <<requests, giftVars, owned, feedVars, call>>

\* SetFriendFavorite looks at the friendship first,
ReadFriendship(r, p, q, add) ==
  /\ {p, q} \in friends
  /\ Begin(r, [pc |-> "favorite", player |-> p, friend |-> q, add |-> add])
  /\ UNCHANGED socialVars

\* and then inserts or deletes the row.
SetFriendFavorite(r) ==
  LET c == call[r]
      row == {<<c.player, c.friend>>}
  IN /\ c.pc = "favorite"
     /\ favorites' = IF c.add THEN favorites \cup row ELSE favorites \ row
     /\ Proceed(r, NoCall)
     /\ UNCHANGED <<friends, requests, giftVars, owned, feedVars>>

-----------------------------------------------------------------------------
(* Gifts and thanks.                                                       *)

GiftsToday == {g \in gifts : g.day = GameDay}

\* Fault: the copy that arrives replaces those the receiver has.
GiveCard_Replaces(r, p, q, c) ==
  /\ p # q /\ {p, q} \in friends /\ now >= Unlock
  /\ Cardinality({g \in GiftsToday : g.from = p /\ g.to = q}) < GiftsPerFriend
  /\ Cardinality({g \in GiftsToday : g.to = q}) < GiftsReceived
  /\ owned[p][c] >= 2
  /\ owned' = [owned EXCEPT ![p][c] = @ - 1, ![q][c] = 1]
  /\ gifts' = gifts \cup {[from |-> p, to |-> q, card |-> c, day |-> GameDay]}
  /\ Begin(r, Count(p, "gift"))
  /\ UNCHANGED <<friendVars, thanks, opened, feedVars>>

\* GiveCard, one transaction.  Every account is as old as the clock.
GiveCard(r, p, q, c) ==
  /\ p # q /\ {p, q} \in friends /\ now >= Unlock
  /\ Cardinality({g \in GiftsToday : g.from = p /\ g.to = q}) < GiftsPerFriend
  /\ Cardinality({g \in GiftsToday : g.to = q}) < GiftsReceived
  /\ owned[p][c] >= 2
  /\ owned' = [owned EXCEPT ![p][c] = @ - 1, ![q][c] = @ + 1]
  /\ gifts' = gifts \cup {[from |-> p, to |-> q, card |-> c, day |-> GameDay]}
  /\ Begin(r, Count(p, "gift"))
  /\ UNCHANGED <<friendVars, thanks, opened, feedVars>>

Thanked(p, q, route, day) == [from |-> p, to |-> q, route |-> route, day |-> day]

\* Fault: the limit is counted for each route.
SentToday_PerRoute(p, route) ==
  Cardinality({t \in thanks : t.from = p /\ t.route = route /\ t.day = GameDay})

SentToday(p, route) == Cardinality({t \in thanks : t.from = p /\ t.day = GameDay})

\* SendThankReward counts today's thanks; a repeated one succeeds at once,
ReadThanks(r, p, q, route) ==
  /\ p # q
  /\ \/ /\ Thanked(p, q, route, GameDay) \in thanks
        /\ Begin(r, Count(p, "thank"))
     \/ /\ Thanked(p, q, route, GameDay) \notin thanks
        /\ SentToday(p, route) < ThankLimit
        /\ Begin(r, [pc |-> "thank", player |-> p, target |-> q, route |-> route,
                     day |-> GameDay])
  /\ UNCHANGED socialVars

\* and then inserts the new one, whose key may have been used meanwhile.
InsertThank(r) ==
  LET c == call[r]
      row == Thanked(c.player, c.target, c.route, c.day)
  IN /\ c.pc = "thank" /\ row \notin thanks
     /\ thanks' = thanks \cup {row}
     /\ Proceed(r, Count(c.player, "thank"))
     /\ UNCHANGED <<friendVars, gifts, opened, owned, feedVars>>

\* CommitPackOpening (module Packs), as far as it is counted: a card arrives,
\* with experience.
OpenPack(r, p, c) ==
  /\ Total(opened[p]) < MaxOpenings
  /\ opened' = [opened EXCEPT ![p][c] = @ + 1]
  /\ owned' = [owned EXCEPT ![p][c] = @ + 1]
  /\ experience' = [experience EXCEPT ![p] = @ + 1]
  /\ Begin(r, Count(p, "card"))
  /\ UNCHANGED <<friendVars, gifts, thanks, feed, power, chargers, snoop, challenges, paid>>

-----------------------------------------------------------------------------
(* Challenge power and the feed.                                           *)

\* regeneratedPower; a full power keeps its old time.
Regenerated(row) ==
  LET steps == (now - row.updated) \div PowerPeriod
  IN IF row.amount >= PowerLimit \/ now < row.updated \/ steps = 0 THEN row
     ELSE [amount |-> Min({PowerLimit, row.amount + steps}),
           updated |-> row.updated + steps * PowerPeriod]

\* SharePackOpening: an opening is shown once.
SharePackOpening(f) ==
  /\ feed[f] = None
  /\ feed' = [feed EXCEPT ![f] = now]
  /\ UNCHANGED <<friendVars, giftVars, owned, power, chargers, snoop, challenges, paid,
                 experience, call>>

SnoopCost(f) == Max({Price[c] : c \in Shown[f]})

\* What the manager checks of an entry before it calls the store.
Listed(p, f) == feed[f] # None /\ Owner[f] # p /\ now - feed[f] <= FeedLifetime

\* SnoopFeed, ChallengeFeed, HealChallengePower and the timeline all begin with
\* ChallengeState (the timeline ends with it too), which reads the power,
ReadChallengeState(r, p, kind, f, i) ==
  /\ kind \in {"snoop", "challenge"} => Listed(p, f)
  /\ Begin(r, [pc |-> "store", player |-> p, kind |-> kind, feed |-> f, tx |-> i,
               state |-> IF power[p] = NoRow THEN [amount |-> PowerLimit, updated |-> now]
                         ELSE Regenerated(power[p]),
               insert |-> power[p] = NoRow])
  /\ UNCHANGED socialVars

\* and stores what it made of it.  A second insert of the row is an error.
StoreChallengeState(r) ==
  LET c == call[r] IN
  /\ c.pc = "store" /\ (c.insert => power[c.player] = NoRow)
  /\ power' = [power EXCEPT ![c.player] = c.state]
  /\ Proceed(r, [c EXCEPT !.pc = "commit"])
  /\ UNCHANGED <<friendVars, giftVars, owned, feed, chargers, snoop, challenges, paid,
                 experience>>

Challenged(p, f) == \E x \in challenges : x.player = p /\ x.feed = f

\* The transaction takes the cost from what it reads itself.
TakePower(p, f, cost) ==
  LET row == Regenerated(power[p])
  IN /\ row.amount >= cost
     /\ power' = [power EXCEPT ![p] = [row EXCEPT !.amount = @ - cost]]
     /\ paid' = [paid EXCEPT ![p][f] = @ + cost]

\* BeginFeedSnoop: an entry that is younger, not one's own (Listed) and not
\* challenged yet is reserved, while nothing else is.
CommitSnoop(r) ==
  LET c == call[r] IN
  /\ c.pc = "commit" /\ c.kind = "snoop"
  /\ snoop[c.player] = None
  /\ now - feed[c.feed] < FeedLifetime /\ ~Challenged(c.player, c.feed)
  /\ TakePower(c.player, c.feed, SnoopCost(c.feed))
  /\ snoop' = [snoop EXCEPT ![c.player] = c.feed]
  /\ Proceed(r, NoCall)
  /\ UNCHANGED <<friendVars, giftVars, owned, feed, chargers, challenges, experience>>

\* Fault: a challenge of an entry that was snooped is charged again.
Charged_Again(p, f) == Price[Drawn[p][f]]

Charged(p, f) == IF snoop[p] = f THEN 0 ELSE Price[Drawn[p][f]]

\* CommitFeedChallenge: neither the entry nor the transaction id was used.
CommitFeedChallenge(r) ==
  LET c == call[r]
      p == c.player
      f == c.feed
  IN /\ c.pc = "commit" /\ c.kind = "challenge"
     /\ \A x \in challenges : x.player = p => x.feed # f /\ x.tx # c.tx
     /\ TakePower(p, f, Charged(p, f))
     /\ challenges' = challenges \cup {[player |-> p, feed |-> f, tx |-> c.tx]}
     /\ snoop' = [snoop EXCEPT ![p] = IF @ = f THEN None ELSE @]
     /\ owned' = [owned EXCEPT ![p][Drawn[p][f]] = @ + 1]
     /\ experience' = [experience EXCEPT ![p] = @ + 1]
     /\ Proceed(r, Count(p, "challenge"))
     /\ UNCHANGED <<friendVars, giftVars, feed, chargers>>

\* HealChallengePower with one charger.
CommitHeal(r) ==
  LET c == call[r]
      row == Regenerated(power[c.player])
  IN /\ c.pc = "commit" /\ c.kind = "heal"
     /\ row.amount < PowerLimit /\ chargers[c.player] >= 1
     /\ chargers' = [chargers EXCEPT ![c.player] = @ - 1]
     /\ power' = [power EXCEPT ![c.player] =
                    Regenerated([row EXCEPT !.updated = @ - ChargerTime])]
     /\ Proceed(r, NoCall)
     /\ UNCHANGED <<friendVars, giftVars, owned, feed, snoop, challenges, paid, experience>>

-----------------------------------------------------------------------------
Request(kind) ==
  \/ kind = "friend" /\ \E p \in mix.players, q \in mix.players :
       \/ SendFriendRequests(p, q) \/ RemoveFriendRequests(p, q) \/ DeleteFriends(p, q)
       \/ \E r \in Calls : ApproveFriendRequest(r, p, q)
  \/ kind = "favorite" /\ \E r \in Calls, p \in mix.players, q \in mix.players, add \in BOOLEAN :
       ReadFriendship(r, p, q, add)
  \/ kind = "gift" /\ \E r \in Calls, p \in mix.players, q \in mix.players, c \in Cards :
       GiveCard(r, p, q, c)
  \/ kind = "thank" /\ \E r \in Calls, p \in mix.players, q \in mix.players, route \in Routes :
       ReadThanks(r, p, q, route)
  \/ kind = "feed" /\ \E f \in Feeds :
       \/ SharePackOpening(f)
       \/ \E r \in Calls, p \in Viewers : ReadChallengeState(r, p, "snoop", f, None)
       \/ \E r \in Calls, p \in Viewers, i \in Txs : ReadChallengeState(r, p, "challenge", f, i)
  \/ kind = "heal" /\ \E r \in Calls, p \in Viewers : ReadChallengeState(r, p, kind, None, None)
  \/ kind = "cards" /\ \E r \in Calls, p \in Viewers, c \in Cards : OpenPack(r, p, c)

SocialStep ==
  \/ \E kind \in mix.kinds : Request(kind)
  \/ \E r \in Calls : \/ SetFriendFavorite(r) \/ InsertThank(r) \/ StoreChallengeState(r)
                       \/ CommitSnoop(r) \/ CommitFeedChallenge(r) \/ CommitHeal(r)
                       \/ CallEnds(r)

-----------------------------------------------------------------------------
(* What must hold.                                                         *)

(* A request is pending between two players in one direction at most, and  *)
(* never between friends, however requests in both directions, answers and *)
(* deletions interleave: an answer never finds a request that is obsolete. *)
RequestsPending ==
  \A p, q \in Players : <<p, q>> \in requests =>
    p # q /\ <<q, p>> \notin requests /\ {p, q} \notin friends

(* The copies of a player are those of the start, of the packs, the gifts  *)
(* of both directions in the histories and the challenges on record, no    *)
(* more and no less, and a gift never takes the last copy.                 *)
CardsAccounted ==
  \A p \in Players, c \in Cards :
    /\ owned[p][c] + Cardinality({g \in gifts : g.from = p /\ g.card = c})
         = Copies + opened[p][c] + Cardinality({g \in gifts : g.to = p /\ g.card = c})
           + Cardinality({x \in challenges : x.player = p /\ Drawn[p][x.feed] = c})
    /\ Copies > 0 => owned[p][c] > 0

(* Power is taken for an entry once, when it is snooped or when it is      *)
(* challenged, never both, and enough for the card it gives; an entry is   *)
(* challenged once and not reserved any more then.  Snoops and challenges  *)
(* of one player may be repeated and race.                                 *)
FeedPaidOnce ==
  \A p \in Players, f \in Feeds :
    LET rows == {x \in challenges : x.player = p /\ x.feed = f}
    IN /\ Cardinality(rows) <= 1
       /\ rows # {} => snoop[p] # f /\ paid[p][f] >= Price[Drawn[p][f]]
       /\ snoop[p] = f => paid[p][f] = SnoopCost(f)
       /\ rows = {} /\ snoop[p] # f => paid[p][f] = 0
       /\ paid[p][f] <= SnoopCost(f)

(* "daily thank reward limit reached" (card_social.go:168): the limit is   *)
(* read before the thank is inserted, so requests that are served at once  *)
(* can pass it, but by no more than their number.                          *)
ThanksBounded ==
  \A p \in Players : \A t \in thanks :
    Cardinality({u \in thanks : u.from = p /\ u.day = t.day})
      <= ThankLimit + Cardinality(Calls) - 1
=============================================================================
