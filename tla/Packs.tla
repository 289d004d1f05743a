-------------------------------- MODULE Packs --------------------------------
(***************************************************************************)
(* Opening packs with one profile (internal/store/packs.go and             *)
(* internal/packlab/engine.go, called by internal/playerapi/               *)
(* pack_handlers.go, special_pack_handlers.go, pack_shop_exchange.go and,  *)
(* for the pack of the tutorial, supplemental_handlers.go).                *)
(*                                                                         *)
(* A request first reads the rule that the owner of the server has set and *)
(* draws the cards, and later commits the draw in a transaction; requests, *)
(* their repetitions and changes of the rule interleave between the two.   *)
(* The game repeats a request under the same transaction id when it got no *)
(* answer.  A refused or repeated commit, an error and a request whose     *)
(* server stops all end in CallEnds.                                       *)
(*                                                                         *)
(* A draw is one card per pack.  Its cards are chosen in the commit, which  *)
(* is when they first have an effect; their number is fixed when the rule  *)
(* is read.  Left out: experience, dust, mission counters, guarantee       *)
(* points and feed entries of an opening, which follow its cards in the    *)
(* same transaction; exchanges of several copies; what else moves cards,   *)
(* tickets and Poke Gold (the editor, shops, trades).                      *)
(***************************************************************************)
EXTENDS Integers, Sequences, FiniteSets, Sums

CONSTANTS Cards,
          Txs,          \* transaction ids the game chooses
          Uuids,        \* ids the server makes for openings of special packs
          TutorialTx,   \* tutorialPackTransactionID
          TutorialCard, \* the draw of PreviewOfficial, the same at each attempt
          Calls,        \* requests being served at one time
          Mixes,        \* the kinds of requests that a behaviour may have
          Ten,          \* packs of the larger request (ten in the game)
          Price,        \* pack power one pack costs
          MaxPower,     \* AutoHealLimit
          Period,       \* HealSecondsPerPower
          Week,         \* length of a cycle of the weekly right
          CardPrice,    \* pack points a card costs
          StartGold, StartTickets,  \* what else gave the profile
          MaxTime,      \* bound on the clock
          None

ASSUME PacksAssumption ==
  /\ IsFiniteSet(Txs) /\ IsFiniteSet(Uuids) /\ TutorialCard \in Cards
  /\ Txs \cap Uuids = {} /\ TutorialTx \notin Txs \cup Uuids
  /\ Mixes \subseteq SUBSET {"open", "special", "tutorial", "exchange"}
  /\ None \notin Cards \cup Txs \cup Uuids \cup {TutorialTx} \cup Nat
  /\ Ten \in Nat \ {0} /\ Price \in Nat /\ MaxPower \in Nat
  /\ Period \in Nat \ {0} /\ Week \in Nat \ {0} /\ CardPrice \in Nat \ {0}
  /\ StartGold \in Nat /\ StartTickets \in Nat /\ MaxTime \in Nat

StartPower == 2
Ids == Txs \cup Uuids \cup {TutorialTx}
Sizes == {1, Ten}
\* What the rule decides of an opening: whether it costs power, and how many
\* packs the larger request returns ("illegal" mode replaces the count).
Rule == [free : BOOLEAN, ten : 1..Ten]
OfficialRule == [free |-> FALSE, ten |-> Ten]
Draw == UNION {[1..n -> Cards] : n \in 1..Ten}
Opening == [draw : Draw, size : Sizes, free : BOOLEAN, special : BOOLEAN]
\* A commit that waits: the opening, and what it takes besides power.
Call == [pc : {"draw", "commit", "register"}, tx : Ids \cup {None}, size : Sizes,
         packs : 1..Ten, free : BOOLEAN, special : BOOLEAN, tickets : Nat,
         right : Nat \cup {None}]
NoOpening == [size |-> 0]
NoCall == [pc |-> "none"]

VARIABLES kinds,     \* of the requests of this behaviour
          rule,      \* global_pack_rule
          power,     \* pack_power and pack_power_updated_at
          gold,      \* poke_gold
          tickets,   \* the special pack tickets in player_items
          rights,    \* weeks whose flag "unpack_right" is set
          points,    \* player_pack_ceil_points
          owned,     \* player_cards
          opening,   \* pack_openings
          exchange,  \* pack_shop_exchanges
          granted,   \* the tutorial's pack is in player_tutorial_grants
          call,      \* requests being served
          now

vars == <<kinds, rule, power, gold, tickets, rights, points, owned, opening, exchange,
          granted, call, now>>
profile == <<power, gold, tickets, rights, points, owned, opening, exchange, granted>>

TypeOK == /\ kinds \in Mixes
          /\ rule \in Rule
          /\ power \in [amount : Nat, updated : 0..now]
          /\ gold \in Nat /\ tickets \in Nat /\ points \in Nat
          /\ rights \subseteq Nat
          /\ owned \in [Cards -> Nat]
          /\ opening \in [Ids -> Opening \cup {NoOpening}]
          /\ exchange \in [Txs -> Cards \cup {None}]
          /\ granted \in BOOLEAN
          /\ call \in [Calls -> Call \cup {NoCall}]
          /\ now \in 0..MaxTime

Init == /\ kinds \in Mixes
        /\ rule = OfficialRule
        /\ power = [amount |-> StartPower, updated |-> 0]
        /\ gold = StartGold /\ tickets = StartTickets
        /\ rights = {} /\ points = 0
        /\ owned = [c \in Cards |-> 0]
        /\ opening = [i \in Ids |-> NoOpening]
        /\ exchange = [i \in Txs |-> None]
        /\ granted = FALSE
        /\ call = [r \in Calls |-> NoCall]
        /\ now = 0

-----------------------------------------------------------------------------
(* Pack power heals with time, and is spent before Poke Gold.              *)

Smaller(a, b) == IF a < b THEN a ELSE b

\* regeneratedPower, the amount only: a commit stores its own time with it.
Healed(p) == IF p.amount >= MaxPower THEN MaxPower
             ELSE Smaller(MaxPower, p.amount + (now - p.updated) \div Period)

\* Fault: what healed is added, and the time it healed in is not used up.
SpendPower_Unmarked(cost) ==
  LET used == Smaller(Healed(power), cost)
  IN /\ cost - used <= gold
     /\ power' = [power EXCEPT !.amount = Healed(power) - used]
     /\ gold' = gold - (cost - used)

SpendPower(cost) ==
  LET used == Smaller(Healed(power), cost)
  IN /\ cost - used <= gold
     /\ power' = [amount |-> Healed(power) - used, updated |-> now]
     /\ gold' = gold - (cost - used)

-----------------------------------------------------------------------------
(* Requests.                                                               *)

Begin(r, c) == call[r] = NoCall /\ call' = [call EXCEPT ![r] = c]

\* Packs an opening returns: Engine.draw.
Returned(n) == IF n = Ten THEN rule.ten ELSE 1

\* PackShop.PurchaseV2 to Engine.Open: the rule is read, the cards are drawn.
Open(r, i, n) ==
  /\ Begin(r, [pc |-> "commit", tx |-> i, size |-> n, packs |-> Returned(n),
               free |-> rule.free, special |-> FALSE, tickets |-> 0, right |-> None])
  /\ UNCHANGED <<rule, profile, now>>

\* SpecialPack.PurchaseV1: one pack for the week's right, packs for tickets, or
\* the larger request for both.  The week is that of the request.
PurchaseSpecial(r, n, right) ==
  /\ Begin(r, [pc |-> "draw", tx |-> None, size |-> n, packs |-> n, free |-> TRUE,
               special |-> TRUE, tickets |-> IF right THEN n - 1 ELSE n,
               right |-> IF right THEN now \div Week ELSE None])
  /\ UNCHANGED <<rule, profile, now>>

\* Preview draws under the rule; an opening that is not of the size asked for
\* is an error.  uuid.NewString gives it an id nothing else has.
DrawSpecial(r) ==
  /\ call[r].pc = "draw" /\ Returned(call[r].size) = call[r].size
  /\ \E i \in Uuids :
       /\ opening[i] = NoOpening
       /\ i \notin {call[s].tx : s \in {s \in Calls : call[s] # NoCall}}
       /\ call' = [call EXCEPT ![r].pc = "commit", ![r].tx = i]
  /\ UNCHANGED <<rule, profile, now>>

-----------------------------------------------------------------------------
(* CommitPackOpening, one transaction.                                     *)

\* insertPackOpening.
Opened(c, draw) == [draw |-> draw, size |-> c.size, free |-> c.free, special |-> c.special]

Copies(draw, c) == Cardinality({k \in DOMAIN draw : draw[k] = c})

\* Fault: a repeated request is opened again under its id.
Fresh_Repeated(i) == TRUE

\* loadPackOpening finds nothing.
Fresh(i) == opening[i] = NoOpening

\* Fault: the weekly right is not looked up.
TakeRight_Unchecked(week) == rights' = rights \cup ({week} \ {None})

TakeRight(week) ==
  /\ week \notin rights
  /\ rights' = rights \cup ({week} \ {None})

Commit(r) ==
  LET c == call[r] IN
  /\ c.pc = "commit" /\ Fresh(c.tx)
  /\ TakeRight(c.right)
  /\ c.tickets <= tickets
  /\ tickets' = tickets - c.tickets
  /\ \/ c.free /\ UNCHANGED <<power, gold>>
     \/ ~c.free /\ SpendPower(Price * c.size)
  /\ \E draw \in [1..c.packs -> Cards] :
       /\ opening' = [opening EXCEPT ![c.tx] = Opened(c, draw)]
       /\ owned' = [d \in Cards |-> owned[d] + Copies(draw, d)]
  /\ points' = IF c.special THEN points ELSE points + c.packs
  /\ call' = [call EXCEPT ![r] = NoCall]
  /\ UNCHANGED <<rule, exchange, granted, now>>

CallEnds(r) == /\ call[r] # NoCall
               /\ call' = [call EXCEPT ![r] = NoCall]
               /\ UNCHANGED <<rule, profile, now>>

-----------------------------------------------------------------------------
(* The pack of the tutorial, points, the rule and the clock.               *)

\* Tutorial.PackPurchaseV1 grants the pack (CommitTutorialGrant), at most once.
GrantTutorial(r) ==
  /\ Begin(r, [pc |-> "register", tx |-> TutorialTx, size |-> 1,
               packs |-> 1, free |-> TRUE, special |-> FALSE,
               tickets |-> 0, right |-> None])
  /\ granted' = TRUE
  /\ \/ granted /\ UNCHANGED <<owned, points>>
     \/ /\ ~granted
        /\ owned' = [owned EXCEPT ![TutorialCard] = @ + 1]
        /\ points' = points + 1
  /\ UNCHANGED <<rule, power, gold, tickets, rights, opening, exchange, now>>

\* Fault: registering grants the pack, as opening it does.
RegisterPackOpening_Grants(r) ==
  LET c == call[r] IN
  /\ c.pc = "register" /\ Fresh(c.tx)
  /\ opening' = [opening EXCEPT ![c.tx] = Opened(c, <<TutorialCard>>)]
  /\ owned' = [owned EXCEPT ![TutorialCard] = @ + 1]
  /\ call' = [call EXCEPT ![r] = NoCall]
  /\ UNCHANGED <<rule, power, gold, tickets, rights, points, exchange, granted, now>>

\* RegisterPackOpening: the opening is known, and grants nothing again.
RegisterPackOpening(r) ==
  LET c == call[r] IN
  /\ c.pc = "register" /\ Fresh(c.tx)
  /\ opening' = [opening EXCEPT ![c.tx] = Opened(c, <<TutorialCard>>)]
  /\ call' = [call EXCEPT ![r] = NoCall]
  /\ UNCHANGED <<rule, power, gold, tickets, rights, points, owned, exchange,
                 granted, now>>

\* PackShop.ExchangeV1: a repetition returns what is left, and with another
\* card is refused.
ExchangePackPoints(i, c) ==
  /\ exchange[i] = None /\ points >= CardPrice
  /\ points' = points - CardPrice
  /\ owned' = [owned EXCEPT ![c] = @ + 1]
  /\ exchange' = [exchange EXCEPT ![i] = c]
  /\ UNCHANGED <<rule, power, gold, tickets, rights, opening, granted, call, now>>

SaveGlobalPackRule(new) == /\ rule' = new
                           /\ UNCHANGED <<profile, call, now>>

Tick == /\ now < MaxTime
        /\ now' = now + 1
        /\ UNCHANGED <<rule, profile, call>>

Request(kind) ==
  \/ kind = "open" /\ \E r \in Calls, i \in Txs, n \in Sizes : Open(r, i, n)
  \/ kind = "special" /\ \E r \in Calls, n \in Sizes, right \in BOOLEAN :
                           PurchaseSpecial(r, n, right)
  \/ kind = "tutorial" /\ \E r \in Calls : GrantTutorial(r)
  \/ kind = "exchange" /\ \E i \in Txs, c \in Cards : ExchangePackPoints(i, c)

Next ==
  /\ \/ \E kind \in kinds : Request(kind)
     \/ \E r \in Calls : \/ DrawSpecial(r) \/ Commit(r)
                          \/ RegisterPackOpening(r) \/ CallEnds(r)
     \/ \E new \in Rule : SaveGlobalPackRule(new)
     \/ Tick
  /\ UNCHANGED kinds

Spec == Init /\ [][Next]_vars

-----------------------------------------------------------------------------
(* What must hold.                                                         *)

Openings == {i \in Ids : opening[i] # NoOpening}

(* However requests are repeated and interleaved with the clock and with   *)
(* the rule, every pack that was not free was paid once: what they cost,   *)
(* the Poke Gold and the power left come to no more than the profile had   *)
(* at first and could heal since.                                          *)
PacksPaid ==
  Total([i \in Openings |-> IF opening[i].free THEN 0 ELSE Price * opening[i].size])
    + Healed(power) + gold <= StartPower + StartGold + now \div Period

(* The cards and points of the profile are those of the openings and       *)
(* exchanges it can be shown, no more and no less: nothing is granted by a *)
(* repetition, and an opening that was recorded was granted.  The pack of  *)
(* the tutorial counts from its grant on, registered or not.               *)
Bought == Openings \ {TutorialTx}
Exchanged == {i \in Txs : exchange[i] # None}
FromTutorial == IF granted THEN 1 ELSE 0
BooksBalance ==
  /\ TutorialTx \in Openings => granted
  /\ points + CardPrice * Cardinality(Exchanged)
       = FromTutorial + Total([i \in Bought |-> IF opening[i].special THEN 0
                                                ELSE Len(opening[i].draw)])
  /\ \A c \in Cards :
       owned[c] = (IF c = TutorialCard THEN FromTutorial ELSE 0)
                  + Total([i \in Bought |-> Copies(opening[i].draw, c)])
                  + Cardinality({i \in Exchanged : exchange[i] = c})

(* Special packs are as many as the tickets that are gone and the weeks    *)
(* whose right is used, and no week's right is used before it has begun:   *)
(* two requests cannot both open a pack with one right.                    *)
SpecialPacksPaid ==
  LET special == {i \in Openings : opening[i].special}
  IN /\ Total([i \in special |-> Len(opening[i].draw)])
          = StartTickets - tickets + Cardinality(rights)
     /\ rights \subseteq 0..(now \div Week)
=============================================================================
