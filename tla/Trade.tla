-------------------------------- MODULE Trade --------------------------------
(***************************************************************************)
(* Card trades between profiles (internal/store/trade_sessions.go,         *)
(* trade.go, called by internal/playerapi/trade_lifecycle.go through       *)
(* internal/player/manager.go).  The games of the two players talk to      *)
(* different server processes over one database, so calls interleave.      *)
(*                                                                         *)
(* A transaction or a single statement is an action.  The calls that look  *)
(* at the trade power first read it, write it back regenerated, and only   *)
(* then do their own work in another transaction: each is a step, and in   *)
(* between any call may end without effect (refused, failed, cancelled).   *)
(*                                                                         *)
(* All profiles are mature friends, all cards have the same rarity, the    *)
(* trade states exist (TradeState inserts a full one at its first use),    *)
(* and no profile is deleted.  Left out: the deposit's opaque items,       *)
(* messages, the history, and the stock of chargers a heal consumes.       *)
(***************************************************************************)
EXTENDS Integers, FiniteSets

CONSTANTS Players, Cards,
          Ids,         \* session ids (random UUIDs) of a behaviour
          Calls,       \* requests being served at one time
          Kinds,       \* the kinds of these requests in a behaviour
          Copies,      \* copies of each card a player starts with
          PowerLimit,  \* tradePowerLimit
          Powers,      \* what earlier trades may have left of a player's power
          Period,      \* tradePowerPeriod, in units of a charger's reduction
          Lifetime,    \* tradeSessionLifetime, in the same units
          MaxTime,     \* bound on the clock
          MaxCharge,   \* bound on the reduction of one heal
          None

ASSUME TradeAssumption ==
  /\ Kinds \subseteq {"submit", "accept", "deposit", "heal", "settings"}
  /\ None \notin Players \cup Cards \cup Ids /\ IsFiniteSet(Ids)
  /\ Copies \in Nat /\ PowerLimit \in Nat \ {0} /\ Powers \subseteq 0..PowerLimit
  /\ Period \in Nat \ {0}
  /\ Lifetime \in Nat /\ MaxTime \in Nat /\ MaxCharge \in Nat

Undecided == {"waiting", "answered"}
Settled == {"confirmed", "rejected"}
TradeState == [power : 0..PowerLimit, updated : Int]
Session == [proposer : Players, partner : Players, given : Cards,
            answer : Cards \cup {None}, state : Undecided \cup Settled,
            received : SUBSET Players, expire : Nat]
NoSession == [proposer |-> None, partner |-> None, given |-> None, answer |-> None,
              state |-> "none", received |-> {}, expire |-> 0]
Call == [kind : Kinds,
         player : Players, partner : Players, id : Ids \cup {None},
         card : Cards \cup {None}, pc : {"read", "write", "act"},
         of : Players,            \* whose trade state is being refreshed
         read : TradeState,       \* what was read of it, regenerated
         power : 0..PowerLimit,   \* the player's own power, as read
         blocked : BOOLEAN]       \* the partner blocked trades, as read
NoCall == [kind |-> "none", pc |-> "none"]

VARIABLES owned,    \* player_cards: copies not deposited in a trade
          trade,    \* player_trade_state: power and power_updated_at
          blocked,  \* players whose block_all is set
          session,  \* trade_sessions
          call,     \* the requests being served
          now

vars == <<owned, trade, blocked, session, call, now>>

TypeOK == /\ owned \in [Players -> [Cards -> Nat]]
          /\ trade \in [Players -> TradeState]
          /\ blocked \subseteq Players
          /\ session \in [Ids -> Session \cup {NoSession}]
          /\ call \in [Calls -> Call \cup {NoCall}]
          /\ now \in 0..MaxTime

Init == /\ owned = [p \in Players |-> [c \in Cards |-> Copies]]
        /\ trade \in [Players -> [power : Powers, updated : {0}]]
        /\ blocked = {}
        /\ session = [i \in Ids |-> NoSession]
        /\ call = [r \in Calls |-> NoCall]
        /\ now = 0

-----------------------------------------------------------------------------
(* Sessions as their participants see them.                                *)

Participates(p, s) == p \in {s.proposer, s.partner}
Own(p, s)   == IF p = s.proposer THEN s.given ELSE s.answer
Other(p, s) == IF p = s.proposer THEN s.answer ELSE s.given

\* Fault: only the proposer's trades are counted.
Active_Proposed(p, s) ==
  /\ s.proposer = p
  /\ s.state \in Undecided \/ (s.state \in Settled /\ p \notin s.received)

\* activeTradeCount.
Active(p, s) ==
  /\ Participates(p, s)
  /\ s.state \in Undecided \/ (s.state \in Settled /\ p \notin s.received)

\* Fault: the last copy may go.
Spare_Any(p, c) == owned[p][c] >= 1

\* reserveTradeCard: "trader must retain one copy".
Spare(p, c) == owned[p][c] >= 2

\* Fault: a proposal can be answered again.
Answerable_Again(p, s) == s.partner = p /\ s.state \in Undecided /\ now < s.expire

Answerable(p, s) == s.partner = p /\ s.state = "waiting" /\ now < s.expire

-----------------------------------------------------------------------------
(* Trade power.                                                            *)

\* regeneratedPower; the remainder of a period is kept, and a full power keeps
\* its old time.
Regenerated(st) ==
  LET steps == (now - st.updated) \div Period
  IN IF st.power >= PowerLimit \/ now < st.updated \/ steps = 0 THEN st
     ELSE [power   |-> IF st.power + steps > PowerLimit THEN PowerLimit
                       ELSE st.power + steps,
           updated |-> st.updated + steps * Period]

\* power=power-1 WHERE power>=1; that a row was changed is not checked.
Spent(st) == [power   |-> IF st.power >= 1 THEN st.power - 1 ELSE st.power,
              updated |-> st.updated]

-----------------------------------------------------------------------------
(* The calls that begin with TradeState.                                   *)

\* What is kept of a refresh once it is stored.
Nothing == [power |-> 0, updated |-> 0]

\* The first read, of the player's own state, begins the call.
Begin(r, kind, p, q, i, c) ==
  /\ kind \in Kinds /\ call[r] = NoCall
  /\ call' = [call EXCEPT ![r] =
       [kind |-> kind, player |-> p, partner |-> q, id |-> i, card |-> c, pc |-> "write",
        of |-> p, read |-> Regenerated(trade[p]), power |-> Regenerated(trade[p]).power,
        blocked |-> FALSE]]
  /\ UNCHANGED <<owned, trade, blocked, session, now>>

Start ==
  \E r \in Calls, p \in Players :
    \/ \E q \in Players \ {p}, c \in Cards : Begin(r, "submit", p, q, None, c)
    \/ \E i \in Ids, c \in Cards : session[i] # NoSession /\ Begin(r, "accept", p, p, i, c)
    \/ \E i \in Ids : session[i] # NoSession /\ Begin(r, "deposit", p, p, i, None)
    \/ \E kind \in {"heal", "settings"} : Begin(r, kind, p, p, None, None)

\* TradeState, first statement, of the partner of a proposal.
ReadPartner(r) ==
  /\ call[r].pc = "read"
  /\ LET k == call[r]
     IN call' = [call EXCEPT ![r] =
          [k EXCEPT !.pc = "write", !.of = k.partner, !.read = Regenerated(trade[k.partner]),
                    !.blocked = k.partner \in blocked]]
  /\ UNCHANGED <<owned, trade, blocked, session, now>>

\* TradeState, second statement.
StoreTradeState(r) ==
  /\ call[r].pc = "write"
  /\ LET k == call[r]
     IN /\ trade' = [trade EXCEPT ![k.of] = k.read]
        /\ call' = [call EXCEPT ![r] =
             [k EXCEPT !.pc = IF k.of # k.partner THEN "read" ELSE "act", !.read = Nothing]]
  /\ UNCHANGED <<owned, blocked, session, now>>

Acts(r, kind) == call[r].pc = "act" /\ call[r].kind = kind
Return(r) == call' = [call EXCEPT ![r] = NoCall]

SubmitTrade(r) ==
  /\ Acts(r, "submit")
  /\ LET k == call[r]
     IN /\ ~k.blocked /\ k.power >= 1
        /\ \A i \in Ids, p \in {k.player, k.partner} : ~Active(p, session[i])
        /\ Spare(k.player, k.card)
        /\ owned' = [owned EXCEPT ![k.player][k.card] = @ - 1]
        /\ trade' = [trade EXCEPT ![k.player] = Spent(@)]
        /\ \E i \in Ids :
             /\ session[i] = NoSession
             /\ session' = [session EXCEPT ![i] =
                  [proposer |-> k.player, partner |-> k.partner, given |-> k.card,
                   answer |-> None, state |-> "waiting", received |-> {},
                   expire |-> now + Lifetime]]
  /\ Return(r)
  /\ UNCHANGED <<blocked, now>>

AcceptTrade(r) ==
  /\ Acts(r, "accept")
  /\ LET k == call[r]
     IN /\ k.power >= 1
        /\ Answerable(k.player, session[k.id])
        /\ Spare(k.player, k.card)
        /\ owned' = [owned EXCEPT ![k.player][k.card] = @ - 1]
        /\ trade' = [trade EXCEPT ![k.player] = Spent(@)]
        /\ session' = [session EXCEPT ![k.id].answer = k.card, ![k.id].state = "answered"]
  /\ Return(r)
  /\ UNCHANGED <<blocked, now>>

\* The power is written from what was read before the transaction.
ReceiveTradeDeposit(r) ==
  /\ Acts(r, "deposit")
  /\ LET k == call[r]
         p == k.player
         s == session[k.id]
     IN /\ Participates(p, s) /\ s.state = "rejected" /\ Own(p, s) # None
        /\ p \notin s.received
        /\ owned' = [owned EXCEPT ![p][Own(p, s)] = @ + 1]
        /\ session' = [session EXCEPT ![k.id].received = @ \cup {p}]
        /\ trade' = IF k.power < PowerLimit
                    THEN [trade EXCEPT ![p].power = k.power + 1] ELSE trade
  /\ Return(r)
  /\ UNCHANGED <<blocked, now>>

\* Reads the power again, in its transaction.
HealTradePower(r) ==
  /\ Acts(r, "heal")
  /\ LET p == call[r].player
         st == Regenerated(trade[p])
     IN /\ st.power < PowerLimit
        /\ \E n \in 1..MaxCharge :
             trade' = [trade EXCEPT ![p] =
                         Regenerated([power |-> st.power, updated |-> st.updated - n])]
  /\ Return(r)
  /\ UNCHANGED <<owned, blocked, session, now>>

SaveTradeSettings(r) ==
  /\ Acts(r, "settings")
  /\ blocked' \in {blocked \cup {call[r].player}, blocked \ {call[r].player}}
  /\ Return(r)
  /\ UNCHANGED <<owned, trade, session, now>>

CallEnds(r) ==
  /\ call[r] # NoCall
  /\ Return(r)
  /\ UNCHANGED <<owned, trade, blocked, session, now>>

-----------------------------------------------------------------------------
(* The calls of one statement or transaction, and time.                    *)

Settle(i, state) == /\ session' = [session EXCEPT ![i].state = state]
                    /\ UNCHANGED <<owned, trade, blocked, call, now>>

ConfirmTrade(p, i) ==
  /\ session[i].proposer = p /\ session[i].state = "answered" /\ now < session[i].expire
  /\ Settle(i, "confirmed")

RejectTrade(p, i) ==
  /\ Participates(p, session[i]) /\ session[i].state \in Undecided
  /\ Settle(i, "rejected")

ReceiveTradeOutcome(p, i) ==
  LET s == session[i]
  IN /\ Participates(p, s) /\ s.state = "confirmed" /\ Other(p, s) # None
     /\ p \notin s.received
     /\ owned' = [owned EXCEPT ![p][Other(p, s)] = @ + 1]
     /\ session' = [session EXCEPT ![i].received = @ \cup {p}]
     /\ UNCHANGED <<trade, blocked, call, now>>

\* ActiveTradeSession of any player rejects whatever is past its time.
Due == {i \in Ids : session[i].state \in Undecided /\ session[i].expire <= now}

ActiveTradeSession ==
  /\ Due # {}
  /\ session' = [i \in Ids |-> IF i \in Due THEN [session[i] EXCEPT !.state = "rejected"]
                               ELSE session[i]]
  /\ UNCHANGED <<owned, trade, blocked, call, now>>

Tick == /\ now < MaxTime /\ now' = now + 1
        /\ UNCHANGED <<owned, trade, blocked, session, call>>

CallStep(r) == \/ ReadPartner(r) \/ StoreTradeState(r)
               \/ SubmitTrade(r) \/ AcceptTrade(r) \/ ReceiveTradeDeposit(r)
               \/ HealTradePower(r) \/ SaveTradeSettings(r) \/ CallEnds(r)

Next == \/ Start
        \/ \E r \in Calls : CallStep(r)
        \/ \E p \in Players, i \in Ids : \/ ConfirmTrade(p, i) \/ RejectTrade(p, i)
                                         \/ ReceiveTradeOutcome(p, i)
        \/ ActiveTradeSession \/ Tick

Spec == Init /\ [][Next]_vars

-----------------------------------------------------------------------------
(* Properties.                                                             *)

\* The card of session s that p may still receive.
Owed(p, s) == IF ~Participates(p, s) \/ p \in s.received THEN None
              ELSE IF s.state = "confirmed" THEN Other(p, s) ELSE Own(p, s)

\* "player already has an active trade" (trade_sessions.go:82): nobody is in
\* two trades in which something is undecided or a card is still to be received.
OneTradeAtATime ==
  \A p \in Players : \A i, j \in Ids :
    LET Engaged(s) == \/ Participates(p, s) /\ s.state \in Undecided
                      \/ Owed(p, s) # None
    IN Engaged(session[i]) /\ Engaged(session[j]) => i = j

\* "trader must retain one copy" (trade_sessions.go:321): whatever calls race,
\* trading never takes a player's last copy of a card.
LastCopyKept ==
  Copies > 0 => \A p \in Players, c \in Cards : owned[p][c] > 0

\* Deposits, refunds and outcomes together are one atomic swap, whatever calls
\* race: no card is lost, doubled, or received by the wrong player.
Holding == [p \in Players |-> [c \in Cards |->
              owned[p][c] + Cardinality({i \in Ids : Owed(p, session[i]) = c})]]
Swap == INSTANCE CardSwap WITH holding <- Holding
ImplementsSwap == Swap!Spec

=============================================================================
