----------------------------- MODULE TradeProofs -----------------------------
(***************************************************************************)
(* Proofs about Trade, for any number of players, cards, session ids and   *)
(* requests in flight.                                                     *)
(*                                                                         *)
(* Every step does one of five things to cards and sessions (Effect): a    *)
(* proposal, an answer, a receipt, a confirmation, or rejections; the      *)
(* invariants and the refinement are then argued effect by effect.  That   *)
(* nobody is in two trades needs no more than types; that a confirmation   *)
(* is a swap of CardSwap needs DepositsSpare (both still have another      *)
(* copy) and SessionsSound (nothing was received before it is settled).    *)
(***************************************************************************)
EXTENDS Trade, FiniteSetTheorems, TLAPS

\* What the arguments of a request are, kind by kind.
CallsSound ==
  \A r \in Calls :
    /\ call[r].kind = "submit" => call[r].partner # call[r].player /\ call[r].card \in Cards
    /\ call[r].kind = "accept" => call[r].id \in Ids /\ call[r].card \in Cards
    /\ call[r].kind = "deposit" => call[r].id \in Ids

\* The fields of a session agree with its state.
SessionsSound ==
  \A i \in Ids : session[i] # NoSession =>
    /\ session[i].proposer # session[i].partner
    /\ session[i].state \in Undecided => session[i].received = {}
    /\ session[i].state = "waiting" => session[i].answer = None
    /\ session[i].state \in {"answered", "confirmed"} => session[i].answer # None

\* A card in an undecided trade was not the last copy, and its player has kept
\* one since.
DepositsSpare ==
  \A i \in Ids :
    /\ session[i].state \in Undecided =>
         owned[session[i].proposer][session[i].given] >= 1
    /\ session[i].state = "answered" =>
         owned[session[i].partner][session[i].answer] >= 1

IInv == /\ TypeOK /\ CallsSound /\ SessionsSound /\ DepositsSpare
        /\ OneTradeAtATime /\ LastCopyKept

-----------------------------------------------------------------------------
(* Records.                                                                *)

LEMMA CallFields ==
  ASSUME NEW k \in Call \cup {NoCall}, k.kind # "none" \/ k.pc # "none"
  PROVE  /\ k \in Call
         /\ k.kind \in Kinds /\ k.player \in Players /\ k.partner \in Players
         /\ k.id \in Ids \cup {None} /\ k.card \in Cards \cup {None}
         /\ k.pc \in {"read", "write", "act"} /\ k.of \in Players
         /\ k.read \in TradeState /\ k.power \in 0..PowerLimit /\ k.blocked \in BOOLEAN
BY DEF Call, NoCall

LEMMA SessionFields ==
  ASSUME NEW s \in Session \cup {NoSession}, s.state # "none"
  PROVE  /\ s \in Session
         /\ s.proposer \in Players /\ s.partner \in Players /\ s.given \in Cards
         /\ s.answer \in Cards \cup {None} /\ s.state \in Undecided \cup Settled
         /\ s.received \subseteq Players /\ s.expire \in Nat
BY DEF Session, NoSession

\* Nobody takes part in a session that does not exist.
LEMMA OnlyPlayersParticipate ==
  ASSUME NEW s \in Session \cup {NoSession}, NEW p \in Players, Participates(p, s)
  PROVE  s \in Session /\ s.state # "none"
BY TradeAssumption DEF Participates, NoSession, Session, Undecided, Settled

LEMMA RegeneratedType ==
  ASSUME now \in Nat, NEW st \in TradeState
  PROVE  Regenerated(st) \in TradeState
<1> DEFINE steps == (now - st.updated) \div Period
<1>1. st.power \in 0..PowerLimit /\ st.updated \in Int
  BY DEF TradeState
<1>2. steps \in Int /\ (now >= st.updated => steps >= 0)
  BY <1>1, TradeAssumption
<1> HIDE DEF steps
<1>3. CASE st.power >= PowerLimit \/ now < st.updated \/ steps = 0
  BY <1>3 DEF Regenerated, steps
<1>4. CASE ~(st.power >= PowerLimit \/ now < st.updated \/ steps = 0)
  <2>1. steps \in Nat /\ st.updated + steps * Period \in Int
    BY <1>1, <1>2, <1>4, TradeAssumption
  <2>2. /\ IF st.power + steps > PowerLimit THEN PowerLimit \in 0..PowerLimit
                                            ELSE st.power + steps \in 0..PowerLimit
    BY <1>1, <2>1, TradeAssumption
  <2>3. Regenerated(st) = [power   |-> IF st.power + steps > PowerLimit THEN PowerLimit
                                       ELSE st.power + steps,
                           updated |-> st.updated + steps * Period]
    BY <1>4 DEF Regenerated, steps
  <2> QED
    BY <2>1, <2>2, <2>3 DEF TradeState
<1> QED
  BY <1>3, <1>4

LEMMA SpentType ==
  ASSUME NEW st \in TradeState PROVE Spent(st) \in TradeState
BY TradeAssumption DEF Spent, TradeState

-----------------------------------------------------------------------------
(* Types and arguments.                                                    *)

Typed == TypeOK /\ CallsSound

LEMMA InitTyped == Init => Typed
<1> SUFFICES ASSUME Init PROVE Typed
  OBVIOUS
<1> USE DEF Init
<1>1. trade \in [Players -> TradeState]
  <2>1. ASSUME NEW st \in [power : Powers, updated : {0}] PROVE st \in TradeState
    <3>1. /\ st = [power |-> st.power, updated |-> st.updated]
          /\ st.power \in Powers /\ st.updated = 0
      OBVIOUS
    <3>2. st.power \in 0..PowerLimit
      BY <3>1, TradeAssumption
    <3> QED
      BY <3>1, <3>2 DEF TradeState
  <2> QED
    BY <2>1
<1>2. call \in [Calls -> Call \cup {NoCall}] /\ session \in [Ids -> Session \cup {NoSession}]
  OBVIOUS
<1>3. owned \in [Players -> [Cards -> Nat]] /\ blocked \subseteq Players /\ now \in 0..MaxTime
  BY TradeAssumption
<1>4. CallsSound
  BY DEF CallsSound, NoCall
<1> QED
  BY <1>1, <1>2, <1>3, <1>4 DEF Typed, TypeOK

\* The beginning of a request.
LEMMA BeginTyped ==
  ASSUME Typed, NEW r \in Calls, NEW kind, NEW p \in Players, NEW q \in Players,
         NEW i \in Ids \cup {None}, NEW c \in Cards \cup {None},
         Begin(r, kind, p, q, i, c),
         kind = "submit" => p # q /\ c \in Cards,
         kind = "accept" => i \in Ids /\ c \in Cards,
         kind = "deposit" => i \in Ids
  PROVE  Typed'
<1> DEFINE k == [kind |-> kind, player |-> p, partner |-> q, id |-> i, card |-> c,
                 pc |-> "write", of |-> p, read |-> Regenerated(trade[p]),
                 power |-> Regenerated(trade[p]).power, blocked |-> FALSE]
<1>1. Regenerated(trade[p]) \in TradeState
  BY RegeneratedType, TradeAssumption DEF Typed, TypeOK
<1>2. k \in Call
  BY <1>1 DEF Begin, Call, TradeState
<1>3. call' = [call EXCEPT ![r] = k]
  BY DEF Begin
<1>4. k.kind = kind /\ k.player = p /\ k.partner = q /\ k.id = i /\ k.card = c
  OBVIOUS
<1> HIDE DEF k
<1>5. /\ call' \in [Calls -> Call \cup {NoCall}]
      /\ call'[r] = k /\ \A x \in Calls \ {r} : call'[x] = call[x]
  BY <1>2, <1>3 DEF Typed, TypeOK
<1>6. TypeOK'
  BY <1>5 DEF Typed, TypeOK, Begin
<1>7. CallsSound'
  BY <1>4, <1>5 DEF Typed, CallsSound
<1> QED
  BY <1>6, <1>7 DEF Typed

LEMMA StartTyped == Typed /\ Start => Typed'
BY BeginTyped DEF Start

\* A request goes on with the arguments it has, or ends.
LEMMA CallGoesOn ==
  ASSUME Typed, NEW r \in Calls, NEW k \in Call \cup {NoCall},
         call' = [call EXCEPT ![r] = k],
         \/ k = NoCall
         \/ /\ k.kind = call[r].kind /\ k.player = call[r].player
            /\ k.partner = call[r].partner /\ k.id = call[r].id /\ k.card = call[r].card
  PROVE  call' \in [Calls -> Call \cup {NoCall}] /\ CallsSound'
<1>1. /\ call' \in [Calls -> Call \cup {NoCall}]
      /\ call'[r] = k /\ \A x \in Calls \ {r} : call'[x] = call[x]
  BY DEF Typed, TypeOK
<1>2. k = NoCall => k.kind \notin {"submit", "accept", "deposit"}
  BY DEF NoCall
<1> QED
  BY <1>1, <1>2 DEF Typed, CallsSound

LEMMA ReadPartnerTyped ==
  ASSUME Typed, NEW r \in Calls, ReadPartner(r)
  PROVE  Typed'
<1> DEFINE b == call[r].partner \in blocked
           k == [call[r] EXCEPT !.pc = "write", !.of = call[r].partner,
                                !.read = Regenerated(trade[call[r].partner]),
                                !.blocked = b]
<1>1. call[r] \in Call
  BY CallFields DEF Typed, TypeOK, ReadPartner
<1>2. call[r].partner \in Players
  BY <1>1 DEF Call
<1>3. Regenerated(trade[call[r].partner]) \in TradeState
  BY <1>2, RegeneratedType, TradeAssumption DEF Typed, TypeOK
<1>0. b \in BOOLEAN
  OBVIOUS
<1> HIDE DEF b
<1>4. k \in Call
  BY <1>0, <1>1, <1>2, <1>3 DEF Call
<1>5. /\ k.kind = call[r].kind /\ k.player = call[r].player
      /\ k.partner = call[r].partner /\ k.id = call[r].id /\ k.card = call[r].card
  BY <1>1 DEF Call
<1>6. call' = [call EXCEPT ![r] = k]
  BY DEF ReadPartner, b
<1> HIDE DEF k
<1>7. call' \in [Calls -> Call \cup {NoCall}] /\ CallsSound'
  BY <1>4, <1>5, <1>6, CallGoesOn
<1> QED
  BY <1>7 DEF Typed, TypeOK, ReadPartner

LEMMA StoreTradeStateTyped ==
  ASSUME Typed, NEW r \in Calls, StoreTradeState(r)
  PROVE  Typed'
<1> DEFINE k == [call[r] EXCEPT !.pc = IF call[r].of # call[r].partner THEN "read" ELSE "act",
                                !.read = Nothing]
<1>1. call[r] \in Call
  BY CallFields DEF Typed, TypeOK, StoreTradeState
<1>2. call[r].of \in Players /\ call[r].read \in TradeState
  BY <1>1 DEF Call
<1>3. Nothing \in TradeState
  BY TradeAssumption DEF Nothing, TradeState
<1>4. k \in Call
  BY <1>1, <1>3 DEF Call
<1>5. /\ k.kind = call[r].kind /\ k.player = call[r].player
      /\ k.partner = call[r].partner /\ k.id = call[r].id /\ k.card = call[r].card
  BY <1>1 DEF Call
<1>6. call' = [call EXCEPT ![r] = k] /\ trade' = [trade EXCEPT ![call[r].of] = call[r].read]
  BY DEF StoreTradeState
<1> HIDE DEF k
<1>7. call' \in [Calls -> Call \cup {NoCall}] /\ CallsSound'
  BY <1>4, <1>5, <1>6, CallGoesOn
<1>8. trade' \in [Players -> TradeState]
  BY <1>2, <1>6 DEF Typed, TypeOK
<1> QED
  BY <1>7, <1>8 DEF Typed, TypeOK, StoreTradeState

\* The request of a call that is past its reads.
LEMMA ActingCall ==
  ASSUME Typed, NEW r \in Calls, NEW kind, Acts(r, kind)
  PROVE  /\ call[r].player \in Players /\ call[r].partner \in Players
         /\ call[r].power \in 0..PowerLimit
         /\ kind = "submit" => call[r].partner # call[r].player /\ call[r].card \in Cards
         /\ kind = "accept" => call[r].id \in Ids /\ call[r].card \in Cards
         /\ kind = "deposit" => call[r].id \in Ids
<1>1. call[r] \in Call \cup {NoCall} /\ call[r].pc = "act" /\ call[r].kind = kind
  BY DEF Typed, TypeOK, Acts
<1>2. call[r].player \in Players /\ call[r].partner \in Players /\ call[r].power \in 0..PowerLimit
  BY <1>1, CallFields
<1> QED
  BY <1>1, <1>2 DEF Typed, CallsSound

LEMMA ReturnTyped ==
  ASSUME Typed, NEW r \in Calls, Return(r)
  PROVE  call' \in [Calls -> Call \cup {NoCall}] /\ CallsSound'
BY CallGoesOn DEF Return
-----------------------------------------------------------------------------
(* What the transactions do: one card, one session.                        *)

Takes(p, c) == /\ Spare(p, c) /\ owned'[p][c] = owned[p][c] - 1
               /\ \A q \in Players, d \in Cards :
                    <<q, d>> # <<p, c>> => owned'[q][d] = owned[q][d]
Gives(p, c) == /\ owned'[p][c] = owned[p][c] + 1
               /\ \A q \in Players, d \in Cards :
                    <<q, d>> # <<p, c>> => owned'[q][d] = owned[q][d]
Stores(i, s) == /\ s \in Session /\ session'[i] = s
                /\ \A j \in Ids \ {i} : session'[j] = session[j]

LEMMA TakesTyped ==
  ASSUME TypeOK, NEW p \in Players, NEW c \in Cards, Spare(p, c),
         owned' = [owned EXCEPT ![p][c] = @ - 1]
  PROVE  Takes(p, c) /\ owned' \in [Players -> [Cards -> Nat]]
<1>1. owned[p] \in [Cards -> Nat] /\ owned[p][c] >= 2
  BY DEF TypeOK, Spare
<1>2. [owned[p] EXCEPT ![c] = @ - 1] \in [Cards -> Nat]
  BY <1>1
<1> QED
  BY <1>1, <1>2 DEF TypeOK, Takes

LEMMA GivesTyped ==
  ASSUME TypeOK, NEW p \in Players, NEW c \in Cards,
         owned' = [owned EXCEPT ![p][c] = @ + 1]
  PROVE  Gives(p, c) /\ owned' \in [Players -> [Cards -> Nat]]
<1>1. owned[p] \in [Cards -> Nat]
  BY DEF TypeOK
<1>2. [owned[p] EXCEPT ![c] = @ + 1] \in [Cards -> Nat]
  BY <1>1
<1> QED
  BY <1>1, <1>2 DEF TypeOK, Gives

LEMMA StoresTyped ==
  ASSUME TypeOK, NEW i \in Ids, NEW s \in Session, session' = [session EXCEPT ![i] = s]
  PROVE  Stores(i, s) /\ session' \in [Ids -> Session \cup {NoSession}]
BY DEF TypeOK, Stores

\* The power of one player, whatever it is set to.
LEMMA TradeTyped ==
  ASSUME TypeOK, NEW p \in Players, NEW st \in TradeState, trade' = [trade EXCEPT ![p] = st]
  PROVE  trade' \in [Players -> TradeState]
BY DEF TypeOK

\* p proposes card c to q, in the new session i.
Proposes(p, q, c, i, s) ==
  /\ p # q /\ Takes(p, c) /\ session[i] = NoSession /\ Stores(i, s)
  /\ \A j \in Ids : ~Active(p, session[j]) /\ ~Active(q, session[j])
  /\ s.proposer = p /\ s.partner = q /\ s.given = c /\ s.answer = None
  /\ s.state = "waiting" /\ s.received = {}

LEMMA SubmitEffect ==
  ASSUME Typed, NEW r \in Calls, SubmitTrade(r)
  PROVE  /\ Typed'
         /\ \E p, q \in Players, c \in Cards, i \in Ids, s \in Session :
              Proposes(p, q, c, i, s)
<1> DEFINE p == call[r].player
           q == call[r].partner
           c == call[r].card
<1>1. p \in Players /\ q \in Players /\ c \in Cards /\ p # q
  BY ActingCall DEF SubmitTrade
<1>2. Spare(p, c) /\ owned' = [owned EXCEPT ![p][c] = @ - 1]
  BY DEF SubmitTrade
<1>3. \A j \in Ids : ~Active(p, session[j]) /\ ~Active(q, session[j])
  BY <1>1 DEF SubmitTrade
<1>4. trade' = [trade EXCEPT ![p] = Spent(trade[p])]
  BY <1>1 DEF SubmitTrade, Typed, TypeOK
<1>5. PICK i \in Ids :
        /\ session[i] = NoSession
        /\ session' = [session EXCEPT ![i] =
             [proposer |-> p, partner |-> q, given |-> c, answer |-> None,
              state |-> "waiting", received |-> {}, expire |-> now + Lifetime]]
  BY DEF SubmitTrade
<1> DEFINE s == [proposer |-> p, partner |-> q, given |-> c, answer |-> None,
                 state |-> "waiting", received |-> {}, expire |-> now + Lifetime]
<1>6. s \in Session
  BY <1>1, TradeAssumption DEF Typed, TypeOK, Session, Undecided
<1>7. /\ s.proposer = p /\ s.partner = q /\ s.given = c /\ s.answer = None
      /\ s.state = "waiting" /\ s.received = {}
  OBVIOUS
<1>8. session' = [session EXCEPT ![i] = s]
  BY <1>5
<1> HIDE DEF s, p, q, c
<1>9. Stores(i, s) /\ session' \in [Ids -> Session \cup {NoSession}]
  BY <1>6, <1>8, StoresTyped DEF Typed
<1>10. Takes(p, c) /\ owned' \in [Players -> [Cards -> Nat]]
  BY <1>1, <1>2, TakesTyped DEF Typed
<1>11. trade' \in [Players -> TradeState]
  BY <1>1, <1>4, SpentType, TradeTyped DEF Typed, TypeOK
<1>12. call' \in [Calls -> Call \cup {NoCall}] /\ CallsSound'
  BY ReturnTyped DEF SubmitTrade
<1>13. Typed'
  BY <1>9, <1>10, <1>11, <1>12 DEF Typed, TypeOK, SubmitTrade
<1> QED
  BY <1>1, <1>3, <1>5, <1>6, <1>7, <1>9, <1>10, <1>13 DEF Proposes

\* What the other transactions keep of a session.
SameTrade(s, t) == /\ s.proposer = t.proposer /\ s.partner = t.partner
                   /\ s.given = t.given /\ s.expire = t.expire

\* p answers the proposal in session i with card c.
Answers(p, c, i, s) ==
  /\ Answerable(p, session[i]) /\ Takes(p, c) /\ Stores(i, s)
  /\ SameTrade(s, session[i]) /\ s.received = session[i].received
  /\ s.answer = c /\ s.state = "answered"

LEMMA AcceptEffect ==
  ASSUME Typed, NEW r \in Calls, AcceptTrade(r)
  PROVE  /\ Typed'
         /\ \E p \in Players, c \in Cards, i \in Ids, s \in Session : Answers(p, c, i, s)
<1> DEFINE p == call[r].player
           i == call[r].id
           c == call[r].card
           s == [session[i] EXCEPT !.answer = c, !.state = "answered"]
<1>1. p \in Players /\ i \in Ids /\ c \in Cards
  BY ActingCall DEF AcceptTrade
<1>2. /\ Answerable(p, session[i]) /\ Spare(p, c)
      /\ owned' = [owned EXCEPT ![p][c] = @ - 1]
  BY DEF AcceptTrade
<1>3. trade' = [trade EXCEPT ![p] = Spent(trade[p])]
  BY <1>1 DEF AcceptTrade, Typed, TypeOK
<1>4. session[i] \in Session
  BY <1>1, <1>2, SessionFields DEF Typed, TypeOK, Answerable
<1>5. s \in Session
  BY <1>1, <1>4 DEF Session, Undecided
<1>6. /\ SameTrade(s, session[i]) /\ s.received = session[i].received
      /\ s.answer = c /\ s.state = "answered"
  BY <1>4 DEF Session, SameTrade
<1>7. session' = [session EXCEPT ![i] = s]
  BY <1>1, <1>4 DEF AcceptTrade, Typed, TypeOK
<1> HIDE DEF s, p, i, c
<1>8. Stores(i, s) /\ session' \in [Ids -> Session \cup {NoSession}]
  BY <1>1, <1>5, <1>7, StoresTyped DEF Typed
<1>9. Takes(p, c) /\ owned' \in [Players -> [Cards -> Nat]]
  BY <1>1, <1>2, TakesTyped DEF Typed
<1>10. trade' \in [Players -> TradeState]
  BY <1>1, <1>3, SpentType, TradeTyped DEF Typed, TypeOK
<1>11. call' \in [Calls -> Call \cup {NoCall}] /\ CallsSound'
  BY ReturnTyped DEF AcceptTrade
<1>12. Typed'
  BY <1>8, <1>9, <1>10, <1>11 DEF Typed, TypeOK, AcceptTrade
<1> QED
  BY <1>1, <1>2, <1>5, <1>6, <1>8, <1>9, <1>12 DEF Answers
\* Player p receives card c, its own or the other's, of session i.
ReceivesIn(p, c, i, s) ==
  /\ Participates(p, session[i]) /\ session[i].state \in Settled
  /\ p \notin session[i].received /\ c # None
  /\ c = IF session[i].state = "confirmed" THEN Other(p, session[i]) ELSE Own(p, session[i])
  /\ Gives(p, c) /\ Stores(i, s) /\ SameTrade(s, session[i])
  /\ s.answer = session[i].answer /\ s.state = session[i].state
  /\ s.received = session[i].received \cup {p}

\* The card and the session of a receipt.
LEMMA Receipt ==
  ASSUME Typed, NEW p \in Players, NEW i \in Ids,
         Participates(p, session[i]), session[i].state \in Settled,
         p \notin session[i].received,
         NEW c, c # None,
         c = IF session[i].state = "confirmed" THEN Other(p, session[i])
                                               ELSE Own(p, session[i]),
         owned' = [owned EXCEPT ![p][c] = @ + 1],
         session' = [session EXCEPT ![i].received = @ \cup {p}]
  PROVE  /\ owned' \in [Players -> [Cards -> Nat]]
         /\ session' \in [Ids -> Session \cup {NoSession}]
         /\ c \in Cards /\ \E s \in Session : ReceivesIn(p, c, i, s)
<1> DEFINE s == [session[i] EXCEPT !.received = @ \cup {p}]
<1>1. session[i] \in Session
  BY OnlyPlayersParticipate DEF Typed, TypeOK
<1>2. c \in Cards
  BY <1>1, SessionFields, OnlyPlayersParticipate DEF Own, Other, Typed, TypeOK, Session
<1>3. s \in Session
  BY <1>1 DEF Session
<1>4. /\ SameTrade(s, session[i]) /\ s.answer = session[i].answer
      /\ s.state = session[i].state /\ s.received = session[i].received \cup {p}
  BY <1>1 DEF Session, SameTrade
<1>5. session' = [session EXCEPT ![i] = s]
  BY <1>1 DEF Typed, TypeOK
<1> HIDE DEF s
<1>6. Stores(i, s) /\ session' \in [Ids -> Session \cup {NoSession}]
  BY <1>3, <1>5, StoresTyped DEF Typed
<1>7. Gives(p, c) /\ owned' \in [Players -> [Cards -> Nat]]
  BY <1>2, GivesTyped DEF Typed
<1> QED
  BY <1>2, <1>3, <1>4, <1>6, <1>7 DEF ReceivesIn

LEMMA DepositEffect ==
  ASSUME Typed, NEW r \in Calls, ReceiveTradeDeposit(r)
  PROVE  /\ Typed'
         /\ \E p \in Players, c \in Cards, i \in Ids, s \in Session : ReceivesIn(p, c, i, s)
<1> DEFINE p == call[r].player
           i == call[r].id
           c == Own(p, session[i])
<1>1. p \in Players /\ i \in Ids /\ call[r].power \in 0..PowerLimit
  BY ActingCall DEF ReceiveTradeDeposit
<1>2. /\ Participates(p, session[i]) /\ session[i].state = "rejected" /\ c # None
      /\ p \notin session[i].received
      /\ owned' = [owned EXCEPT ![p][c] = @ + 1]
      /\ session' = [session EXCEPT ![i].received = @ \cup {p}]
  BY DEF ReceiveTradeDeposit
<1>3. trade' = IF call[r].power < PowerLimit
               THEN [trade EXCEPT ![p].power = call[r].power + 1] ELSE trade
  BY DEF ReceiveTradeDeposit
<1> HIDE DEF p, i, c
<1>4. /\ owned' \in [Players -> [Cards -> Nat]]
      /\ session' \in [Ids -> Session \cup {NoSession}]
      /\ c \in Cards /\ \E s \in Session : ReceivesIn(p, c, i, s)
  <2>1. session[i].state \in Settled /\ session[i].state # "confirmed"
    BY <1>2 DEF Settled
  <2> QED
    BY <1>1, <1>2, <2>1, Receipt DEF c
<1>5. trade' \in [Players -> TradeState]
  <2>1. CASE call[r].power < PowerLimit
    <3>1. call[r].power + 1 \in 0..PowerLimit
      BY <1>1, <2>1, TradeAssumption
    <3>2. [trade[p] EXCEPT !.power = call[r].power + 1] \in TradeState
      BY <1>1, <3>1 DEF Typed, TypeOK, TradeState
    <3> QED
      BY <1>1, <1>3, <2>1, <3>2 DEF Typed, TypeOK
  <2> QED
    BY <1>3, <2>1 DEF Typed, TypeOK
<1>6. call' \in [Calls -> Call \cup {NoCall}] /\ CallsSound'
  BY ReturnTyped DEF ReceiveTradeDeposit
<1>7. Typed'
  BY <1>4, <1>5, <1>6 DEF Typed, TypeOK, ReceiveTradeDeposit
<1> QED
  BY <1>1, <1>4, <1>7

LEMMA OutcomeEffect ==
  ASSUME Typed, NEW p \in Players, NEW i \in Ids, ReceiveTradeOutcome(p, i)
  PROVE  /\ Typed'
         /\ \E c \in Cards, s \in Session : ReceivesIn(p, c, i, s)
<1> DEFINE c == Other(p, session[i])
<1>1. /\ Participates(p, session[i]) /\ session[i].state = "confirmed" /\ c # None
      /\ p \notin session[i].received
      /\ owned' = [owned EXCEPT ![p][c] = @ + 1]
      /\ session' = [session EXCEPT ![i].received = @ \cup {p}]
  BY DEF ReceiveTradeOutcome
<1>2. session[i].state \in Settled
  BY <1>1 DEF Settled
<1> HIDE DEF c
<1>3. /\ owned' \in [Players -> [Cards -> Nat]]
      /\ session' \in [Ids -> Session \cup {NoSession}]
      /\ c \in Cards /\ \E s \in Session : ReceivesIn(p, c, i, s)
  BY <1>1, <1>2, Receipt DEF c
<1>4. Typed'
  BY <1>3 DEF Typed, TypeOK, CallsSound, ReceiveTradeOutcome
<1> QED
  BY <1>3, <1>4

\* Session i is decided, and nothing else changes.
Decides(i, s, state) ==
  /\ session[i].state \in Undecided /\ Stores(i, s) /\ SameTrade(s, session[i])
  /\ s.answer = session[i].answer /\ s.received = session[i].received
  /\ s.state = state /\ owned' = owned

LEMMA SettleEffect ==
  ASSUME Typed, NEW i \in Ids, NEW state \in Settled, Settle(i, state),
         session[i].state \in Undecided
  PROVE  Typed' /\ \E s \in Session : Decides(i, s, state)
<1> DEFINE s == [session[i] EXCEPT !.state = state]
<1>1. session[i] \in Session
  BY SessionFields DEF Typed, TypeOK, Undecided
<1>2. s \in Session
  BY <1>1 DEF Session
<1>3. /\ SameTrade(s, session[i]) /\ s.answer = session[i].answer
      /\ s.received = session[i].received /\ s.state = state
  BY <1>1 DEF Session, SameTrade
<1>4. session' = [session EXCEPT ![i] = s]
  BY <1>1 DEF Settle, Typed, TypeOK
<1> HIDE DEF s
<1>5. Stores(i, s) /\ session' \in [Ids -> Session \cup {NoSession}]
  BY <1>2, <1>4, StoresTyped DEF Typed
<1>6. Typed'
  BY <1>5 DEF Typed, TypeOK, CallsSound, Settle
<1> QED
  BY <1>2, <1>3, <1>5, <1>6 DEF Decides, Settle

\* Every session stays, or is rejected while it is undecided.
Expires ==
  /\ owned' = owned
  /\ \A i \in Ids :
       \/ session'[i] = session[i]
       \/ /\ session[i].state \in Undecided /\ session'[i] \in Session
          /\ SameTrade(session'[i], session[i])
          /\ session'[i].answer = session[i].answer
          /\ session'[i].received = session[i].received
          /\ session'[i].state = "rejected"

LEMMA ExpiryEffect ==
  ASSUME Typed, ActiveTradeSession
  PROVE  Typed' /\ Expires
<1>1. ASSUME NEW i \in Ids, i \in Due
      PROVE  /\ session[i].state \in Undecided /\ session'[i] \in Session
             /\ SameTrade(session'[i], session[i])
             /\ session'[i].answer = session[i].answer
             /\ session'[i].received = session[i].received
             /\ session'[i].state = "rejected"
  <2> DEFINE s == [session[i] EXCEPT !.state = "rejected"]
  <2>1. session[i].state \in Undecided
    BY <1>1 DEF Due
  <2>2. session[i] \in Session
    BY <2>1, SessionFields DEF Typed, TypeOK, Undecided
  <2>3. session'[i] = s
    BY <1>1 DEF ActiveTradeSession
  <2>4. s \in Session
    BY <2>2 DEF Session, Settled
  <2> QED
    BY <2>1, <2>2, <2>3, <2>4 DEF Session, SameTrade
<1>2. ASSUME NEW i \in Ids, i \notin Due PROVE session'[i] = session[i]
  BY <1>2 DEF ActiveTradeSession
<1>3. session' \in [Ids -> Session \cup {NoSession}]
  <2>1. \A i \in Ids : session'[i] \in Session \cup {NoSession}
    BY <1>1, <1>2 DEF Typed, TypeOK
  <2> QED
    BY <2>1 DEF ActiveTradeSession
<1>4. Typed'
  BY <1>3 DEF Typed, TypeOK, CallsSound, ActiveTradeSession
<1> QED
  BY <1>1, <1>2, <1>4 DEF Expires, ActiveTradeSession
\* What a step can do to cards and sessions.
Effect ==
  \/ \E p, q \in Players, c \in Cards, i \in Ids, s \in Session : Proposes(p, q, c, i, s)
  \/ \E p \in Players, c \in Cards, i \in Ids, s \in Session : Answers(p, c, i, s)
  \/ \E p \in Players, c \in Cards, i \in Ids, s \in Session : ReceivesIn(p, c, i, s)
  \/ \E p \in Players, i \in Ids, s \in Session :
       /\ session[i].state = "answered" /\ session[i].proposer = p
       /\ Decides(i, s, "confirmed")
  \/ Expires

LEMMA HealTyped ==
  ASSUME Typed, NEW r \in Calls, HealTradePower(r)
  PROVE  Typed'
<1> DEFINE p == call[r].player
           st == Regenerated(trade[p])
<1>1. p \in Players
  BY ActingCall DEF HealTradePower
<1>2. now \in Nat /\ trade[p] \in TradeState
  BY <1>1, TradeAssumption DEF Typed, TypeOK
<1>3. st \in TradeState
  BY <1>2, RegeneratedType
<1>4. PICK n \in 1..MaxCharge :
        trade' = [trade EXCEPT ![p] =
                    Regenerated([power |-> st.power, updated |-> st.updated - n])]
  BY DEF HealTradePower
<1> HIDE DEF st, p
<1>5. [power |-> st.power, updated |-> st.updated - n] \in TradeState
  BY <1>3, TradeAssumption DEF TradeState
<1>6. Regenerated([power |-> st.power, updated |-> st.updated - n]) \in TradeState
  BY <1>2, <1>5, RegeneratedType
<1>7. trade' \in [Players -> TradeState]
  BY <1>1, <1>4, <1>6, TradeTyped DEF Typed
<1>8. call' \in [Calls -> Call \cup {NoCall}] /\ CallsSound'
  BY ReturnTyped DEF HealTradePower
<1> QED
  BY <1>7, <1>8 DEF Typed, TypeOK, HealTradePower

LEMMA NextEffect == Typed /\ [Next]_vars => Typed' /\ Effect
<1> SUFFICES ASSUME Typed, [Next]_vars PROVE Typed' /\ Effect
  OBVIOUS
<1>1. (owned' = owned /\ session' = session) => Effect
  BY DEF Effect, Expires
<1>2. CASE Start
  BY <1>1, <1>2, StartTyped DEF Start, Begin
<1>3. ASSUME NEW r \in Calls, CallStep(r) PROVE Typed' /\ Effect
  <2>1. CASE ReadPartner(r)
    BY <1>1, <2>1, ReadPartnerTyped DEF ReadPartner
  <2>2. CASE StoreTradeState(r)
    BY <1>1, <2>2, StoreTradeStateTyped DEF StoreTradeState
  <2>3. CASE SubmitTrade(r)
    BY <2>3, SubmitEffect DEF Effect
  <2>4. CASE AcceptTrade(r)
    BY <2>4, AcceptEffect DEF Effect
  <2>5. CASE ReceiveTradeDeposit(r)
    BY <2>5, DepositEffect DEF Effect
  <2>6. CASE HealTradePower(r)
    BY <1>1, <2>6, HealTyped DEF HealTradePower
  <2>7. CASE SaveTradeSettings(r)
    <3>1. blocked' \subseteq Players
      BY <2>7, ActingCall DEF SaveTradeSettings, Typed, TypeOK
    <3>2. call' \in [Calls -> Call \cup {NoCall}] /\ CallsSound'
      BY <2>7, ReturnTyped DEF SaveTradeSettings
    <3> QED
      BY <1>1, <2>7, <3>1, <3>2 DEF SaveTradeSettings, Typed, TypeOK
  <2>8. CASE CallEnds(r)
    <3>1. call' \in [Calls -> Call \cup {NoCall}] /\ CallsSound'
      BY <2>8, ReturnTyped DEF CallEnds
    <3> QED
      BY <1>1, <2>8, <3>1 DEF CallEnds, Typed, TypeOK
  <2> QED
    BY <1>3, <2>1, <2>2, <2>3, <2>4, <2>5, <2>6, <2>7, <2>8 DEF CallStep
<1>4. ASSUME NEW p \in Players, NEW i \in Ids, ConfirmTrade(p, i) PROVE Typed' /\ Effect
  <2>1. /\ session[i].state = "answered" /\ session[i].proposer = p
        /\ Settle(i, "confirmed")
    BY <1>4 DEF ConfirmTrade
  <2>2. "confirmed" \in Settled /\ session[i].state \in Undecided
    BY <2>1 DEF Settled, Undecided
  <2>3. Typed' /\ \E s \in Session : Decides(i, s, "confirmed")
    BY <2>1, <2>2, SettleEffect
  <2> QED
    BY <2>1, <2>3 DEF Effect
<1>5. ASSUME NEW p \in Players, NEW i \in Ids, RejectTrade(p, i) PROVE Typed' /\ Effect
  <2>1. "rejected" \in Settled /\ session[i].state \in Undecided /\ Settle(i, "rejected")
    BY <1>5 DEF Settled, RejectTrade
  <2>2. Typed' /\ \E s \in Session : Decides(i, s, "rejected")
    BY <2>1, SettleEffect
  <2>3. Expires
    BY <2>2 DEF Decides, Stores, Expires
  <2> QED
    BY <2>2, <2>3 DEF Effect
<1>6. ASSUME NEW p \in Players, NEW i \in Ids, ReceiveTradeOutcome(p, i)
      PROVE  Typed' /\ Effect
  BY <1>6, OutcomeEffect DEF Effect
<1>7. CASE ActiveTradeSession
  BY <1>7, ExpiryEffect DEF Effect
<1>8. CASE Tick
  BY <1>1, <1>8, TradeAssumption DEF Tick, Typed, TypeOK, CallsSound
<1>9. CASE UNCHANGED vars
  BY <1>1, <1>9 DEF vars, Typed, TypeOK, CallsSound
<1> QED
  BY <1>2, <1>3, <1>4, <1>5, <1>6, <1>7, <1>8, <1>9 DEF Next

\* Every variable has its type in every reachable state: no trade power below
\* zero or above its limit, whatever calls with stale reads race.
THEOREM TypeCorrect == Spec => []TypeOK
<1>1. Typed => TypeOK
  BY DEF Typed
<1> QED
  BY <1>1, InitTyped, NextEffect, PTL DEF Spec
-----------------------------------------------------------------------------
(* The invariants.                                                         *)

LEMMA SessionsSoundKept ==
  ASSUME Typed, Effect, SessionsSound
  PROVE  SessionsSound'
<1>1. \A s \in Session : s.state # "none" /\ s # NoSession
  BY DEF Session, NoSession, Undecided, Settled
<1>2. ASSUME NEW p \in Players, NEW q \in Players, NEW c \in Cards, NEW i \in Ids,
             NEW s \in Session, Proposes(p, q, c, i, s)
      PROVE  SessionsSound'
  BY <1>2 DEF SessionsSound, Proposes, Stores
<1>3. ASSUME NEW p \in Players, NEW c \in Cards, NEW i \in Ids, NEW s \in Session,
             Answers(p, c, i, s)
      PROVE  SessionsSound'
  <2>1. session[i].state = "waiting" /\ session[i] # NoSession /\ c # None
    BY <1>3, TradeAssumption DEF Answers, Answerable, NoSession
  <2>2. session[i].received = {}
    BY <2>1 DEF SessionsSound, Undecided
  <2> QED
    BY <1>3, <2>1, <2>2 DEF SessionsSound, Answers, Stores, SameTrade
<1>4. ASSUME NEW p \in Players, NEW c \in Cards, NEW i \in Ids, NEW s \in Session,
             ReceivesIn(p, c, i, s)
      PROVE  SessionsSound'
  <2>1. session[i] # NoSession /\ session[i].state \notin Undecided
    BY <1>4 DEF ReceivesIn, NoSession, Settled, Undecided
  <2> QED
    BY <1>4, <2>1 DEF SessionsSound, ReceivesIn, Stores, SameTrade, Undecided
<1>5. ASSUME NEW i \in Ids, NEW s \in Session, session[i].state = "answered",
             Decides(i, s, "confirmed")
      PROVE  SessionsSound'
  <2>1. session[i] # NoSession
    BY <1>5 DEF NoSession
  <2> QED
    BY <1>5, <2>1 DEF SessionsSound, Decides, Stores, SameTrade, Undecided
<1>6. CASE Expires
  <2> SUFFICES ASSUME NEW i \in Ids, session'[i] # session[i]
               PROVE  /\ session'[i].proposer # session'[i].partner
                      /\ session'[i].state = "rejected"
    BY DEF SessionsSound, Undecided
  <2>1. session[i].state \in Undecided /\ SameTrade(session'[i], session[i])
        /\ session'[i].state = "rejected"
    BY <1>6 DEF Expires
  <2>2. session[i] # NoSession
    BY <2>1 DEF NoSession, Undecided
  <2> QED
    BY <2>1, <2>2 DEF SessionsSound, SameTrade
<1> QED
  BY <1>2, <1>3, <1>4, <1>5, <1>6 DEF Effect

\* Nothing takes a last copy.
LEMMA CopiesStay ==
  ASSUME Typed, Effect, NEW p \in Players, NEW c \in Cards, owned[p][c] >= 1
  PROVE  owned'[p][c] >= 1
<1>1. owned[p][c] \in Nat
  BY DEF Typed, TypeOK
<1>2. ASSUME NEW q \in Players, NEW d \in Cards, Takes(q, d) PROVE owned'[p][c] >= 1
  BY <1>1, <1>2 DEF Takes, Spare
<1>3. ASSUME NEW q \in Players, NEW d \in Cards, Gives(q, d) PROVE owned'[p][c] >= 1
  BY <1>1, <1>3 DEF Gives
<1>4. CASE owned' = owned
  BY <1>4
<1> QED
  BY <1>2, <1>3, <1>4 DEF Effect, Proposes, Answers, ReceivesIn, Decides, Expires

LEMMA LastCopyKeptKept == Typed /\ Typed' /\ Effect /\ LastCopyKept => LastCopyKept'
<1> SUFFICES ASSUME Typed, Typed', Effect, LastCopyKept, Copies > 0,
                    NEW p \in Players, NEW c \in Cards
             PROVE  owned'[p][c] > 0
  BY DEF LastCopyKept
<1>1. owned[p][c] \in Nat /\ owned[p][c] >= 1
  BY DEF LastCopyKept, Typed, TypeOK
<1>2. owned'[p][c] >= 1
  BY <1>1, CopiesStay
<1>3. owned'[p][c] \in Nat
  BY DEF Typed, TypeOK
<1> QED
  BY <1>2, <1>3

LEMMA DepositsSpareKept ==
  ASSUME Typed, Effect, SessionsSound, DepositsSpare
  PROVE  DepositsSpare'
<1> DEFINE Safe(s, o) == /\ s.state \in Undecided => o[s.proposer][s.given] >= 1
                         /\ s.state = "answered" => o[s.partner][s.answer] >= 1
<1>1. \A i \in Ids : Safe(session[i], owned)
  BY DEF DepositsSpare
<1>2. ASSUME NEW i \in Ids PROVE Safe(session[i], owned')
  <2>1. CASE session[i].state \notin Undecided
    BY <2>1 DEF Undecided
  <2>2. CASE session[i].state \in Undecided
    <3>1. session[i].proposer \in Players /\ session[i].partner \in Players
          /\ session[i].given \in Cards /\ session[i].answer \in Cards \cup {None}
      BY <2>2, SessionFields DEF Typed, TypeOK, Undecided
    <3>2. session[i].state = "answered" => session[i].answer \in Cards
      BY <2>2, <3>1 DEF SessionsSound, NoSession
    <3> QED
      BY <1>1, <2>2, <3>1, <3>2, CopiesStay
  <2> QED
    BY <2>1, <2>2
<1>3. ASSUME NEW i \in Ids, NEW s \in Session, Stores(i, s), Safe(s, owned')
      PROVE  DepositsSpare'
  BY <1>2, <1>3 DEF Stores, DepositsSpare
<1>4. ASSUME NEW p \in Players, NEW c \in Cards, Takes(p, c) PROVE owned'[p][c] >= 1
  <2>1. owned[p][c] \in Nat
    BY DEF Typed, TypeOK
  <2> QED
    BY <1>4, <2>1 DEF Takes, Spare
<1>5. ASSUME NEW p \in Players, NEW q \in Players, NEW c \in Cards, NEW i \in Ids,
             NEW s \in Session, Proposes(p, q, c, i, s)
      PROVE  DepositsSpare'
  BY <1>3, <1>4, <1>5 DEF Proposes
<1>6. ASSUME NEW p \in Players, NEW c \in Cards, NEW i \in Ids, NEW s \in Session,
             Answers(p, c, i, s)
      PROVE  DepositsSpare'
  BY <1>2, <1>3, <1>4, <1>6 DEF Answers, Answerable, SameTrade, Undecided
<1>7. ASSUME NEW p \in Players, NEW c \in Cards, NEW i \in Ids, NEW s \in Session,
             ReceivesIn(p, c, i, s)
      PROVE  DepositsSpare'
  <2>1. s.state \notin Undecided
    BY <1>7 DEF ReceivesIn, Settled, Undecided
  <2> QED
    BY <1>3, <1>7, <2>1 DEF ReceivesIn, Undecided
<1>8. ASSUME NEW i \in Ids, NEW s \in Session, Decides(i, s, "confirmed")
      PROVE  DepositsSpare'
  BY <1>3, <1>8 DEF Decides, Undecided
<1>9. CASE Expires
  BY <1>2, <1>9 DEF Expires, DepositsSpare, Undecided
<1> QED
  BY <1>5, <1>6, <1>7, <1>8, <1>9 DEF Effect

\* A trade in which something is undecided or to be received, for p.
Engaged(p, s) == (Participates(p, s) /\ s.state \in Undecided) \/ Owed(p, s) # None

LEMMA EngagedIsActive ==
  ASSUME NEW s \in Session \cup {NoSession}, NEW p \in Players, Engaged(p, s)
  PROVE  Active(p, s)
<1>1. Participates(p, s)
  BY DEF Engaged, Owed
<1>2. s \in Session
  BY <1>1, OnlyPlayersParticipate
<1>3. s.state \in Undecided \cup Settled
  BY <1>2 DEF Session
<1> QED
  BY <1>1, <1>3 DEF Engaged, Owed, Active

LEMMA OneTradeKept ==
  ASSUME Typed, Effect, OneTradeAtATime
  PROVE  OneTradeAtATime'
<1> DEFINE Only(e) == \A p \in Players : \A i, j \in Ids :
                        Engaged(p, e[i]) /\ Engaged(p, e[j]) => i = j
<1>1. OneTradeAtATime <=> Only(session)
  BY DEF OneTradeAtATime, Engaged
<1>2. OneTradeAtATime' <=> Only(session')
  BY DEF OneTradeAtATime, Engaged
<1>3. ASSUME \A p \in Players, i \in Ids : Engaged(p, session'[i]) => Engaged(p, session[i])
      PROVE  Only(session')
  BY <1>1, <1>3
<1>4. ASSUME NEW i \in Ids, NEW s \in Session, Stores(i, s),
             \A p \in Players : Engaged(p, s) => Engaged(p, session[i])
      PROVE  Only(session')
  BY <1>3, <1>4 DEF Stores
<1>5. ASSUME NEW p \in Players, NEW q \in Players, NEW c \in Cards, NEW i \in Ids,
             NEW s \in Session, Proposes(p, q, c, i, s)
      PROVE  Only(session')
  <2>1. \A j \in Ids : ~Engaged(p, session[j]) /\ ~Engaged(q, session[j])
    BY <1>5, EngagedIsActive DEF Proposes, Typed, TypeOK
  <2>2. \A x \in Players : Engaged(x, s) => x \in {p, q}
    BY <1>5 DEF Proposes, Engaged, Owed, Participates
  <2> QED
    BY <1>1, <1>5, <2>1, <2>2 DEF Proposes, Stores
<1>6. ASSUME NEW p \in Players, NEW c \in Cards, NEW i \in Ids, NEW s \in Session,
             Answers(p, c, i, s)
      PROVE  Only(session')
  <2>1. \A x \in Players : Engaged(x, s) => Engaged(x, session[i])
    BY <1>6 DEF Answers, Answerable, SameTrade, Engaged, Owed, Participates, Undecided
  <2> QED
    BY <1>4, <1>6, <2>1 DEF Answers
<1>7. ASSUME NEW p \in Players, NEW c \in Cards, NEW i \in Ids, NEW s \in Session,
             ReceivesIn(p, c, i, s)
      PROVE  Only(session')
  <2>1. \A x \in Players : Engaged(x, s) => Engaged(x, session[i])
    BY <1>7 DEF ReceivesIn, SameTrade, Engaged, Owed, Participates, Own, Other
  <2> QED
    BY <1>4, <1>7, <2>1 DEF ReceivesIn
<1>8. ASSUME NEW i \in Ids, NEW s \in Session, Decides(i, s, "confirmed")
      PROVE  Only(session')
  <2>1. \A x \in Players : Engaged(x, s) => Engaged(x, session[i])
    BY <1>8 DEF Decides, SameTrade, Engaged, Owed, Participates
  <2> QED
    BY <1>4, <1>8, <2>1 DEF Decides
<1>9. CASE Expires
  <2>1. ASSUME NEW x \in Players, NEW i \in Ids, Engaged(x, session'[i])
        PROVE  Engaged(x, session[i])
    BY <1>9, <2>1 DEF Expires, SameTrade, Engaged, Owed, Participates
  <2> QED
    BY <1>2, <1>3, <2>1
<1> QED
  BY <1>2, <1>5, <1>6, <1>7, <1>8, <1>9 DEF Effect

-----------------------------------------------------------------------------
(* The theorems.                                                           *)

LEMMA InitIInv == Init => IInv
<1> SUFFICES ASSUME Init PROVE IInv
  OBVIOUS
<1>1. TypeOK /\ CallsSound
  BY InitTyped DEF Typed
<1>2. SessionsSound /\ DepositsSpare
  BY DEF Init, SessionsSound, DepositsSpare, NoSession, Undecided
<1>3. \A p \in Players, i \in Ids : ~Participates(p, session[i])
  BY TradeAssumption DEF Init, Participates, NoSession
<1>4. OneTradeAtATime
  BY <1>3 DEF OneTradeAtATime, Owed
<1>5. LastCopyKept
  BY DEF Init, LastCopyKept
<1> QED
  BY <1>1, <1>2, <1>4, <1>5 DEF IInv

LEMMA NextIInv == IInv /\ [Next]_vars => IInv'
<1> SUFFICES ASSUME IInv, [Next]_vars PROVE IInv'
  OBVIOUS
<1>1. Typed /\ Typed' /\ Effect
  BY NextEffect DEF IInv, Typed
<1> QED
  BY <1>1, SessionsSoundKept, DepositsSpareKept, OneTradeKept, LastCopyKeptKept
  DEF IInv, Typed

LEMMA Inductive == Spec => []IInv
BY InitIInv, NextIInv, PTL DEF Spec

\* No player is in two trades at once, whatever proposals race.
THEOREM TradesExclusive == Spec => []OneTradeAtATime
<1>1. IInv => OneTradeAtATime
  BY DEF IInv
<1> QED
  BY <1>1, Inductive, PTL

\* Trading leaves every player a copy of every card.
THEOREM CopiesKept == Spec => []LastCopyKept
<1>1. IInv => LastCopyKept
  BY DEF IInv
<1> QED
  BY <1>1, Inductive, PTL

-----------------------------------------------------------------------------
(* A trade is one atomic swap.                                             *)

\* Sets that agree outside of i differ by i.
LEMMA CountDiffers ==
  ASSUME NEW A, NEW B, NEW i, IsFiniteSet(A), IsFiniteSet(B), A \ {i} = B \ {i}
  PROVE  /\ Cardinality(A) \in Nat /\ Cardinality(B) \in Nat
         /\ Cardinality(B) = Cardinality(A) + (IF i \in B THEN 1 ELSE 0)
                                            - (IF i \in A THEN 1 ELSE 0)
<1>1. Cardinality(A) \in Nat /\ Cardinality(B) \in Nat
  BY FS_CardinalityType
<1>2. Cardinality(A \ {i}) = IF i \in A THEN Cardinality(A) - 1 ELSE Cardinality(A)
  BY FS_RemoveElement
<1>3. Cardinality(B \ {i}) = IF i \in B THEN Cardinality(B) - 1 ELSE Cardinality(B)
  BY FS_RemoveElement
<1>4. Cardinality(A \ {i}) = Cardinality(B \ {i})
  OBVIOUS
<1> DEFINE a == Cardinality(A)
           b == Cardinality(B)
<1>5. a \in Nat /\ b \in Nat
  BY <1>1
<1>6. (IF i \in A THEN a - 1 ELSE a) = (IF i \in B THEN b - 1 ELSE b)
  BY <1>2, <1>3, <1>4
<1> HIDE DEF a, b
<1>7. b = a + (IF i \in B THEN 1 ELSE 0) - (IF i \in A THEN 1 ELSE 0)
  BY <1>5, <1>6
<1> QED
  BY <1>1, <1>7 DEF a, b

\* Copies of c that sessions owe to p.
Deposited(p, c) == {i \in Ids : Owed(p, session[i]) = c}

LEMMA HoldingIs ==
  ASSUME Typed
  PROVE  /\ Holding \in [Players -> [Cards -> Nat]]
         /\ \A p \in Players, c \in Cards :
              /\ Cardinality(Deposited(p, c)) \in Nat
              /\ Holding[p][c] = owned[p][c] + Cardinality(Deposited(p, c))
<1>1. ASSUME NEW p \in Players, NEW c \in Cards
      PROVE  Cardinality(Deposited(p, c)) \in Nat
  <2>1. IsFiniteSet(Deposited(p, c))
    BY FS_Subset, TradeAssumption DEF Deposited
  <2> QED
    BY <2>1, FS_CardinalityType
<1>2. \A p \in Players, c \in Cards : owned[p][c] \in Nat
  BY DEF Typed, TypeOK
<1> QED
  BY <1>1, <1>2 DEF Holding, Deposited

LEMMA HoldingTyped == Typed => Holding \in [Players -> [Cards -> Nat]]
BY HoldingIs

LEMMA HoldingTypedNext == (Typed => Holding \in [Players -> [Cards -> Nat]])'
BY HoldingTyped, PTL

\* When one session changes, what it owes to p is all that changes of p's cards.
LEMMA OneSessionMoves ==
  ASSUME Typed, Typed', NEW i \in Ids, NEW s \in Session, Stores(i, s),
         NEW p \in Players, NEW c \in Cards
  PROVE  Holding'[p][c] = Holding[p][c] + owned'[p][c] - owned[p][c]
                          + (IF Owed(p, s) = c THEN 1 ELSE 0)
                          - (IF Owed(p, session[i]) = c THEN 1 ELSE 0)
<1> DEFINE A == {j \in Ids : Owed(p, session[j]) = c}
           B == {j \in Ids : Owed(p, session'[j]) = c}
<1>1. IsFiniteSet(A) /\ IsFiniteSet(B)
  BY FS_Subset, TradeAssumption
<1>2. A \ {i} = B \ {i}
  BY DEF Stores
<1>3. /\ i \in A <=> Owed(p, session[i]) = c
      /\ i \in B <=> Owed(p, s) = c
  BY DEF Stores
<1>4. Holding[p][c] = owned[p][c] + Cardinality(A)
  BY DEF Holding
<1>5. Holding'[p][c] = owned'[p][c] + Cardinality(B)
  BY DEF Holding, Owed, Own, Other, Participates
<1>6. owned[p][c] \in Nat /\ owned'[p][c] \in Nat
  BY DEF Typed, TypeOK
<1> HIDE DEF A, B
<1>7. /\ Cardinality(A) \in Nat /\ Cardinality(B) \in Nat
      /\ Cardinality(B) = Cardinality(A) + (IF i \in B THEN 1 ELSE 0)
                                         - (IF i \in A THEN 1 ELSE 0)
  BY <1>1, <1>2, CountDiffers
<1> QED
  BY <1>3, <1>4, <1>5, <1>6, <1>7

\* Holdings are equal when they are, player by player and card by card.
LEMMA SameHolding ==
  ASSUME Typed, Typed',
         \A p \in Players, c \in Cards : Holding'[p][c] = Holding[p][c]
  PROVE  Holding' = Holding
<1>1. Holding = [p \in Players |-> [c \in Cards |-> Holding[p][c]]]
  BY DEF Holding
<1>2. Holding' = [p \in Players |-> [c \in Cards |-> Holding'[p][c]]]
  BY DEF Holding
<1> QED
  BY <1>1, <1>2

LEMMA ProposalStutters ==
  ASSUME Typed, Typed', NEW p \in Players, NEW q \in Players, NEW c \in Cards,
         NEW i \in Ids, NEW s \in Session, Proposes(p, q, c, i, s)
  PROVE  Holding' = Holding
<1>1. \A x \in Players : Owed(x, session[i]) = None
  BY TradeAssumption DEF Proposes, Owed, Participates, NoSession
<1>2. \A x \in Players : Owed(x, s) = IF x = p THEN c ELSE None
  BY DEF Proposes, Owed, Participates, Own
<1>3. ASSUME NEW x \in Players, NEW d \in Cards PROVE Holding'[x][d] = Holding[x][d]
  <2>1. Holding[x][d] \in Nat /\ owned[x][d] \in Nat /\ d # None
    BY HoldingIs, TradeAssumption DEF Typed, TypeOK
  <2>2. owned'[x][d] = IF x = p /\ d = c THEN owned[x][d] - 1 ELSE owned[x][d]
    BY DEF Proposes, Takes
  <2>3. Holding'[x][d] = Holding[x][d] + owned'[x][d] - owned[x][d]
                         + (IF Owed(x, s) = d THEN 1 ELSE 0)
                         - (IF Owed(x, session[i]) = d THEN 1 ELSE 0)
    BY OneSessionMoves DEF Proposes
  <2> QED
    BY <1>1, <1>2, <2>1, <2>2, <2>3
<1> QED
  BY <1>3, SameHolding

LEMMA AnswerStutters ==
  ASSUME Typed, Typed', SessionsSound, NEW p \in Players, NEW c \in Cards,
         NEW i \in Ids, NEW s \in Session, Answers(p, c, i, s)
  PROVE  Holding' = Holding
<1>1. /\ session[i].partner = p /\ session[i].state = "waiting" /\ session[i] # NoSession
  BY DEF Answers, Answerable, NoSession
<1>2. /\ session[i].received = {} /\ session[i].answer = None
      /\ session[i].proposer # session[i].partner
  BY <1>1 DEF SessionsSound, Undecided
<1>3. Owed(p, session[i]) = None /\ Owed(p, s) = c
  BY <1>1, <1>2 DEF Owed, Own, Participates, Answers, SameTrade
<1>4. \A x \in Players : x # p => Owed(x, s) = Owed(x, session[i])
  BY <1>1 DEF Owed, Own, Participates, Answers, SameTrade
<1>5. ASSUME NEW x \in Players, NEW d \in Cards PROVE Holding'[x][d] = Holding[x][d]
  <2>1. Holding[x][d] \in Nat /\ owned[x][d] \in Nat /\ d # None
    BY HoldingIs, TradeAssumption DEF Typed, TypeOK
  <2>2. owned'[x][d] = IF x = p /\ d = c THEN owned[x][d] - 1 ELSE owned[x][d]
    BY DEF Answers, Takes
  <2>3. Holding'[x][d] = Holding[x][d] + owned'[x][d] - owned[x][d]
                         + (IF Owed(x, s) = d THEN 1 ELSE 0)
                         - (IF Owed(x, session[i]) = d THEN 1 ELSE 0)
    BY OneSessionMoves DEF Answers
  <2> QED
    BY <1>3, <1>4, <2>1, <2>2, <2>3
<1> QED
  BY <1>5, SameHolding

LEMMA ReceiptStutters ==
  ASSUME Typed, Typed', NEW p \in Players, NEW c \in Cards, NEW i \in Ids,
         NEW s \in Session, ReceivesIn(p, c, i, s)
  PROVE  Holding' = Holding
<1>1. Owed(p, session[i]) = c /\ Owed(p, s) = None
  BY DEF ReceivesIn, SameTrade, Owed, Participates
<1>2. \A x \in Players : x # p => Owed(x, s) = Owed(x, session[i])
  BY DEF ReceivesIn, SameTrade, Owed, Participates, Own, Other
<1>3. ASSUME NEW x \in Players, NEW d \in Cards PROVE Holding'[x][d] = Holding[x][d]
  <2>1. Holding[x][d] \in Nat /\ owned[x][d] \in Nat /\ d # None
    BY HoldingIs, TradeAssumption DEF Typed, TypeOK
  <2>2. owned'[x][d] = IF x = p /\ d = c THEN owned[x][d] + 1 ELSE owned[x][d]
    BY DEF ReceivesIn, Gives
  <2>3. Holding'[x][d] = Holding[x][d] + owned'[x][d] - owned[x][d]
                         + (IF Owed(x, s) = d THEN 1 ELSE 0)
                         - (IF Owed(x, session[i]) = d THEN 1 ELSE 0)
    BY OneSessionMoves DEF ReceivesIn
  <2> QED
    BY <1>1, <1>2, <2>1, <2>2, <2>3
<1> QED
  BY <1>3, SameHolding

LEMMA ExpiryStutters ==
  ASSUME Expires
  PROVE  Holding' = Holding
<1>1. ASSUME NEW p \in Players, NEW i \in Ids PROVE Owed(p, session'[i]) = Owed(p, session[i])
  BY DEF Expires, SameTrade, Owed, Own, Participates, Undecided
<1>2. \A p \in Players, c \in Cards :
        {i \in Ids : Owed(p, session'[i]) = c} = {i \in Ids : Owed(p, session[i]) = c}
  BY <1>1
<1>3. Holding' = [p \in Players |-> [c \in Cards |->
        owned[p][c] + Cardinality({i \in Ids : Owed(p, session'[i]) = c})]]
  BY DEF Expires, Holding, Owed, Own, Other, Participates
<1> QED
  BY <1>2, <1>3 DEF Holding

\* The holdings after p gave c to q for d, as CardSwap writes them.
Swapped(h, p, q, c, d) ==
  LET given == [h EXCEPT ![p][c] = @ - 1, ![q][d] = @ - 1]
  IN  [given EXCEPT ![p][d] = @ + 1, ![q][c] = @ + 1]

\* g is h after that swap, player by player and card by card.
Differs(g, h, p, q, c, d) ==
  \A x \in Players, e \in Cards :
    g[x][e] = h[x][e] + (IF x = p /\ e = d THEN 1 ELSE 0)
                      + (IF x = q /\ e = c THEN 1 ELSE 0)
                      - (IF x = p /\ e = c THEN 1 ELSE 0)
                      - (IF x = q /\ e = d THEN 1 ELSE 0)

LEMMA SwapPointwise ==
  ASSUME NEW h \in [Players -> [Cards -> Nat]], NEW g \in [Players -> [Cards -> Nat]],
         NEW p \in Players, NEW q \in Players, NEW c \in Cards, NEW d \in Cards, p # q,
         Differs(g, h, p, q, c, d)
  PROVE  g = Swapped(h, p, q, c, d)
<1> DEFINE hp == [h[p] EXCEPT ![c] = @ - 1]
           hq == [h[q] EXCEPT ![d] = @ - 1]
           gp == [hp EXCEPT ![d] = @ + 1]
           gq == [hq EXCEPT ![c] = @ + 1]
           given == [h EXCEPT ![p][c] = @ - 1, ![q][d] = @ - 1]
           after == [given EXCEPT ![p][d] = @ + 1, ![q][c] = @ + 1]
<1>1. h[p] \in [Cards -> Nat] /\ h[q] \in [Cards -> Nat]
  OBVIOUS
<1>2. hp \in [Cards -> Int] /\ hq \in [Cards -> Int]
  BY <1>1
<1>3. gp \in [Cards -> Int] /\ gq \in [Cards -> Int]
  BY <1>2
<1>4. g[p] = gp
  <2>1. \A e \in Cards : g[p][e] = gp[e]
    BY <1>1 DEF Differs
  <2> QED
    BY <1>3, <2>1
<1>5. g[q] = gq
  <2>1. \A e \in Cards : g[q][e] = gq[e]
    BY <1>1 DEF Differs
  <2> QED
    BY <1>3, <2>1
<1>6. ASSUME NEW x \in Players \ {p, q} PROVE g[x] = h[x]
  <2>1. \A e \in Cards : g[x][e] = h[x][e]
    BY DEF Differs
  <2> QED
    BY <2>1
<1>7. given = [x \in Players |-> IF x = p THEN hp ELSE IF x = q THEN hq ELSE h[x]]
  OBVIOUS
<1>8. after = [x \in Players |-> IF x = p THEN gp ELSE IF x = q THEN gq ELSE h[x]]
  <2>1. given[p] = hp /\ given[q] = hq
    BY <1>7
  <2> DEFINE once == [given EXCEPT ![p] = gp]
  <2>2. once = [given EXCEPT ![p][d] = @ + 1]
    BY <2>1
  <2>3. once = [x \in Players |-> IF x = p THEN gp ELSE IF x = q THEN hq ELSE h[x]]
    BY <1>7
  <2>4. once[q] = hq
    BY <2>3
  <2>5. after = [once EXCEPT ![q] = gq]
    BY <2>2, <2>4
  <2> QED
    BY <2>3, <2>5
<1> HIDE DEF gp, gq, after, given
<1>9. g = after
  BY <1>4, <1>5, <1>6, <1>8
<1> QED
  BY <1>9 DEF after, given, Swapped

LEMMA ConfirmationSwaps ==
  ASSUME IInv, Typed', NEW i \in Ids, NEW s \in Session, session[i].state = "answered",
         Decides(i, s, "confirmed")
  PROVE  Swap!Next
<1> DEFINE p == session[i].proposer
           q == session[i].partner
           c == session[i].given
           d == session[i].answer
<1>0. Typed
  BY DEF IInv, Typed
<1>1. session[i] # NoSession
  BY DEF NoSession
<1>2. p \in Players /\ q \in Players /\ c \in Cards /\ d \in Cards \cup {None}
  BY <1>0, SessionFields DEF Typed, TypeOK
<1>3. p # q /\ d # None /\ session[i].received = {}
  BY <1>1 DEF IInv, SessionsSound, Undecided
<1>4. d \in Cards
  BY <1>2, <1>3
<1>5. owned[p][c] >= 1 /\ owned[q][d] >= 1
  BY DEF IInv, DepositsSpare, Undecided
<1>6. /\ s.proposer = p /\ s.partner = q /\ s.given = c /\ s.answer = d
      /\ s.received = {} /\ s.state = "confirmed"
  BY <1>3 DEF Decides, SameTrade
<1>7. \A x \in Players :
        Owed(x, session[i]) = IF x = p THEN c ELSE IF x = q THEN d ELSE None
  BY <1>3 DEF Owed, Own, Participates
<1>8. \A x \in Players : Owed(x, s) = IF x = p THEN d ELSE IF x = q THEN c ELSE None
  BY <1>3, <1>6 DEF Owed, Other, Participates
<1> HIDE DEF p, q, c, d
<1>9. Holding \in [Players -> [Cards -> Nat]] /\ Holding' \in [Players -> [Cards -> Nat]]
  BY <1>0, HoldingTyped, HoldingTypedNext
<1>10. ASSUME NEW x \in Players, NEW e \in Cards, owned[x][e] >= 1, Owed(x, session[i]) = e
       PROVE  Holding[x][e] > 1
  <2>1. i \in Deposited(x, e)
    BY <1>10 DEF Deposited
  <2>2. IsFiniteSet(Deposited(x, e))
    BY FS_Subset, TradeAssumption DEF Deposited
  <2>3. Cardinality(Deposited(x, e)) # 0
    BY <2>1, <2>2, FS_EmptySet
  <2>4. owned[x][e] \in Nat
    BY <1>0 DEF Typed, TypeOK
  <2>5. /\ Cardinality(Deposited(x, e)) \in Nat
        /\ Holding[x][e] = owned[x][e] + Cardinality(Deposited(x, e))
    BY <1>0, HoldingIs
  <2> QED
    BY <1>10, <2>3, <2>4, <2>5
<1>11. Holding[p][c] > 1 /\ Holding[q][d] > 1
  BY <1>2, <1>3, <1>4, <1>5, <1>7, <1>10
<1>12. ASSUME NEW x \in Players, NEW e \in Cards
       PROVE  Holding'[x][e] = Holding[x][e] + (IF x = p /\ e = d THEN 1 ELSE 0)
                                             + (IF x = q /\ e = c THEN 1 ELSE 0)
                                             - (IF x = p /\ e = c THEN 1 ELSE 0)
                                             - (IF x = q /\ e = d THEN 1 ELSE 0)
  <2>1. Holding[x][e] \in Nat /\ owned[x][e] \in Nat /\ e # None
    BY <1>0, <1>9, TradeAssumption DEF Typed, TypeOK
  <2>2. owned'[x][e] = owned[x][e]
    BY DEF Decides
  <2>3. Holding'[x][e] = Holding[x][e] + owned'[x][e] - owned[x][e]
                         + (IF Owed(x, s) = e THEN 1 ELSE 0)
                         - (IF Owed(x, session[i]) = e THEN 1 ELSE 0)
    BY <1>0, OneSessionMoves DEF Decides
  <2> QED
    BY <1>3, <1>7, <1>8, <2>1, <2>2, <2>3
<1>13. Holding' = Swapped(Holding, p, q, c, d)
  <2> DEFINE h == Holding
             g == Holding'
  <2>1. h \in [Players -> [Cards -> Nat]] /\ g \in [Players -> [Cards -> Nat]]
    BY <1>9
  <2>2. Differs(g, h, p, q, c, d)
    BY <1>12 DEF Differs
  <2> HIDE DEF g, h
  <2>3. g = Swapped(h, p, q, c, d)
    BY <1>2, <1>3, <1>4, <2>1, <2>2, SwapPointwise
  <2> QED
    BY <2>3 DEF g, h
<1>14. Swap!Swap(p, q, c, d)
  BY <1>11, <1>13 DEF Swap!Swap, Swapped
<1> QED
  BY <1>2, <1>3, <1>4, <1>14 DEF Swap!Next

LEMMA InitMaps == Init => Swap!Init
<1> SUFFICES ASSUME Init PROVE Swap!Init
  OBVIOUS
<1>1. \A p \in Players, c \in Cards : {i \in Ids : Owed(p, session[i]) = c} = {}
  BY TradeAssumption DEF Init, Owed, Participates, NoSession
<1>2. \A p \in Players, c \in Cards : Cardinality({i \in Ids : Owed(p, session[i]) = c}) = 0
  BY <1>1, FS_EmptySet
<1>3. \A p \in Players, c \in Cards : owned[p][c] + 0 = Copies
  BY TradeAssumption DEF Init
<1> QED
  BY <1>2, <1>3 DEF Holding, Swap!Init

LEMMA StepMaps == IInv /\ [Next]_vars => [Swap!Next]_Holding
<1> SUFFICES ASSUME IInv, [Next]_vars PROVE Swap!Next \/ Holding' = Holding
  OBVIOUS
<1>1. Typed /\ Typed' /\ Effect /\ SessionsSound
  BY NextEffect DEF IInv, Typed
<1> QED
  BY <1>1, ProposalStutters, AnswerStutters, ReceiptStutters, ConfirmationSwaps,
     ExpiryStutters DEF Effect

\* Deposits, refunds and outcomes together are one atomic swap of spare cards:
\* whatever calls race, nothing is lost, doubled or received by a third.
THEOREM SwapImplemented == Spec => ImplementsSwap
BY InitMaps, StepMaps, Inductive, PTL DEF Spec, ImplementsSwap, Swap!Spec
=============================================================================
