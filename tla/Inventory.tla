------------------------------ MODULE Inventory ------------------------------
(***************************************************************************)
(* The cards of one profile and what they are spent on                     *)
(* (internal/store/store.go, card_language.go, card_exchange.go,           *)
(* item_shop.go; internal/player/manager.go).                              *)
(*                                                                         *)
(* Copies are kept twice: their total in player_cards, which every         *)
(* operation moves, and by printed language in player_card_languages,      *)
(* which only some operations move.  What is shown of the languages is     *)
(* normalised against the total whenever it is read; the editor writes     *)
(* what it was shown.  Each operation is one transaction, so an action.    *)
(*                                                                         *)
(* One catalogue entry of each kind: a skin, a frame that needs the skin   *)
(* first, and a shop product of one card.  The exchange's product and the  *)
(* other prices and rewards of the shop are left out.                      *)
(***************************************************************************)
EXTENDS Integers, FiniteSets, Sums

CONSTANTS CardIds,
          Languages,      \* of 1..12, the default among them
          ShopTxs,        \* transaction ids of the shop
          Skinned,        \* the card of the skin and the frame
          Sold,           \* the card of the shop product
          ExchangeCards, ExchangeSand,  \* what a skin or a frame consumes
          RequiredSkins,  \* RequiredParentCount of the frame
          ProductPrice, MaxAmount,      \* of the product, and its limit
          StartSand,
          MaxCopies,      \* bound on the copies of a card, and on those tagged
          MaxEdit         \* bound on what the editor sets
DefaultLanguage == 4

ASSUME InventoryAssumption ==
  /\ Languages \subseteq 1..12 /\ DefaultLanguage \in Languages
  /\ Skinned \in CardIds /\ Sold \in CardIds /\ IsFiniteSet(ShopTxs)
  /\ ExchangeCards \in Nat \ {0} /\ ExchangeSand \in Nat /\ RequiredSkins \in Nat
  /\ ProductPrice \in Nat /\ MaxAmount \in Nat \ {0} /\ StartSand \in Nat
  /\ MaxCopies \in Nat /\ MaxEdit \in Nat

Exchanges == {"skin", "frame"}
\* The operations of a request: catalogue entries and amounts.
Operations == UNION {[1..n -> [id : Exchanges, amount : 1..2]] : n \in 1..2}

VARIABLES total,     \* player_cards: copies; 0 is no row
          tagged,    \* player_card_languages
          language,  \* of the account (player_settings)
          sand,      \* SHINEDUST in player_currencies
          count,     \* card_exchange_counts
          bought     \* item_shop_transactions: the amount, 0 is no row

inventoryVars == <<total, tagged, language, sand, count, bought>>

InventoryTypeOK ==
  /\ total \in [CardIds -> Nat]
  /\ tagged \in [CardIds -> [Languages -> Nat]]
  /\ language \in Languages
  /\ sand \in Nat
  /\ count \in [Exchanges -> Nat]
  /\ bought \in [ShopTxs -> 0..MaxAmount]

NoTags == [l \in Languages |-> 0]

InventoryInit ==
  /\ total = [c \in CardIds |-> 0]
  /\ tagged = [c \in CardIds |-> NoTags]
  /\ language \in Languages
  /\ sand = StartSand
  /\ count = [e \in Exchanges |-> 0]
  /\ bought = [i \in ShopTxs |-> 0]

-----------------------------------------------------------------------------
(* Languages as they are shown.                                            *)

Sum(amounts, set) == Total([l \in set |-> amounts[l]])
Lesser(a, b) == IF a < b THEN a ELSE b
NotBelow0(n) == IF n < 0 THEN 0 ELSE n

\* The languages that lose copies before l does: the default, then by number.
Before(l) == IF l = DefaultLanguage THEN {}
             ELSE {DefaultLanguage} \cup {m \in Languages : m < l}

\* Fault: copies too many are only taken from the default language.
Normalized_DefaultOnly(amounts, n) ==
  [amounts EXCEPT ![DefaultLanguage] = NotBelow0(@ + n - Sum(amounts, Languages))]

\* Fault: copies too many are taken from the account's language first.
Normalized_ByAccount(amounts, n) ==
  LET excess == Sum(amounts, Languages) - n
      before(l) == IF l = language THEN {} ELSE Before(l) \cup {language}
  IN IF excess <= 0 THEN [amounts EXCEPT ![DefaultLanguage] = @ - excess]
     ELSE [l \in Languages |->
             amounts[l] - Lesser(amounts[l], NotBelow0(excess - Sum(amounts, before(l))))]

\* normalizeCardLanguageAmounts.
Normalized(amounts, n) ==
  LET excess == Sum(amounts, Languages) - n
  IN IF excess <= 0 THEN [amounts EXCEPT ![DefaultLanguage] = @ - excess]
     ELSE [l \in Languages |->
             amounts[l] - Lesser(amounts[l], NotBelow0(excess - Sum(amounts, Before(l))))]

\* Snapshot.
Shown(c) == Normalized(tagged[c], total[c])

-----------------------------------------------------------------------------
(* Cards come and go.                                                        *)

Tag(c, l, n) == /\ tagged[c][l] + n <= MaxCopies
                /\ tagged' = [tagged EXCEPT ![c][l] = @ + n]

\* A drawn, awarded or bought card: addCardInAccountLanguage.
Receive(c) ==
  /\ total[c] < MaxCopies
  /\ total' = [total EXCEPT ![c] = @ + 1]
  /\ Tag(c, language, 1)
  /\ UNCHANGED <<language, sand, count, bought>>

\* A card of a gift, a trade or an exchange of points has no language.
ReceiveUntagged(c) ==
  /\ total[c] < MaxCopies
  /\ total' = [total EXCEPT ![c] = @ + 1]
  /\ UNCHANGED <<tagged, language, sand, count, bought>>

\* A gift or a trade; the sender keeps a copy.
Give(c) ==
  /\ total[c] >= 2
  /\ total' = [total EXCEPT ![c] = @ - 1]
  /\ UNCHANGED <<tagged, language, sand, count, bought>>

\* Fault: the tags are left as they were.
SetCardLanguage_TagOnly(c, l, q) ==
  LET amounts == [Shown(c) EXCEPT ![l] = q]
  IN /\ total' = [total EXCEPT ![c] = Sum(amounts, Languages)]
     /\ tagged' = [tagged EXCEPT ![c][l] = q]
     /\ UNCHANGED <<language, sand, count, bought>>

\* The editor sets the copies of one language; without any the row goes, and
\* the rows of its languages with it.
SetCardLanguage(c, l, q) ==
  LET amounts == [Shown(c) EXCEPT ![l] = q]
  IN /\ total' = [total EXCEPT ![c] = Sum(amounts, Languages)]
     /\ tagged' = [tagged EXCEPT ![c] = amounts]
     /\ UNCHANGED <<language, sand, count, bought>>

UpdatePlayerLocale(l) == /\ language' = l
                         /\ UNCHANGED <<total, tagged, sand, count, bought>>

-----------------------------------------------------------------------------
(* Exchanges and the shop.                                                 *)

Amount(ops, set) == Total([k \in set |-> ops[k].amount])
Of(ops, e, set) == {k \in set : ops[k].id = e}

\* The k-th operation finds enough exchanges of its parent, those of the
\* request before it included.
Unlocked(ops, k) ==
  ops[k].id = "frame" => count["skin"] + Amount(ops, Of(ops, "skin", 1..(k - 1))) >= RequiredSkins

\* ExchangeCardCosmetics: all operations or none.  A card whose copies are all
\* consumed loses its row, and its languages.
ExchangeCardCosmetics(ops) ==
  LET n == Amount(ops, DOMAIN ops)
      left == total[Skinned] - ExchangeCards * n
  IN /\ \A k \in DOMAIN ops : Unlocked(ops, k)
     /\ left >= 0 /\ ExchangeSand * n <= sand
     /\ total' = [total EXCEPT ![Skinned] = left]
     /\ tagged' = IF left = 0 THEN [tagged EXCEPT ![Skinned] = NoTags] ELSE tagged
     /\ sand' = sand - ExchangeSand * n
     /\ count' = [e \in Exchanges |-> count[e] + Amount(ops, Of(ops, e, DOMAIN ops))]
     /\ UNCHANGED <<language, bought>>

Purchases == Total(bought)

\* Fault: the limit is that of one purchase.
WithinLimit_Each(n) == n <= MaxAmount

WithinLimit(n) == Purchases + n <= MaxAmount

\* CommitShopPurchase; a repetition changes nothing, or is refused when it asks
\* for something else.
CommitShopPurchase(i, n) ==
  /\ bought[i] = 0 /\ WithinLimit(n)
  /\ ProductPrice * n <= sand /\ total[Sold] + n <= MaxCopies
  /\ sand' = sand - ProductPrice * n
  /\ total' = [total EXCEPT ![Sold] = @ + n]
  /\ Tag(Sold, language, n)
  /\ bought' = [bought EXCEPT ![i] = n]
  /\ UNCHANGED <<language, count>>

InventoryNext ==
  \/ \E c \in CardIds : Receive(c) \/ ReceiveUntagged(c) \/ Give(c)
  \/ \E c \in CardIds, l \in Languages, q \in 0..MaxEdit : SetCardLanguage(c, l, q)
  \/ \E l \in Languages : UpdatePlayerLocale(l)
  \/ \E ops \in Operations : ExchangeCardCosmetics(ops)
  \/ \E i \in ShopTxs, n \in 1..MaxAmount : CommitShopPurchase(i, n)

InventorySpec == InventoryInit /\ [][InventoryNext]_inventoryVars

-----------------------------------------------------------------------------
(* What must hold.                                                         *)

(* However the two tables have drifted apart, the copies shown by language *)
(* add up to the total that every other part of the game goes by, and none *)
(* is shown of a card that is gone.                                        *)
LanguagesAddUp ==
  \A c \in CardIds : /\ Sum(Shown(c), Languages) = total[c]
                     /\ \A l \in Languages : Shown(c)[l] >= 0
                     /\ total[c] = 0 => tagged[c] = NoTags

(* Sand only goes into exchanges and purchases that are recorded, purchases *)
(* stay within the limit of the product however they are split and          *)
(* repeated, and there is no frame without the skins it requires.           *)
ExchangesPaid ==
  /\ sand + ExchangeSand * (count["skin"] + count["frame"]) + ProductPrice * Purchases
       = StartSand
  /\ Purchases <= MaxAmount
  /\ count["frame"] > 0 => count["skin"] >= RequiredSkins

(* A card that is received or spent never moves the copies shown in any    *)
(* language the other way, nothing moves them while the total stays (a     *)
(* change of the account's language does not), and an edit of one language *)
(* gives what was typed and leaves the others as they were shown.          *)
LanguagesFollowTotals ==
  [][\A c \in CardIds :
       /\ total'[c] >= total[c] => \A l \in Languages : Shown(c)'[l] >= Shown(c)[l]
       /\ total'[c] <= total[c] => \A l \in Languages : Shown(c)'[l] <= Shown(c)[l]
       /\ \A l \in Languages, q \in 0..MaxEdit :
            SetCardLanguage(c, l, q) => Shown(c)' = [Shown(c) EXCEPT ![l] = q]]_inventoryVars
=============================================================================
