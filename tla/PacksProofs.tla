----------------------------- MODULE PacksProofs -----------------------------
(***************************************************************************)
(* Proofs about Packs, for any cards, requests, transactions, rules and    *)
(* times, and in the last part about Inventory, for any cards, languages,  *)
(* transactions, prices and bounds.  Both need the lemmas about sums.      *)
(***************************************************************************)
EXTENDS Packs, Inventory, FiniteSetTheorems, SequenceTheorems, WellFoundedInduction, TLAPS

-----------------------------------------------------------------------------
(* Sums and periods.                                                       *)

Units(f) == {{i} \X (1..f[i]) : i \in DOMAIN f}

LEMMA UnitsFinite ==
  ASSUME NEW S, IsFiniteSet(S), NEW f \in [S -> Nat]
  PROVE  IsFiniteSet(UNION Units(f))
<1> DEFINE u == [i \in S |-> {i} \X (1..f[i])]
<1>1. u \in Surjection(S, Units(f))
  BY DEF Surjection, Units
<1>2. IsFiniteSet(Units(f))
  BY <1>1, FS_Surjection
<1>3. ASSUME NEW T \in Units(f) PROVE IsFiniteSet(T)
  <2>1. PICK i \in S : T = {i} \X (1..f[i])
    BY DEF Units
  <2>2. 1 \in Int /\ f[i] \in Int
    OBVIOUS
  <2>3. IsFiniteSet({i}) /\ IsFiniteSet(1..f[i])
    BY <2>2, FS_Singleton, FS_Interval
  <2> QED
    BY <2>1, <2>3, FS_Product
<1> QED
  BY <1>2, <1>3, FS_UNION

LEMMA TotalIsNat ==
  ASSUME NEW S, IsFiniteSet(S), NEW f \in [S -> Nat] PROVE Total(f) \in Nat
BY UnitsFinite, FS_CardinalityType DEF Total, Units

LEMMA TotalOfNone == ASSUME NEW f, DOMAIN f = {} PROVE Total(f) = 0
<1>1. UNION {{i} \X (1..f[i]) : i \in DOMAIN f} = {}
  OBVIOUS
<1> QED
  BY <1>1, FS_EmptySet DEF Total

\* g is f with a value for x.
Adds(S, f, x, g) == /\ IsFiniteSet(S) /\ x \notin S
                    /\ f \in [S -> Nat] /\ g \in [S \cup {x} -> Nat]
                    /\ \A i \in S : g[i] = f[i]

\* One more value adds what it is.
LEMMA TotalAdds ==
  ASSUME NEW S, NEW f, NEW x, NEW g, Adds(S, f, x, g) PROVE Total(g) = Total(f) + g[x]
<1> IsFiniteSet(S) /\ x \notin S /\ f \in [S -> Nat] /\ g \in [S \cup {x} -> Nat]
  BY DEF Adds
<1> \A i \in S : g[i] = f[i]
  BY DEF Adds
<1> DEFINE F == UNION Units(f)
           X == {x} \X (1..g[x])
<1>1. IsFiniteSet(F)
  BY UnitsFinite
<1>2. IsFiniteSet(X) /\ Cardinality(X) = g[x]
  <2>1. IsFiniteSet({x}) /\ Cardinality({x}) = 1
    BY FS_Singleton
  <2>2. g[x] \in Nat
    OBVIOUS
  <2>3. IsFiniteSet(1..g[x]) /\ Cardinality(1..g[x]) = g[x]
    BY <2>2, FS_Interval
  <2>4. IsFiniteSet(X) /\ Cardinality(X) = Cardinality({x}) * Cardinality(1..g[x])
    BY <2>1, <2>3, FS_Product
  <2> QED
    BY <2>1, <2>2, <2>3, <2>4
<1>3. UNION Units(g) = F \cup X
  <2>1. Units(g) = Units(f) \cup {X}
    BY DEF Units
  <2> HIDE DEF X
  <2> QED
    BY <2>1
<1>4. F \cap X = {}
  <2>1. ASSUME NEW e \in F, e \in X PROVE FALSE
    <3>1. PICK i \in S : e \in {i} \X (1..f[i])
      BY <2>1 DEF Units
    <3> QED
      BY <2>1, <3>1
  <2> QED
    BY <2>1
<1>5. Cardinality(F \cup X) = Cardinality(F) + Cardinality(X) - Cardinality(F \cap X)
  BY <1>1, <1>2, FS_Union
<1>6. Cardinality(F) \in Nat /\ Cardinality(F \cap X) = 0
  BY <1>1, <1>4, FS_CardinalityType, FS_EmptySet
<1>7. Total(f) = Cardinality(F) /\ Total(g) = Cardinality(UNION Units(g))
  BY DEF Total, Units
<1>8. g[x] \in Nat
  OBVIOUS
<1> HIDE DEF F, X
<1>9. Total(g) = Cardinality(F \cup X)
  BY <1>3, <1>7
<1> QED
  BY <1>2, <1>5, <1>6, <1>7, <1>8, <1>9

\* h has the values of f and of g.
Splits(S, f, T, g, h) ==
  /\ IsFiniteSet(S) /\ IsFiniteSet(T) /\ S \cap T = {}
  /\ f \in [S -> Nat] /\ g \in [T -> Nat] /\ h \in [S \cup T -> Nat]
  /\ \A i \in S : h[i] = f[i]
  /\ \A i \in T : h[i] = g[i]

LEMMA TotalSplits ==
  ASSUME NEW S, NEW f, NEW T, NEW g, NEW h, Splits(S, f, T, g, h)
  PROVE  Total(h) = Total(f) + Total(g) /\ Total(f) \in Nat /\ Total(g) \in Nat
<1> DEFINE F == UNION Units(f)
           G == UNION Units(g)
<1> /\ IsFiniteSet(S) /\ IsFiniteSet(T) /\ S \cap T = {}
    /\ f \in [S -> Nat] /\ g \in [T -> Nat] /\ h \in [S \cup T -> Nat]
    /\ (\A i \in S : h[i] = f[i]) /\ (\A i \in T : h[i] = g[i])
  BY DEF Splits
<1>1. IsFiniteSet(F) /\ IsFiniteSet(G)
  BY UnitsFinite
<1>2. UNION Units(h) = F \cup G
  <2>1. Units(h) = Units(f) \cup Units(g)
    BY DEF Units
  <2> QED BY <2>1
<1>3. F \cap G = {}
  <2>1. ASSUME NEW e \in F, e \in G PROVE FALSE
    <3>1. PICK i \in S : e \in {i} \X (1..f[i])
      BY <2>1 DEF Units
    <3>2. PICK j \in T : e \in {j} \X (1..g[j])
      BY <2>1 DEF Units
    <3>3. i = j
      BY <3>1, <3>2
    <3> QED BY <3>3
  <2> QED BY <2>1
<1>4. /\ Total(f) = Cardinality(F) /\ Total(g) = Cardinality(G)
      /\ Total(h) = Cardinality(UNION Units(h))
  BY DEF Total, Units
<1> HIDE DEF F, G
<1>5. /\ Cardinality(F \cup G) = Cardinality(F) + Cardinality(G) - Cardinality(F \cap G)
      /\ Cardinality(F) \in Nat /\ Cardinality(G) \in Nat
  BY <1>1, FS_Union, FS_CardinalityType
<1>6. Cardinality(F \cap G) = 0
  BY <1>3, FS_EmptySet
<1>7. Total(h) = Cardinality(F \cup G)
  BY <1>2, <1>4
<1> QED BY <1>4, <1>5, <1>6, <1>7

LEMMA TotalOfOne ==
  ASSUME NEW x, NEW f \in [{x} -> Nat]
  PROVE  Total(f) = f[x]
<1>1. f[x] \in Nat
  OBVIOUS
<1>2. /\ IsFiniteSet({x}) /\ Cardinality({x}) = 1
      /\ IsFiniteSet(1..f[x]) /\ Cardinality(1..f[x]) = f[x]
  <2>1. IsFiniteSet({x}) /\ Cardinality({x}) = 1
    BY FS_Singleton
  <2>2. \A n \in Nat : IsFiniteSet(1..n) /\ Cardinality(1..n) = n
    <3>1. ASSUME NEW n \in Nat PROVE IsFiniteSet(1..n) /\ Cardinality(1..n) = n
      <4>1. 1 \in Int /\ n \in Int
        OBVIOUS
      <4>2. /\ IsFiniteSet(1..n)
            /\ Cardinality(1..n) = IF 1 > n THEN 0 ELSE n - 1 + 1
        BY <4>1, FS_Interval
      <4> QED BY <4>2
    <3> QED BY <3>1
  <2> QED BY <1>1, <2>1, <2>2
<1>3. Cardinality({x} \X (1..f[x])) = Cardinality({x}) * Cardinality(1..f[x])
  BY <1>2, FS_Product
<1>4. UNION {{i} \X (1..f[i]) : i \in DOMAIN f} = {x} \X (1..f[x])
  OBVIOUS
<1>5. Total(f) = Cardinality({x} \X (1..f[x]))
  BY <1>4 DEF Total
<1> QED BY <1>1, <1>2, <1>3, <1>5

\* g has another value for x than f.
Changes(S, f, x, g) ==
  /\ IsFiniteSet(S) /\ x \in S /\ f \in [S -> Nat] /\ g \in [S -> Nat]
  /\ \A i \in S \ {x} : g[i] = f[i]

LEMMA TotalChanges ==
  ASSUME NEW S, NEW f, NEW x, NEW g, Changes(S, f, x, g)
  PROVE  Total(g) + f[x] = Total(f) + g[x]
<1> DEFINE T == S \ {x}
           rest == [i \in T |-> f[i]]
           old == [i \in {x} |-> f[x]]
           new == [i \in {x} |-> g[x]]
<1> /\ IsFiniteSet(S) /\ x \in S /\ f \in [S -> Nat] /\ g \in [S -> Nat]
    /\ \A i \in S \ {x} : g[i] = f[i]
  BY DEF Changes
<1>1. IsFiniteSet(T) /\ IsFiniteSet({x}) /\ T \cap {x} = {} /\ T \cup {x} = S
  BY FS_Subset, FS_Singleton
<1>2. f[x] \in Nat /\ g[x] \in Nat
  OBVIOUS
<1>3. /\ rest \in [T -> Nat] /\ old \in [{x} -> Nat] /\ new \in [{x} -> Nat]
      /\ old[x] = f[x] /\ new[x] = g[x]
      /\ \A i \in T : rest[i] = f[i]
  BY <1>2
<1>4. \A i \in T : rest[i] = g[i]
  BY <1>3
<1>5. f \in [T \cup {x} -> Nat] /\ g \in [T \cup {x} -> Nat]
  BY <1>1
<1> HIDE DEF T, rest, old, new
<1>6. Splits(T, rest, {x}, old, f) /\ Splits(T, rest, {x}, new, g)
  BY <1>1, <1>3, <1>4, <1>5 DEF Splits
<1>7. /\ Total(f) = Total(rest) + Total(old) /\ Total(g) = Total(rest) + Total(new)
      /\ Total(rest) \in Nat
  BY <1>6, TotalSplits
<1>8. Total(old) = f[x] /\ Total(new) = g[x]
  BY <1>3, TotalOfOne
<1> QED BY <1>2, <1>7, <1>8

LEMMA TotalOfZeros ==
  ASSUME NEW f, \A i \in DOMAIN f : f[i] = 0
  PROVE  Total(f) = 0
<1>1. UNION {{i} \X (1..f[i]) : i \in DOMAIN f} = {}
  OBVIOUS
<1> QED BY <1>1, FS_EmptySet DEF Total

\* Whole periods.
LEMMA Periods ==
  ASSUME NEW a \in Nat, NEW b \in Nat, NEW n \in Nat \ {0}
  PROVE  /\ a \div n \in Nat
         /\ (a \div n) + (b \div n) <= (a + b) \div n
<1>1. ASSUME NEW c \in Nat
      PROVE  /\ c \div n \in Nat /\ c % n \in 0..(n - 1)
             /\ c = n * (c \div n) + (c % n)
  OBVIOUS
<1> DEFINE p == a \div n
           q == b \div n
           s == (a + b) \div n
<1>2. /\ p \in Nat /\ a % n \in 0..(n - 1) /\ a = n * p + (a % n)
      /\ q \in Nat /\ b % n \in 0..(n - 1) /\ b = n * q + (b % n)
      /\ s \in Nat /\ (a + b) % n \in 0..(n - 1) /\ a + b = n * s + ((a + b) % n)
  BY <1>1
<1>3. n * s + n > n * p + n * q
  BY <1>2
<1> HIDE DEF p, q, s
<1>4. s + 1 > p + q
  <2> SUFFICES ASSUME s + 1 <= p + q PROVE FALSE
    BY <1>2
  <2>1. n * (s + 1) <= n * (p + q)
    BY <1>2
  <2> QED
    BY <1>2, <1>3, <2>1
<1> QED
  BY <1>2, <1>4 DEF p, q, s

-----------------------------------------------------------------------------
(* Openings and requests.                                                  *)

LEMMA IdsIs == /\ IsFiniteSet(Ids) /\ IsFiniteSet(Txs) /\ Txs \subseteq Ids /\ Uuids \subseteq Ids
               /\ TutorialTx \in Ids /\ TutorialTx \notin Txs \cup Uuids /\ None \notin Ids
<1>1. IsFiniteSet({TutorialTx})
  BY FS_Singleton
<1>2. IsFiniteSet(Txs) /\ IsFiniteSet(Uuids) /\ IsFiniteSet(Txs \cup Uuids)
  BY FS_Union, PacksAssumption
<1>3. IsFiniteSet((Txs \cup Uuids) \cup {TutorialTx})
  BY <1>1, <1>2, FS_Union
<1> QED
  BY <1>2, <1>3, PacksAssumption DEF Ids

LEMMA OpeningFields ==
  ASSUME NEW o \in Opening
  PROVE  /\ o # NoOpening /\ o.size \in Nat \ {0} /\ o.draw \in Draw
         /\ o.free \in BOOLEAN /\ o.special \in BOOLEAN
         /\ Len(o.draw) \in Nat
         /\ \A c \in Cards : Copies(o.draw, c) \in Nat
<1>1. o.draw \in Draw /\ o.size \in Sizes /\ o.free \in BOOLEAN /\ o.special \in BOOLEAN
  BY DEF Opening
<1>2. o.size \in Nat \ {0}
  BY <1>1, PacksAssumption DEF Sizes
<1>3. o # NoOpening
  BY <1>2 DEF NoOpening
<1>4. PICK n \in 1..Ten : o.draw \in [1..n -> Cards]
  BY <1>1 DEF Draw
<1>5. n \in Nat /\ o.draw \in Seq(Cards) /\ Len(o.draw) = n
  BY <1>4, PacksAssumption
<1>6. ASSUME NEW c \in Cards PROVE Copies(o.draw, c) \in Nat
  <2>1. IsFiniteSet(1..n)
    BY <1>5, FS_Interval
  <2>2. {k \in DOMAIN o.draw : o.draw[k] = c} \in SUBSET (1..n)
    BY <1>4
  <2>3. IsFiniteSet({k \in DOMAIN o.draw : o.draw[k] = c})
    BY <2>1, <2>2, FS_Subset
  <2> QED
    BY <2>3, FS_CardinalityType DEF Copies
<1> QED
  BY <1>1, <1>2, <1>3, <1>5, <1>6

LEMMA CallFields ==
  ASSUME TypeOK, NEW r \in Calls, call[r].pc # "none"
  PROVE  /\ call[r] \in Call
         /\ call[r].tx \in Ids \cup {None} /\ call[r].size \in Sizes
         /\ call[r].packs \in 1..Ten /\ call[r].free \in BOOLEAN /\ call[r].special \in BOOLEAN
         /\ call[r].tickets \in Nat /\ call[r].right \in Nat \cup {None}
BY DEF TypeOK, Call, NoCall

LEMMA NoCallIs ==
  ASSUME TypeOK, NEW r \in Calls PROVE call[r] = NoCall <=> call[r].pc = "none"
BY DEF TypeOK, Call, NoCall

LEMMA WeekIs == ASSUME TypeOK PROVE now \div Week \in Nat
<1>1. now \in Nat /\ Week \in Nat \ {0}
  BY PacksAssumption DEF TypeOK
<1> QED
  BY <1>1, Periods

\* What a request that waits may still do in a week.
Served(c, given, week) ==
  /\ c.pc = "commit" => c.tx \in Txs \cup Uuids
  /\ c.pc = "register" => c.tx = TutorialTx /\ given /\ c.free /\ ~c.special
  /\ c.special => /\ c.free
                  /\ c.packs = c.tickets + (IF c.right = None THEN 0 ELSE 1)
                  /\ c.right # None => c.right <= week
  /\ ~c.special => c.tickets = 0 /\ c.right = None
ServedCalls == \A r \in Calls : call[r].pc # "none" => Served(call[r], granted, now \div Week)

LEMMA ServedLater ==
  ASSUME NEW c \in Call, NEW given \in BOOLEAN, NEW week \in Nat, Served(c, given, week),
         NEW later \in BOOLEAN, given => later, NEW next \in Nat, week <= next
  PROVE  Served(c, later, next)
BY DEF Served, Call

\* The opening that is recorded.
Records(i, o) == /\ i \in Ids /\ opening[i] = NoOpening /\ o \in Opening
                 /\ opening' = [opening EXCEPT ![i] = o]

LEMMA RecordsAdds ==
  ASSUME TypeOK, NEW i, NEW o, Records(i, o)
  PROVE  /\ Openings' = Openings \cup {i} /\ i \notin Openings
         /\ opening'[i] = o /\ \A j \in Openings : opening'[j] = opening[j] /\ opening[j] \in Opening
         /\ opening' \in [Ids -> Opening \cup {NoOpening}]
<1>1. o # NoOpening
  BY OpeningFields DEF Records
<1> QED
  BY <1>1 DEF Records, Openings, TypeOK

-----------------------------------------------------------------------------
(* Types, and what a request that waits may do.                            *)

\* A request takes the place of another; the others wait on.
Puts(r, c) == /\ c \in Call \cup {NoCall}
              /\ c.pc # "none" => Served(c, granted', now \div Week)
              /\ call' = [call EXCEPT ![r] = c]

LEMMA OpenPuts ==
  ASSUME TypeOK, NEW r \in Calls, NEW i \in Txs, NEW n \in Sizes, Open(r, i, n)
  PROVE  \E c : Puts(r, c)
<1> DEFINE c == [pc |-> "commit", tx |-> i, size |-> n, packs |-> Returned(n),
                 free |-> rule.free, special |-> FALSE, tickets |-> 0, right |-> None]
<1>1. rule.free \in BOOLEAN /\ rule.ten \in 1..Ten /\ 1 \in 1..Ten
  BY PacksAssumption DEF TypeOK, Rule
<1>2. Returned(n) \in 1..Ten
  BY <1>1 DEF Returned
<1>3. c \in Call
  BY <1>1, <1>2, IdsIs DEF Call
<1>4. call' = [call EXCEPT ![r] = c]
  BY DEF Open, Begin
<1>5. Served(c, granted', now \div Week)
  BY DEF Served
<1> HIDE DEF c
<1> QED
  BY <1>3, <1>4, <1>5 DEF Puts

LEMMA PurchasePuts ==
  ASSUME TypeOK, NEW r \in Calls, NEW n \in Sizes, NEW right \in BOOLEAN,
         PurchaseSpecial(r, n, right)
  PROVE  \E c : Puts(r, c)
<1> DEFINE c == [pc |-> "draw", tx |-> None, size |-> n, packs |-> n, free |-> TRUE,
                 special |-> TRUE, tickets |-> IF right THEN n - 1 ELSE n,
                 right |-> IF right THEN now \div Week ELSE None]
<1>1. n \in 1..Ten /\ n - 1 \in Nat /\ n \in Nat
  BY PacksAssumption DEF Sizes
<1>2. now \div Week \in Nat
  BY WeekIs
<1>3. c \in Call
  BY <1>1, <1>2 DEF Call
<1>4. call' = [call EXCEPT ![r] = c]
  BY DEF PurchaseSpecial, Begin
<1>5. None \notin Nat /\ n = n - 1 + 1 /\ n = n + 0 /\ now \div Week <= now \div Week
  BY <1>1, <1>2, PacksAssumption
<1>6. Served(c, granted', now \div Week)
  BY <1>2, <1>5 DEF Served
<1> HIDE DEF c
<1> QED
  BY <1>3, <1>4, <1>6 DEF Puts

LEMMA DrawPuts ==
  ASSUME TypeOK, ServedCalls, NEW r \in Calls, DrawSpecial(r)
  PROVE  \E c : Puts(r, c)
<1>1. call[r].pc = "draw" /\ granted' = granted
  BY DEF DrawSpecial, profile
<1>2. call[r] \in Call /\ Served(call[r], granted, now \div Week)
  BY <1>1, CallFields DEF ServedCalls
<1>3. PICK i \in Uuids : call' = [call EXCEPT ![r].pc = "commit", ![r].tx = i]
  BY DEF DrawSpecial
<1> DEFINE c == [call[r] EXCEPT !.pc = "commit", !.tx = i]
<1>4. c \in Call
  BY <1>2, IdsIs DEF Call
<1>5. Served(c, granted', now \div Week)
  BY <1>1, <1>2, <1>4 DEF Served, Call
<1>6. call' = [call EXCEPT ![r] = c]
  BY <1>3 DEF TypeOK
<1> HIDE DEF c
<1> QED
  BY <1>4, <1>5, <1>6 DEF Puts

LEMMA TutorialPuts ==
  ASSUME TypeOK, NEW r \in Calls, GrantTutorial(r)
  PROVE  \E c : Puts(r, c)
<1> DEFINE c == [pc |-> "register", tx |-> TutorialTx, size |-> 1, packs |-> 1, free |-> TRUE,
                 special |-> FALSE, tickets |-> 0, right |-> None]
<1>1. 1 \in 1..Ten /\ 1 \in Sizes
  BY PacksAssumption DEF Sizes
<1>2. c \in Call
  BY <1>1, IdsIs DEF Call
<1>3. call' = [call EXCEPT ![r] = c] /\ granted' = TRUE
  BY DEF GrantTutorial, Begin
<1>4. Served(c, granted', now \div Week)
  BY <1>3 DEF Served
<1> HIDE DEF c
<1> QED
  BY <1>2, <1>3, <1>4 DEF Puts

LEMMA DonePuts ==
  ASSUME NEW r, call' = [call EXCEPT ![r] = NoCall] PROVE Puts(r, NoCall)
BY DEF Puts, NoCall

\* What a step does to the profile, and to the requests.
Waits == UNCHANGED profile
Profits == \/ \E r \in Calls : Commit(r) \/ GrantTutorial(r) \/ RegisterPackOpening(r)
           \/ \E i \in Txs, c \in Cards : ExchangePackPoints(i, c)

LEMMA StepKinds ==
  ASSUME TypeOK, ServedCalls, [Next]_vars
  PROVE  /\ Waits \/ (Profits /\ now' = now)
         /\ UNCHANGED call \/ (now' = now /\ \E r \in Calls : \E c : Puts(r, c))
         /\ now' \in {now, now + 1} /\ now' <= MaxTime
         /\ rule' \in Rule /\ kinds' \in Mixes
<1>1. now \in Nat /\ now <= MaxTime /\ rule \in Rule /\ kinds \in Mixes
  BY PacksAssumption DEF TypeOK
<1>2. CASE UNCHANGED vars
  BY <1>1, <1>2 DEF vars, Waits, profile
<1>3. ASSUME NEW new \in Rule, SaveGlobalPackRule(new) \/ Tick, UNCHANGED kinds
      PROVE  /\ Waits /\ UNCHANGED call /\ now' \in {now, now + 1} /\ now' <= MaxTime
             /\ rule' \in Rule /\ kinds' \in Mixes
  <2>1. CASE SaveGlobalPackRule(new)
    BY <1>1, <1>3, <2>1 DEF SaveGlobalPackRule, Waits
  <2>2. CASE Tick
    <3>1. now < MaxTime /\ now' = now + 1 /\ UNCHANGED <<rule, profile, call>>
      BY <2>2 DEF Tick
    <3> QED
      BY <1>1, <1>3, <3>1, PacksAssumption DEF Waits
  <2> QED
    BY <1>3, <2>1, <2>2
<1>4. ASSUME NEW r \in Calls,
             \/ \E i \in Txs, n \in Sizes : Open(r, i, n)
             \/ \E n \in Sizes, right \in BOOLEAN : PurchaseSpecial(r, n, right)
             \/ DrawSpecial(r) \/ CallEnds(r)
      PROVE  Waits /\ (\E c : Puts(r, c)) /\ UNCHANGED <<rule, now>>
  <2>1. Waits /\ UNCHANGED <<rule, now>>
    BY <1>4 DEF Open, PurchaseSpecial, DrawSpecial, CallEnds, Waits
  <2>2. \E c : Puts(r, c)
    BY <1>4, OpenPuts, PurchasePuts, DrawPuts, DonePuts DEF CallEnds
  <2> QED
    BY <2>1, <2>2
<1>5. ASSUME NEW r \in Calls, Commit(r) \/ GrantTutorial(r) \/ RegisterPackOpening(r)
      PROVE  Profits /\ (\E c : Puts(r, c)) /\ UNCHANGED <<rule, now>>
  <2>1. Profits
    BY <1>5 DEF Profits
  <2>2. UNCHANGED <<rule, now>>
    BY <1>5 DEF Commit, GrantTutorial, RegisterPackOpening
  <2>3. \E c : Puts(r, c)
    BY <1>5, TutorialPuts, DonePuts DEF Commit, RegisterPackOpening
  <2> QED
    BY <2>1, <2>2, <2>3
<1>6. ASSUME NEW i \in Txs, NEW c \in Cards, ExchangePackPoints(i, c)
      PROVE  Profits /\ UNCHANGED <<rule, call, now>>
  BY <1>6 DEF ExchangePackPoints, Profits
<1>7. CASE Next
  <2>1. UNCHANGED kinds
    BY <1>7 DEF Next
  <2>2. CASE (\E new \in Rule : SaveGlobalPackRule(new)) \/ Tick
    <3>1. \E new : new \in Rule
      BY <1>1
    <3> QED
      BY <1>3, <2>1, <2>2, <3>1
  <2>3. CASE \E kind \in kinds : Request(kind)
    <3>1. \/ \E r \in Calls : \/ \E i \in Txs, n \in Sizes : Open(r, i, n)
                              \/ \E n \in Sizes, right \in BOOLEAN : PurchaseSpecial(r, n, right)
                              \/ GrantTutorial(r)
          \/ \E i \in Txs, c \in Cards : ExchangePackPoints(i, c)
      BY <2>3 DEF Request
    <3> QED
      BY <1>1, <1>4, <1>5, <1>6, <2>1, <3>1
  <2>4. CASE \E r \in Calls : DrawSpecial(r) \/ Commit(r) \/ RegisterPackOpening(r) \/ CallEnds(r)
    BY <1>1, <1>4, <1>5, <2>1, <2>4
  <2> QED
    BY <1>7, <2>2, <2>3, <2>4 DEF Next
<1> QED
  BY <1>2, <1>7

LEMMA LaterNow ==
  ASSUME TypeOK, now' \in {now, now + 1}
  PROVE  /\ now \in Nat /\ now' \in Nat /\ now <= now'
         /\ now \div Week \in Nat /\ now' \div Week \in Nat /\ now \div Week <= now' \div Week
         /\ now \div Period \in Nat /\ now' \div Period \in Nat
         /\ now \div Period <= now' \div Period
<1>1. now \in Nat /\ now' \in Nat /\ now <= now' /\ Week \in Nat \ {0} /\ Period \in Nat \ {0}
  BY PacksAssumption DEF TypeOK
<1>2. PICK k \in Nat : now' = now + k
  BY <1>1
<1>3. ASSUME NEW n \in Nat \ {0}
      PROVE  now \div n \in Nat /\ now' \div n \in Nat /\ now \div n <= now' \div n
  <2>1. /\ now \div n \in Nat /\ k \div n \in Nat
        /\ (now \div n) + (k \div n) <= (now + k) \div n
    BY <1>1, Periods
  <2>2. now' \div n \in Nat
    BY <1>1, Periods
  <2> QED
    BY <1>2, <2>1, <2>2
<1> QED
  BY <1>1, <1>3

LEMMA GrantedKept ==
  ASSUME TypeOK, Waits \/ Profits PROVE granted' \in BOOLEAN /\ (granted => granted')
BY DEF TypeOK, Waits, Profits, profile, Commit, GrantTutorial, RegisterPackOpening,
       ExchangePackPoints

LEMMA CallsKept ==
  ASSUME TypeOK, ServedCalls, [Next]_vars
  PROVE  call' \in [Calls -> Call \cup {NoCall}] /\ ServedCalls'
<1>1. /\ now' \in {now, now + 1} /\ granted' \in BOOLEAN /\ granted \in BOOLEAN
      /\ granted => granted'
  BY StepKinds, GrantedKept DEF TypeOK
<1>2. /\ now \div Week \in Nat /\ now' \div Week \in Nat /\ now \div Week <= now' \div Week
  BY <1>1, LaterNow
<1>3. ASSUME NEW s \in Calls, call'[s] = call[s], call[s].pc # "none"
      PROVE  Served(call'[s], granted', now' \div Week)
  <2>1. call[s] \in Call /\ Served(call[s], granted, now \div Week)
    BY <1>3, CallFields DEF ServedCalls
  <2> QED
    BY <1>1, <1>2, <1>3, <2>1, ServedLater
<1>4. CASE UNCHANGED call
  BY <1>3, <1>4 DEF ServedCalls, TypeOK
<1>5. ASSUME NEW r \in Calls, NEW c, Puts(r, c), now' = now
      PROVE  call' \in [Calls -> Call \cup {NoCall}] /\ ServedCalls'
  <2>1. /\ call' \in [Calls -> Call \cup {NoCall}] /\ call'[r] = c
        /\ \A s \in Calls \ {r} : call'[s] = call[s]
    BY <1>5 DEF Puts, TypeOK
  <2>2. c.pc # "none" => Served(call'[r], granted', now' \div Week)
    BY <1>5, <2>1 DEF Puts
  <2> QED
    BY <1>3, <2>1, <2>2 DEF ServedCalls
<1> QED
  BY <1>4, <1>5, StepKinds

-----------------------------------------------------------------------------
(* What an opening takes and gives.                                        *)

\* Its cards and points,
Draws(o) == /\ owned' = [c \in Cards |-> owned[c] + Copies(o.draw, c)]
            /\ points' = IF o.special THEN points ELSE points + Len(o.draw)
\* its price,
Pays(o) == \/ o.free /\ UNCHANGED <<power, gold>>
           \/ ~o.free /\ SpendPower(Price * o.size)
\* and the tickets and the right of a special one.
Uses(o) == \/ ~o.special /\ UNCHANGED <<tickets, rights>>
           \/ /\ o.special
              /\ \E gone \in 0..tickets :
                   /\ tickets' = tickets - gone
                   /\ \/ Len(o.draw) = gone /\ UNCHANGED rights
                      \/ /\ Len(o.draw) = gone + 1
                         /\ \E week \in 0..(now \div Week) \ rights : rights' = rights \cup {week}

LEMMA CommitRecords ==
  ASSUME TypeOK, ServedCalls, NEW r \in Calls, Commit(r)
  PROVE  \E i \in Txs \cup Uuids : \E o : Records(i, o) /\ Draws(o) /\ Pays(o) /\ Uses(o)
<1> DEFINE c == call[r]
<1>1. c.pc = "commit" /\ opening[c.tx] = NoOpening
  BY DEF Commit, Fresh
<1>2. c \in Call /\ Served(c, granted, now \div Week)
  BY <1>1, CallFields DEF ServedCalls
<1>3. /\ c.tx \in Txs \cup Uuids /\ c.size \in Sizes /\ c.free \in BOOLEAN /\ c.special \in BOOLEAN
      /\ c.tickets \in Nat /\ c.right \in Nat \cup {None} /\ c.packs \in 1..Ten
  BY <1>1, <1>2 DEF Served, Call
<1>4. PICK draw \in [1..c.packs -> Cards] :
        /\ opening' = [opening EXCEPT ![c.tx] = Opened(c, draw)]
        /\ owned' = [d \in Cards |-> owned[d] + Copies(draw, d)]
  BY DEF Commit
<1> DEFINE o == Opened(c, draw)
<1>5. /\ o.draw = draw /\ o.size = c.size /\ o.free = c.free /\ o.special = c.special
      /\ o \in Opening
  <2>1. draw \in Draw
    BY <1>3 DEF Draw
  <2> QED
    BY <1>3, <2>1 DEF Opened, Opening
<1>6. Len(draw) = c.packs /\ c.packs \in Nat
  <2>1. c.packs \in Nat /\ draw \in Seq(Cards)
    BY <1>3, PacksAssumption
  <2> QED
    BY <2>1
<1>7. Records(c.tx, o)
  BY <1>1, <1>3, <1>4, <1>5, IdsIs DEF Records
<1>8. Draws(o)
  BY <1>4, <1>5, <1>6 DEF Draws, Commit
<1>9. Pays(o)
  BY <1>5 DEF Pays, Commit
<1>10. Uses(o)
  <2>1. /\ c.tickets <= tickets /\ tickets' = tickets - c.tickets /\ tickets \in Nat
        /\ c.right \notin rights /\ rights' = rights \cup ({c.right} \ {None})
    BY DEF Commit, TakeRight, TypeOK
  <2>2. CASE ~c.special
    <3>1. c.tickets = 0 /\ c.right = None
      BY <1>2, <2>2 DEF Served
    <3> QED
      BY <1>5, <2>1, <2>2, <3>1 DEF Uses
  <2>3. CASE c.special
    <3>1. c.tickets \in 0..tickets
      BY <1>3, <2>1
    <3>2. CASE c.right = None
      <4>1. Len(o.draw) = c.tickets /\ UNCHANGED rights
        BY <1>2, <1>3, <1>5, <1>6, <2>1, <2>3, <3>2 DEF Served
      <4> HIDE DEF c, o
      <4> QED
        BY <1>5, <2>1, <2>3, <3>1, <4>1 DEF Uses
    <3>3. CASE c.right # None
      <4>1. Len(o.draw) = c.tickets + 1
        BY <1>2, <1>5, <1>6, <2>3, <3>3 DEF Served
      <4>2. now \div Week \in Nat
        BY WeekIs
      <4>3. c.right \in 0..(now \div Week) \ rights
        BY <1>2, <1>3, <2>1, <2>3, <3>3, <4>2 DEF Served
      <4>4. rights' = rights \cup {c.right}
        BY <2>1, <3>3
      <4> HIDE DEF c, o
      <4> QED
        BY <1>5, <2>1, <2>3, <3>1, <4>1, <4>3, <4>4 DEF Uses
    <3> QED
      BY <3>2, <3>3
  <2> QED
    BY <1>3, <2>2, <2>3
<1> QED
  BY <1>3, <1>7, <1>8, <1>9, <1>10

\* Registering the pack of the tutorial records it and gives nothing.
LEMMA RegisterRecords ==
  ASSUME TypeOK, ServedCalls, NEW r \in Calls, RegisterPackOpening(r)
  PROVE  /\ granted
         /\ \E o : Records(TutorialTx, o) /\ o.free /\ ~o.special
         /\ UNCHANGED <<power, gold, tickets, rights, points, owned, exchange, granted>>
<1> DEFINE c == call[r]
           o == Opened(c, <<TutorialCard>>)
<1>1. c.pc = "register" /\ opening[c.tx] = NoOpening
      /\ opening' = [opening EXCEPT ![c.tx] = Opened(c, <<TutorialCard>>)]
  BY DEF RegisterPackOpening, Fresh
<1>2. c \in Call /\ Served(c, granted, now \div Week)
  BY <1>1, CallFields DEF ServedCalls
<1>3. c.tx = TutorialTx /\ granted /\ c.free /\ ~c.special /\ c.size \in Sizes
      /\ c.free \in BOOLEAN /\ c.special \in BOOLEAN
  BY <1>1, <1>2 DEF Served, Call
<1>4. o.free = c.free /\ o.special = c.special /\ o \in Opening
  <2>1. <<TutorialCard>> \in [1..1 -> Cards] /\ 1 \in 1..Ten
    BY PacksAssumption
  <2>2. <<TutorialCard>> \in Draw
    BY <2>1 DEF Draw
  <2> QED
    BY <1>3, <2>2 DEF Opened, Opening
<1>5. Records(TutorialTx, o)
  BY <1>1, <1>3, <1>4, IdsIs DEF Records
<1> QED
  BY <1>3, <1>4, <1>5 DEF RegisterPackOpening

-----------------------------------------------------------------------------
(* The profile keeps its types.                                            *)

LEMMA HealedBounds ==
  ASSUME TypeOK
  PROVE  /\ power.amount \in Nat /\ power.updated \in 0..now /\ now \in Nat /\ gold \in Nat
         /\ Healed(power) \in Nat
         /\ Healed(power) <= power.amount + ((now - power.updated) \div Period)
<1>1. /\ power.amount \in Nat /\ power.updated \in 0..now /\ now \in Nat /\ gold \in Nat
      /\ now - power.updated \in Nat /\ MaxPower \in Nat /\ Period \in Nat \ {0}
  BY PacksAssumption DEF TypeOK
<1>2. (now - power.updated) \div Period \in Nat
  BY <1>1, Periods
<1> QED
  BY <1>1, <1>2 DEF Healed, Smaller

LEMMA Spends ==
  ASSUME TypeOK, NEW cost \in Nat, SpendPower(cost)
  PROVE  /\ power' \in [amount : Nat, updated : 0..now] /\ power'.updated = now
         /\ power'.amount \in Nat /\ gold' \in Nat
         /\ power'.amount + gold' + cost = Healed(power) + gold
<1> DEFINE used == Smaller(Healed(power), cost)
<1>1. Healed(power) \in Nat /\ gold \in Nat /\ now \in Nat
  BY HealedBounds
<1>2. used \in Nat /\ used <= Healed(power) /\ used <= cost
  BY <1>1 DEF Smaller
<1>3. /\ cost - used <= gold /\ power' = [amount |-> Healed(power) - used, updated |-> now]
      /\ gold' = gold - (cost - used)
  BY DEF SpendPower
<1> HIDE DEF used
<1>4. Healed(power) - used \in Nat /\ gold' \in Nat
  BY <1>1, <1>2, <1>3
<1> QED
  BY <1>1, <1>2, <1>3, <1>4

LEMMA PaysTyped ==
  ASSUME TypeOK, NEW o \in Opening, Pays(o)
  PROVE  /\ power' \in [amount : Nat, updated : 0..now] /\ gold' \in Nat
<1>1. Price * o.size \in Nat
  BY OpeningFields, PacksAssumption
<1>2. CASE o.free /\ UNCHANGED <<power, gold>>
  BY <1>2 DEF TypeOK
<1>3. CASE SpendPower(Price * o.size)
  BY <1>1, <1>3, Spends
<1> QED
  BY <1>2, <1>3 DEF Pays

LEMMA UsesTyped ==
  ASSUME TypeOK, NEW o \in Opening, Uses(o)
  PROVE  tickets' \in Nat /\ rights' \in SUBSET Nat
<1>1. tickets \in Nat /\ rights \subseteq Nat /\ now \div Week \in Nat
  BY WeekIs DEF TypeOK
<1>2. CASE UNCHANGED <<tickets, rights>>
  BY <1>1, <1>2
<1>3. ASSUME NEW gone \in 0..tickets, tickets' = tickets - gone,
             \/ UNCHANGED rights
             \/ \E week \in 0..(now \div Week) \ rights : rights' = rights \cup {week}
      PROVE  tickets' \in Nat /\ rights' \in SUBSET Nat
  <2>1. tickets' \in Nat
    BY <1>1, <1>3
  <2>2. \A week \in 0..(now \div Week) : week \in Nat
    BY <1>1
  <2>3. rights' \in SUBSET Nat
    BY <1>1, <1>3, <2>2
  <2> QED
    BY <2>1, <2>3
<1> QED
  BY <1>2, <1>3 DEF Uses

LEMMA DrawsTyped ==
  ASSUME TypeOK, NEW o \in Opening, Draws(o)
  PROVE  owned' \in [Cards -> Nat] /\ points' \in Nat
<1>1. Len(o.draw) \in Nat /\ (\A c \in Cards : Copies(o.draw, c) \in Nat) /\ points \in Nat
  BY OpeningFields DEF TypeOK
<1>2. \A c \in Cards : owned[c] + Copies(o.draw, c) \in Nat
  BY <1>1 DEF TypeOK
<1> QED
  BY <1>1, <1>2 DEF Draws

\* The profile, as TypeOK has it.
ProfileOK(time) ==
  /\ power \in [amount : Nat, updated : 0..time]
  /\ gold \in Nat /\ tickets \in Nat /\ points \in Nat
  /\ rights \subseteq Nat
  /\ owned \in [Cards -> Nat]
  /\ opening \in [Ids -> Opening \cup {NoOpening}]
  /\ exchange \in [Txs -> Cards \cup {None}]
  /\ granted \in BOOLEAN

LEMMA CommitTyped ==
  ASSUME TypeOK, ServedCalls, NEW r \in Calls, Commit(r) PROVE ProfileOK(now)'
<1>1. PICK i \in Txs \cup Uuids : \E o : Records(i, o) /\ Draws(o) /\ Pays(o) /\ Uses(o)
  BY CommitRecords
<1>2. PICK o : Records(i, o) /\ Draws(o) /\ Pays(o) /\ Uses(o)
  BY <1>1
<1>3. o \in Opening /\ opening' \in [Ids -> Opening \cup {NoOpening}]
  BY <1>2, RecordsAdds DEF Records
<1>4. /\ power' \in [amount : Nat, updated : 0..now] /\ gold' \in Nat
      /\ tickets' \in Nat /\ rights' \in SUBSET Nat
      /\ owned' \in [Cards -> Nat] /\ points' \in Nat
  BY <1>2, <1>3, PaysTyped, UsesTyped, DrawsTyped
<1>5. UNCHANGED <<exchange, granted, now>>
  BY DEF Commit
<1> QED
  BY <1>3, <1>4, <1>5 DEF ProfileOK, TypeOK

LEMMA GrantTyped ==
  ASSUME TypeOK, NEW r \in Calls, GrantTutorial(r) PROVE ProfileOK(now)'
<1>1. /\ granted' = TRUE /\ UNCHANGED <<power, gold, tickets, rights, opening, exchange, now>>
  BY DEF GrantTutorial
<1>2. owned' \in [Cards -> Nat] /\ points' \in Nat
  <2>1. owned \in [Cards -> Nat] /\ points \in Nat /\ owned[TutorialCard] + 1 \in Nat
    BY PacksAssumption DEF TypeOK
  <2>2. CASE UNCHANGED <<owned, points>>
    BY <2>1, <2>2
  <2>3. CASE owned' = [owned EXCEPT ![TutorialCard] = @ + 1] /\ points' = points + 1
    <3>1. owned' = [owned EXCEPT ![TutorialCard] = owned[TutorialCard] + 1]
      BY <2>1, <2>3
    <3>2. points' \in Nat
      BY <2>1, <2>3
    <3> QED
      BY <2>1, <3>1, <3>2
  <2> QED
    BY <2>2, <2>3 DEF GrantTutorial
<1> QED
  BY <1>1, <1>2 DEF ProfileOK, TypeOK

LEMMA RegisterTyped ==
  ASSUME TypeOK, ServedCalls, NEW r \in Calls, RegisterPackOpening(r) PROVE ProfileOK(now)'
<1>1. PICK o : Records(TutorialTx, o)
  BY RegisterRecords
<1>2. opening' \in [Ids -> Opening \cup {NoOpening}]
  BY <1>1, RecordsAdds
<1>3. UNCHANGED <<power, gold, tickets, rights, points, owned, exchange, granted, now>>
  BY DEF RegisterPackOpening
<1> QED
  BY <1>2, <1>3 DEF ProfileOK, TypeOK

LEMMA ExchangeTyped ==
  ASSUME TypeOK, NEW i \in Txs, NEW c \in Cards, ExchangePackPoints(i, c) PROVE ProfileOK(now)'
<1>1. /\ owned' = [owned EXCEPT ![c] = @ + 1] /\ exchange' = [exchange EXCEPT ![i] = c]
      /\ UNCHANGED <<power, gold, tickets, rights, opening, granted, now>>
  BY DEF ExchangePackPoints
<1>2. owned[c] + 1 \in Nat /\ owned \in [Cards -> Nat] /\ exchange \in [Txs -> Cards \cup {None}]
  BY DEF TypeOK
<1>3. points' \in Nat
  BY PacksAssumption DEF ExchangePackPoints, TypeOK
<1>4. owned' \in [Cards -> Nat] /\ exchange' \in [Txs -> Cards \cup {None}]
  BY <1>1, <1>2
<1> QED
  BY <1>1, <1>3, <1>4 DEF ProfileOK, TypeOK

LEMMA ProfileTyped ==
  ASSUME TypeOK, ServedCalls, [Next]_vars PROVE ProfileOK(now)'
<1>1. CASE Waits
  <2>1. now \in Nat /\ now' \in Nat /\ now <= now'
    BY StepKinds, LaterNow
  <2>2. power.updated \in 0..now' /\ power' = power
    BY <1>1, <2>1 DEF TypeOK, Waits, profile
  <2>3. power' \in [amount : Nat, updated : 0..now']
    BY <2>1, <2>2 DEF TypeOK
  <2> QED
    BY <1>1, <2>3 DEF Waits, profile, ProfileOK, TypeOK
<1>2. CASE Profits
  BY <1>2, CommitTyped, GrantTyped, RegisterTyped, ExchangeTyped DEF Profits
<1> QED
  BY <1>1, <1>2, StepKinds

LEMMA TypesKept ==
  ASSUME TypeOK, ServedCalls, [Next]_vars PROVE TypeOK' /\ ServedCalls'
<1>1. ProfileOK(now)' /\ call' \in [Calls -> Call \cup {NoCall}] /\ ServedCalls'
  BY ProfileTyped, CallsKept
<1>2. now' \in 0..MaxTime /\ rule' \in Rule /\ kinds' \in Mixes
  <2>1. now' \in Nat /\ now' <= MaxTime /\ rule' \in Rule /\ kinds' \in Mixes
    BY StepKinds, LaterNow
  <2> QED
    BY <2>1, PacksAssumption
<1> QED
  BY <1>1, <1>2 DEF TypeOK, ProfileOK

LEMMA TypesFirst == ASSUME Init PROVE TypeOK /\ ServedCalls
<1>1. rule \in Rule
  <2>1. Ten \in 1..Ten
    BY PacksAssumption
  <2> QED
    BY <2>1 DEF Init, OfficialRule, Rule
<1>2. power \in [amount : Nat, updated : 0..now] /\ now \in 0..MaxTime
  BY PacksAssumption DEF Init, StartPower
<1>3. call \in [Calls -> Call \cup {NoCall}] /\ \A r \in Calls : call[r].pc = "none"
  BY DEF Init, NoCall
<1>4. TypeOK
  BY <1>1, <1>2, <1>3, PacksAssumption DEF Init, TypeOK
<1> QED
  BY <1>3, <1>4 DEF ServedCalls

-----------------------------------------------------------------------------
(* What every pack costs is paid.                                          *)

\* What the openings cost.
Costs == [i \in Openings |-> IF opening[i].free THEN 0 ELSE Price * opening[i].size]

\* Of what healed, only what healed until the power's time is counted: the
\* rest is not yet in its amount.
Paid == Total(Costs) + power.amount + gold
          <= StartPower + StartGold + (power.updated \div Period)

LEMMA CostsIs ==
  ASSUME TypeOK PROVE IsFiniteSet(Openings) /\ Costs \in [Openings -> Nat] /\ Total(Costs) \in Nat
<1>1. IsFiniteSet(Openings)
  BY IdsIs, FS_Subset DEF Openings
<1>2. ASSUME NEW i \in Openings
      PROVE  (IF opening[i].free THEN 0 ELSE Price * opening[i].size) \in Nat
  <2>1. opening[i] \in Opening
    BY DEF Openings, TypeOK
  <2> QED
    BY <2>1, OpeningFields, PacksAssumption
<1>3. Costs \in [Openings -> Nat]
  BY <1>2 DEF Costs
<1> QED
  BY <1>1, <1>3, TotalIsNat

LEMMA CostsAdd ==
  ASSUME TypeOK, NEW i, NEW o, Records(i, o)
  PROVE  Total(Costs)' = Total(Costs) + (IF o.free THEN 0 ELSE Price * o.size)
<1>1. /\ Openings' = Openings \cup {i} /\ i \notin Openings /\ opening'[i] = o
      /\ \A j \in Openings : opening'[j] = opening[j]
  BY RecordsAdds
<1>2. IsFiniteSet(Openings) /\ Costs \in [Openings -> Nat]
  BY CostsIs
<1>3. /\ \A j \in Openings : Costs'[j] = Costs[j]
      /\ Costs'[i] = (IF o.free THEN 0 ELSE Price * o.size)
  BY <1>1 DEF Costs
<1>4. (IF o.free THEN 0 ELSE Price * o.size) \in Nat
  BY OpeningFields, PacksAssumption DEF Records
<1>5. Costs' \in [Openings \cup {i} -> Nat]
  <2>1. Costs' = [j \in Openings \cup {i} |-> Costs'[j]]
    BY <1>1 DEF Costs
  <2>2. \A j \in Openings \cup {i} : Costs'[j] \in Nat
    BY <1>2, <1>3, <1>4
  <2> QED
    BY <2>1, <2>2
<1>6. Adds(Openings, Costs, i, Costs')
  BY <1>1, <1>2, <1>3, <1>5 DEF Adds
<1>7. Total(Costs') = Total(Costs) + Costs'[i]
  BY <1>6, TotalAdds
<1> QED
  BY <1>3, <1>7 DEF Total

LEMMA PaidKept ==
  ASSUME TypeOK, ServedCalls, TypeOK', Paid, [Next]_vars PROVE Paid'
<1>1. CASE UNCHANGED <<opening, power, gold>>
  BY <1>1 DEF Paid, Costs, Openings, Total
<1>2. ASSUME NEW r \in Calls, Commit(r) PROVE Paid'
  <2>1. PICK i \in Txs \cup Uuids : \E o : Records(i, o) /\ Draws(o) /\ Pays(o) /\ Uses(o)
    BY <1>2, CommitRecords
  <2>2. PICK o : Records(i, o) /\ Pays(o)
    BY <2>1
  <2>3. /\ Total(Costs)' = Total(Costs) + (IF o.free THEN 0 ELSE Price * o.size)
        /\ Total(Costs) \in Nat /\ Price * o.size \in Nat
    <3>1. o \in Opening
      BY <2>2 DEF Records
    <3>2. Price * o.size \in Nat
      BY <3>1, OpeningFields, PacksAssumption
    <3> QED
      BY <2>2, <3>2, CostsAdd, CostsIs
  <2>4. CASE o.free /\ UNCHANGED <<power, gold>>
    BY <2>3, <2>4 DEF Paid
  <2>5. CASE ~o.free /\ SpendPower(Price * o.size)
    <3>1. /\ power'.updated = now /\ power'.amount \in Nat /\ gold' \in Nat
          /\ power'.amount + gold' + Price * o.size = Healed(power) + gold
      BY <2>3, <2>5, Spends
    <3>2. /\ power.amount \in Nat /\ gold \in Nat /\ Healed(power) \in Nat
          /\ Healed(power) <= power.amount + ((now - power.updated) \div Period)
          /\ power.updated \in 0..now /\ now \in Nat
      BY HealedBounds
    <3>3. /\ power.updated \in Nat /\ now - power.updated \in Nat
          /\ power.updated + (now - power.updated) = now
      BY <3>2
    <3>4. /\ power.updated \div Period \in Nat /\ (now - power.updated) \div Period \in Nat
          /\ now \div Period \in Nat
          /\ (power.updated \div Period) + ((now - power.updated) \div Period) <= now \div Period
      BY <3>2, <3>3, Periods, PacksAssumption
    <3>5. Total(Costs)' = Total(Costs) + Price * o.size
      BY <2>3, <2>5
    <3>6. StartPower \in Nat /\ StartGold \in Nat
      BY PacksAssumption DEF StartPower
    <3> DEFINE a == power'.updated \div Period
    <3>7. a = now \div Period
      BY <3>1
    <3>8. Total(Costs)' + power'.amount + gold' <= StartPower + StartGold + a
      <4> HIDE DEF a
      <4> QED
        BY <2>3, <3>1, <3>2, <3>4, <3>5, <3>6, <3>7 DEF Paid
    <3> QED
      BY <3>8 DEF Paid, StartPower
  <2> QED
    BY <2>2, <2>4, <2>5 DEF Pays
<1>3. ASSUME NEW r \in Calls, RegisterPackOpening(r) PROVE Paid'
  <2>1. PICK o : Records(TutorialTx, o) /\ o.free
    BY <1>3, RegisterRecords
  <2>2. Total(Costs)' = Total(Costs) /\ UNCHANGED <<power, gold>>
    BY <1>3, <2>1, CostsAdd, CostsIs DEF RegisterPackOpening
  <2> QED
    BY <2>2 DEF Paid
<1>4. CASE Profits
  BY <1>1, <1>2, <1>3, <1>4 DEF Profits, GrantTutorial, ExchangePackPoints
<1>5. CASE Waits
  BY <1>1, <1>5 DEF Waits, profile
<1> QED
  BY <1>4, <1>5, StepKinds

LEMMA PaidFirst == ASSUME Init PROVE Paid
<1>1. Openings = {}
  BY DEF Init, Openings
<1>2. Total(Costs) = 0
  BY <1>1, TotalOfNone DEF Costs
<1>3. 0 \div Period = 0 /\ StartGold \in Nat
  BY PacksAssumption
<1>4. power.amount = StartPower /\ power.updated = 0 /\ gold = StartGold
  BY DEF Init
<1> QED
  BY <1>2, <1>3, <1>4 DEF Paid, StartPower

LEMMA PaidMeans == ASSUME TypeOK, Paid PROVE PacksPaid
<1>1. /\ power.amount \in Nat /\ gold \in Nat /\ Healed(power) \in Nat /\ Total(Costs) \in Nat
      /\ Healed(power) <= power.amount + ((now - power.updated) \div Period)
      /\ power.updated \in 0..now /\ now \in Nat
  BY HealedBounds, CostsIs
<1>2. /\ power.updated \in Nat /\ now - power.updated \in Nat
      /\ power.updated + (now - power.updated) = now
  BY <1>1
<1>3. /\ power.updated \div Period \in Nat /\ (now - power.updated) \div Period \in Nat
      /\ now \div Period \in Nat
      /\ (power.updated \div Period) + ((now - power.updated) \div Period) <= now \div Period
  BY <1>1, <1>2, Periods, PacksAssumption
<1>4. StartPower \in Nat /\ StartGold \in Nat
  BY PacksAssumption DEF StartPower
<1>5. Total(Costs) + Healed(power) + gold <= StartPower + StartGold + (now \div Period)
  BY <1>1, <1>3, <1>4 DEF Paid
<1> QED
  BY <1>5 DEF PacksPaid, Costs

-----------------------------------------------------------------------------
(* The books balance.                                                      *)

\* The points and the copies of a card that the openings gave, the copy that
\* the tutorial gave, and the exchanges that gave one.
Points == [i \in Bought |-> IF opening[i].special THEN 0 ELSE Len(opening[i].draw)]
CopiesOf(c) == [i \in Bought |-> Copies(opening[i].draw, c)]
Given(c) == IF c = TutorialCard THEN FromTutorial ELSE 0
Taken(c) == {i \in Exchanged : exchange[i] = c}

Books == /\ TutorialTx \in Openings => granted
         /\ points + CardPrice * Cardinality(Exchanged) = FromTutorial + Total(Points)
         /\ \A c \in Cards : owned[c] = Given(c) + Total(CopiesOf(c)) + Cardinality(Taken(c))

LEMMA BooksIs == Books <=> BooksBalance
BY DEF Books, BooksBalance, Points, CopiesOf, Given, Taken

LEMMA BoughtIs ==
  ASSUME TypeOK
  PROVE  /\ IsFiniteSet(Bought) /\ Points \in [Bought -> Nat] /\ Total(Points) \in Nat
         /\ \A c \in Cards : CopiesOf(c) \in [Bought -> Nat] /\ Total(CopiesOf(c)) \in Nat
<1>1. IsFiniteSet(Bought)
  BY CostsIs, FS_Subset DEF Bought
<1>2. ASSUME NEW i \in Bought
      PROVE  /\ (IF opening[i].special THEN 0 ELSE Len(opening[i].draw)) \in Nat
             /\ \A c \in Cards : Copies(opening[i].draw, c) \in Nat
  <2>1. opening[i] \in Opening
    BY DEF Bought, Openings, TypeOK
  <2> QED
    BY <2>1, OpeningFields
<1>3. Points \in [Bought -> Nat]
  BY <1>2 DEF Points
<1>4. ASSUME NEW c \in Cards PROVE CopiesOf(c) \in [Bought -> Nat]
  BY <1>2 DEF CopiesOf
<1> QED
  BY <1>1, <1>3, <1>4, TotalIsNat

LEMMA ExchangedIs ==
  ASSUME TypeOK
  PROVE  /\ IsFiniteSet(Exchanged) /\ Cardinality(Exchanged) \in Nat
         /\ \A c \in Cards : IsFiniteSet(Taken(c)) /\ Cardinality(Taken(c)) \in Nat
<1>1. IsFiniteSet(Exchanged)
  BY IdsIs, FS_Subset DEF Exchanged
<1>2. ASSUME NEW c \in Cards PROVE IsFiniteSet(Taken(c))
  BY <1>1, FS_Subset DEF Taken
<1> QED
  BY <1>1, <1>2, FS_CardinalityType

\* An opening of a request adds its points and its cards.
LEMMA BoughtAdds ==
  ASSUME TypeOK, NEW i \in Txs \cup Uuids, NEW o, Records(i, o)
  PROVE  /\ TutorialTx \in Openings' <=> TutorialTx \in Openings
         /\ Total(Points)' = Total(Points) + (IF o.special THEN 0 ELSE Len(o.draw))
         /\ \A c \in Cards : Total(CopiesOf(c))' = Total(CopiesOf(c)) + Copies(o.draw, c)
<1>1. /\ Openings' = Openings \cup {i} /\ i \notin Openings /\ opening'[i] = o
      /\ \A j \in Openings : opening'[j] = opening[j]
  BY RecordsAdds
<1>2. i # TutorialTx
  BY IdsIs
<1>3. /\ Bought' = Bought \cup {i} /\ i \notin Bought
      /\ \A j \in Bought : opening'[j] = opening[j]
  BY <1>1, <1>2 DEF Bought
<1>4. /\ IsFiniteSet(Bought) /\ Points \in [Bought -> Nat]
      /\ \A c \in Cards : CopiesOf(c) \in [Bought -> Nat]
  BY BoughtIs
<1>5. Len(o.draw) \in Nat /\ \A c \in Cards : Copies(o.draw, c) \in Nat
  BY OpeningFields DEF Records
<1>6. Total(Points)' = Total(Points) + (IF o.special THEN 0 ELSE Len(o.draw))
  <2>1. /\ \A j \in Bought : Points'[j] = Points[j]
        /\ Points'[i] = (IF o.special THEN 0 ELSE Len(o.draw))
    BY <1>1, <1>3 DEF Points
  <2>2. Points' = [j \in Bought \cup {i} |-> Points'[j]]
    BY <1>3 DEF Points
  <2>3. \A j \in Bought \cup {i} : Points'[j] \in Nat
    BY <1>4, <1>5, <2>1
  <2>4. Adds(Bought, Points, i, Points')
    BY <1>3, <1>4, <2>1, <2>2, <2>3 DEF Adds
  <2>5. Total(Points') = Total(Points) + Points'[i]
    BY <2>4, TotalAdds
  <2> QED
    BY <2>1, <2>5 DEF Total
<1>7. ASSUME NEW c \in Cards
      PROVE  Total(CopiesOf(c))' = Total(CopiesOf(c)) + Copies(o.draw, c)
  <2>1. /\ \A j \in Bought : CopiesOf(c)'[j] = CopiesOf(c)[j]
        /\ CopiesOf(c)'[i] = Copies(o.draw, c)
    BY <1>1, <1>3 DEF CopiesOf
  <2>2. CopiesOf(c)' = [j \in Bought \cup {i} |-> CopiesOf(c)'[j]]
    BY <1>3 DEF CopiesOf
  <2>3. \A j \in Bought \cup {i} : CopiesOf(c)'[j] \in Nat
    BY <1>4, <1>5, <2>1
  <2>4. Adds(Bought, CopiesOf(c), i, CopiesOf(c)')
    BY <1>3, <1>4, <2>1, <2>2, <2>3 DEF Adds
  <2>5. Total(CopiesOf(c)') = Total(CopiesOf(c)) + CopiesOf(c)'[i]
    BY <2>4, TotalAdds
  <2> QED
    BY <2>1, <2>5 DEF Total
<1> QED
  BY <1>1, <1>2, <1>6, <1>7

LEMMA BooksOfCommit ==
  ASSUME TypeOK, ServedCalls, Books, NEW r \in Calls, Commit(r) PROVE Books'
<1>1. PICK i \in Txs \cup Uuids : \E o : Records(i, o) /\ Draws(o) /\ Pays(o) /\ Uses(o)
  BY CommitRecords
<1>2. PICK o : Records(i, o) /\ Draws(o)
  BY <1>1
<1>3. UNCHANGED <<exchange, granted>>
  BY DEF Commit
<1>4. /\ TutorialTx \in Openings' <=> TutorialTx \in Openings
      /\ Total(Points)' = Total(Points) + (IF o.special THEN 0 ELSE Len(o.draw))
      /\ \A c \in Cards : Total(CopiesOf(c))' = Total(CopiesOf(c)) + Copies(o.draw, c)
  BY <1>2, BoughtAdds
<1>5. /\ Exchanged' = Exchanged /\ FromTutorial' = FromTutorial
      /\ Cardinality(Exchanged)' = Cardinality(Exchanged)
      /\ \A c \in Cards : Given(c)' = Given(c) /\ Cardinality(Taken(c))' = Cardinality(Taken(c))
  BY <1>3 DEF Exchanged, FromTutorial, Given, Taken
<1>6. /\ Len(o.draw) \in Nat /\ \A c \in Cards : Copies(o.draw, c) \in Nat
  BY <1>2, OpeningFields DEF Records
<1>7. /\ points \in Nat /\ Total(Points) \in Nat /\ FromTutorial \in Nat
      /\ CardPrice * Cardinality(Exchanged) \in Nat
  BY BoughtIs, ExchangedIs, PacksAssumption DEF TypeOK, FromTutorial
<1>8. points' + CardPrice * Cardinality(Exchanged)' = FromTutorial' + Total(Points)'
  <2>1. points' = points + (IF o.special THEN 0 ELSE Len(o.draw))
    BY <1>2, <1>7 DEF Draws
  <2> DEFINE n == IF o.special THEN 0 ELSE Len(o.draw)
             e == CardPrice * Cardinality(Exchanged)
  <2>2. n \in Nat /\ e \in Nat /\ CardPrice * Cardinality(Exchanged)' = e
    BY <1>5, <1>6, <1>7
  <2>3. points' = points + n /\ Total(Points)' = Total(Points) + n
    BY <1>4, <2>1
  <2>4. points + e = FromTutorial + Total(Points)
    BY DEF Books
  <2> HIDE DEF n, e
  <2> QED
    BY <1>5, <1>7, <2>2, <2>3, <2>4
<1>9. ASSUME NEW c \in Cards
      PROVE  owned'[c] = Given(c)' + Total(CopiesOf(c))' + Cardinality(Taken(c))'
  <2>1. owned'[c] = owned[c] + Copies(o.draw, c)
    BY <1>2 DEF Draws
  <2>2. /\ Given(c) \in Nat /\ Total(CopiesOf(c)) \in Nat /\ Cardinality(Taken(c)) \in Nat
        /\ Copies(o.draw, c) \in Nat
    BY <1>6, BoughtIs, ExchangedIs DEF Given, FromTutorial
  <2>3. owned[c] = Given(c) + Total(CopiesOf(c)) + Cardinality(Taken(c))
    BY DEF Books
  <2> QED
    BY <1>4, <1>5, <2>1, <2>2, <2>3
<1>10. TutorialTx \in Openings' => granted'
  BY <1>3, <1>4 DEF Books
<1> QED
  BY <1>8, <1>9, <1>10 DEF Books

\* What does not touch openings, exchanges and the tutorial's pack leaves the
\* sums as they are.
LEMMA BooksOfGrant ==
  ASSUME TypeOK, Books, NEW r \in Calls, GrantTutorial(r) PROVE Books'
<1>1. granted' = TRUE /\ UNCHANGED <<opening, exchange>>
  BY DEF GrantTutorial
<1>2. /\ Total(Points)' = Total(Points) /\ Cardinality(Exchanged)' = Cardinality(Exchanged)
      /\ \A c \in Cards : /\ Total(CopiesOf(c))' = Total(CopiesOf(c))
                          /\ Cardinality(Taken(c))' = Cardinality(Taken(c))
  BY <1>1 DEF Total, Points, CopiesOf, Taken, Exchanged, Bought, Openings
<1>3. CASE granted /\ UNCHANGED <<owned, points>>
  <2>1. FromTutorial' = FromTutorial /\ \A c \in Cards : Given(c)' = Given(c)
    BY <1>1, <1>3 DEF FromTutorial, Given
  <2> QED
    BY <1>1, <1>2, <1>3, <2>1 DEF Books
<1>4. CASE ~granted /\ owned' = [owned EXCEPT ![TutorialCard] = @ + 1] /\ points' = points + 1
  <2>1. FromTutorial = 0 /\ FromTutorial' = 1
    BY <1>1, <1>4 DEF FromTutorial
  <2>2. points' + CardPrice * Cardinality(Exchanged)' = FromTutorial' + Total(Points)'
    <3>1. /\ points \in Nat /\ Total(Points) \in Nat
          /\ CardPrice * Cardinality(Exchanged) \in Nat
      BY BoughtIs, ExchangedIs, PacksAssumption DEF TypeOK
    <3> DEFINE e == CardPrice * Cardinality(Exchanged)
    <3>2. CardPrice * Cardinality(Exchanged)' = e
      BY <1>2
    <3>3. points + e = 0 + Total(Points) /\ points' = points + 1
      BY <1>4, <2>1 DEF Books
    <3> HIDE DEF e
    <3> QED
      BY <1>2, <2>1, <3>1, <3>2, <3>3
  <2>3. ASSUME NEW c \in Cards
        PROVE  owned'[c] = Given(c)' + Total(CopiesOf(c))' + Cardinality(Taken(c))'
    <3>1. /\ Total(CopiesOf(c)) \in Nat /\ Cardinality(Taken(c)) \in Nat
          /\ owned[c] = Given(c) + Total(CopiesOf(c)) + Cardinality(Taken(c))
      BY BoughtIs, ExchangedIs DEF Books
    <3>2. owned' = [owned EXCEPT ![TutorialCard] = owned[TutorialCard] + 1]
      BY <1>4 DEF TypeOK
    <3>3. CASE c = TutorialCard
      <4>1. owned'[c] = owned[c] + 1 /\ Given(c) = 0 /\ Given(c)' = 1
        BY <2>1, <3>2, <3>3 DEF Given, TypeOK
      <4> QED
        BY <1>2, <3>1, <4>1
    <3>4. CASE c # TutorialCard
      <4>1. owned'[c] = owned[c] /\ Given(c) = 0 /\ Given(c)' = 0
        BY <3>2, <3>4 DEF Given, TypeOK
      <4> QED
        BY <1>2, <3>1, <4>1
    <3> QED
      BY <3>3, <3>4
  <2> QED
    BY <1>1, <2>2, <2>3 DEF Books
<1> QED
  BY <1>3, <1>4 DEF GrantTutorial

LEMMA BooksOfRegister ==
  ASSUME TypeOK, ServedCalls, Books, NEW r \in Calls, RegisterPackOpening(r) PROVE Books'
<1>1. PICK o : Records(TutorialTx, o)
  BY RegisterRecords
<1>2. granted /\ UNCHANGED <<points, owned, exchange, granted>>
  BY RegisterRecords
<1>3. /\ Openings' = Openings \cup {TutorialTx}
      /\ \A j \in Openings : opening'[j] = opening[j]
  BY <1>1, RecordsAdds
<1>4. Bought' = Bought /\ \A j \in Bought : opening'[j] = opening[j]
  BY <1>3 DEF Bought
<1>5. Points' = Points /\ \A c \in Cards : CopiesOf(c)' = CopiesOf(c)
  BY <1>4 DEF Points, CopiesOf
<1>6. /\ Total(Points)' = Total(Points) /\ Cardinality(Exchanged)' = Cardinality(Exchanged)
      /\ FromTutorial' = FromTutorial
      /\ \A c \in Cards : /\ Total(CopiesOf(c))' = Total(CopiesOf(c)) /\ Given(c)' = Given(c)
                          /\ Cardinality(Taken(c))' = Cardinality(Taken(c))
  BY <1>2, <1>5 DEF Total, Taken, Exchanged, FromTutorial, Given
<1> QED
  BY <1>2, <1>6 DEF Books

LEMMA BooksOfExchange ==
  ASSUME TypeOK, Books, NEW i \in Txs, NEW c \in Cards, ExchangePackPoints(i, c) PROVE Books'
<1>1. /\ exchange[i] = None /\ points >= CardPrice /\ points' = points - CardPrice
      /\ owned' = [owned EXCEPT ![c] = @ + 1] /\ exchange' = [exchange EXCEPT ![i] = c]
      /\ UNCHANGED <<opening, granted>>
  BY DEF ExchangePackPoints
<1>2. /\ Total(Points)' = Total(Points) /\ FromTutorial' = FromTutorial
      /\ \A d \in Cards : Total(CopiesOf(d))' = Total(CopiesOf(d)) /\ Given(d)' = Given(d)
  BY <1>1 DEF Total, Points, CopiesOf, Bought, Openings, FromTutorial, Given
<1>3. c # None
  BY PacksAssumption
<1>4. /\ Exchanged' = Exchanged \cup {i} /\ i \notin Exchanged
      /\ exchange'[i] = c /\ \A j \in Exchanged : exchange'[j] = exchange[j]
  BY <1>1, <1>3 DEF Exchanged, TypeOK
<1>5. /\ IsFiniteSet(Exchanged) /\ Cardinality(Exchanged) \in Nat
      /\ \A d \in Cards : IsFiniteSet(Taken(d)) /\ Cardinality(Taken(d)) \in Nat
  BY ExchangedIs
<1>6. Cardinality(Exchanged') = Cardinality(Exchanged) + 1
  BY <1>4, <1>5, FS_AddElement
<1>7. points' + CardPrice * Cardinality(Exchanged)' = FromTutorial' + Total(Points)'
  <2>1. /\ points \in Nat /\ Total(Points) \in Nat /\ FromTutorial \in Nat /\ CardPrice \in Nat
    BY BoughtIs, PacksAssumption DEF TypeOK, FromTutorial
  <2>2. CardPrice * (Cardinality(Exchanged) + 1) = CardPrice * Cardinality(Exchanged) + CardPrice
    BY <1>5, <2>1
  <2> DEFINE e == CardPrice * Cardinality(Exchanged)
  <2>3. e \in Nat
    BY <1>5, <2>1
  <2>4. CardPrice * Cardinality(Exchanged)' = e + CardPrice
    BY <1>6, <2>2
  <2>5. points + e = FromTutorial + Total(Points)
    BY DEF Books
  <2> HIDE DEF e
  <2> QED
    BY <1>1, <1>2, <2>1, <2>3, <2>4, <2>5
<1>8. ASSUME NEW d \in Cards
      PROVE  owned'[d] = Given(d)' + Total(CopiesOf(d))' + Cardinality(Taken(d))'
  <2>1. /\ Given(d) \in Nat /\ Total(CopiesOf(d)) \in Nat
        /\ owned[d] = Given(d) + Total(CopiesOf(d)) + Cardinality(Taken(d))
    BY BoughtIs DEF Books, Given, FromTutorial
  <2>2. owned' = [owned EXCEPT ![c] = owned[c] + 1]
    BY <1>1 DEF TypeOK
  <2>3. CASE d = c
    <3>1. Taken(d)' = Taken(d) \cup {i} /\ i \notin Taken(d)
      BY <1>4, <2>3 DEF Taken
    <3>2. Cardinality(Taken(d)') = Cardinality(Taken(d)) + 1
      BY <1>5, <3>1, FS_AddElement
    <3>3. owned'[d] = owned[d] + 1
      BY <2>2, <2>3 DEF TypeOK
    <3> QED
      BY <1>2, <1>5, <2>1, <3>2, <3>3
  <2>4. CASE d # c
    <3>1. Taken(d)' = Taken(d)
      BY <1>4, <2>4 DEF Taken
    <3>2. owned'[d] = owned[d]
      BY <2>2, <2>4 DEF TypeOK
    <3>3. Cardinality(Taken(d))' = Cardinality(Taken(d))
      BY <3>1
    <3> QED
      BY <1>2, <2>1, <3>2, <3>3
  <2> QED
    BY <2>3, <2>4
<1>9. TutorialTx \in Openings' => granted'
  BY <1>1 DEF Books, Openings
<1> QED
  BY <1>7, <1>8, <1>9 DEF Books

LEMMA BooksKept ==
  ASSUME TypeOK, ServedCalls, Books, [Next]_vars PROVE Books'
<1>1. CASE Waits
  <2>1. UNCHANGED <<opening, exchange, granted, points, owned>>
    BY <1>1 DEF Waits, profile
  <2>2. /\ Openings' = Openings /\ Total(Points)' = Total(Points)
        /\ FromTutorial' = FromTutorial /\ Cardinality(Exchanged)' = Cardinality(Exchanged)
    BY <2>1 DEF Total, Points, FromTutorial, Exchanged, Bought, Openings
  <2>3. \A c \in Cards : /\ Total(CopiesOf(c))' = Total(CopiesOf(c)) /\ Given(c)' = Given(c)
                         /\ Cardinality(Taken(c))' = Cardinality(Taken(c))
    BY <2>1 DEF Total, CopiesOf, Given, Taken, FromTutorial, Exchanged, Bought, Openings
  <2> QED
    BY <2>1, <2>2, <2>3 DEF Books
<1>2. CASE Profits
  BY <1>2, BooksOfCommit, BooksOfGrant, BooksOfRegister, BooksOfExchange DEF Profits
<1> QED
  BY <1>1, <1>2, StepKinds

LEMMA BooksFirst == ASSUME Init PROVE Books
<1>1. Openings = {} /\ Exchanged = {} /\ ~granted
  BY DEF Init, Openings, Exchanged
<1>2. Bought = {}
  BY <1>1 DEF Bought
<1>3. Total(Points) = 0
  BY <1>2, TotalOfNone DEF Points
<1>4. ASSUME NEW c \in Cards PROVE Total(CopiesOf(c)) = 0 /\ Given(c) = 0 /\ Taken(c) = {}
  <2>1. Total(CopiesOf(c)) = 0
    BY <1>2, TotalOfNone DEF CopiesOf
  <2> QED
    BY <1>1, <2>1 DEF Given, Taken, FromTutorial
<1>5. Cardinality(Exchanged) = 0 /\ \A c \in Cards : Cardinality(Taken(c)) = 0
  BY <1>1, <1>4, FS_EmptySet
<1>6. points = 0 /\ FromTutorial = 0 /\ CardPrice * 0 = 0
  BY <1>1, PacksAssumption DEF Init, FromTutorial
<1>7. \A c \in Cards : owned[c] = 0
  BY DEF Init
<1> QED
  BY <1>1, <1>3, <1>4, <1>5, <1>6, <1>7 DEF Books

-----------------------------------------------------------------------------
(* Special packs are paid with tickets and rights.                         *)

Specials == {i \in Openings : opening[i].special}
SpecialPacks == [i \in Specials |-> Len(opening[i].draw)]

LEMMA SpecialsIs ==
  ASSUME TypeOK
  PROVE  /\ IsFiniteSet(Specials) /\ SpecialPacks \in [Specials -> Nat]
         /\ Total(SpecialPacks) \in Nat
<1>1. IsFiniteSet(Specials)
  BY CostsIs, FS_Subset DEF Specials
<1>2. ASSUME NEW i \in Specials PROVE Len(opening[i].draw) \in Nat
  <2>1. opening[i] \in Opening
    BY DEF Specials, Openings, TypeOK
  <2> QED
    BY <2>1, OpeningFields
<1>3. SpecialPacks \in [Specials -> Nat]
  BY <1>2 DEF SpecialPacks
<1> QED
  BY <1>1, <1>3, TotalIsNat

LEMMA SpecialsAdd ==
  ASSUME TypeOK, NEW i, NEW o, Records(i, o)
  PROVE  Total(SpecialPacks)' = Total(SpecialPacks) + (IF o.special THEN Len(o.draw) ELSE 0)
<1>1. /\ Openings' = Openings \cup {i} /\ i \notin Openings /\ opening'[i] = o
      /\ \A j \in Openings : opening'[j] = opening[j]
  BY RecordsAdds
<1>2. /\ IsFiniteSet(Specials) /\ SpecialPacks \in [Specials -> Nat]
      /\ Total(SpecialPacks) \in Nat
  BY SpecialsIs
<1>3. Len(o.draw) \in Nat
  BY OpeningFields DEF Records
<1>4. CASE o.special
  <2>1. /\ Specials' = Specials \cup {i} /\ i \notin Specials
        /\ \A j \in Specials : opening'[j] = opening[j]
    BY <1>1, <1>4 DEF Specials
  <2>2. /\ \A j \in Specials : SpecialPacks'[j] = SpecialPacks[j]
        /\ SpecialPacks'[i] = Len(o.draw)
    BY <1>1, <2>1 DEF SpecialPacks
  <2>3. SpecialPacks' = [j \in Specials \cup {i} |-> SpecialPacks'[j]]
    BY <2>1 DEF SpecialPacks
  <2>4. \A j \in Specials \cup {i} : SpecialPacks'[j] \in Nat
    BY <1>2, <1>3, <2>2
  <2>5. Adds(Specials, SpecialPacks, i, SpecialPacks')
    BY <1>2, <2>1, <2>2, <2>3, <2>4 DEF Adds
  <2>6. Total(SpecialPacks') = Total(SpecialPacks) + SpecialPacks'[i]
    BY <2>5, TotalAdds
  <2> QED
    BY <1>4, <2>2, <2>6 DEF Total
<1>5. CASE ~o.special
  <2>1. Specials' = Specials /\ \A j \in Specials : opening'[j] = opening[j]
    BY <1>1, <1>5 DEF Specials
  <2>2. SpecialPacks' = SpecialPacks
    BY <2>1 DEF SpecialPacks
  <2>3. Total(SpecialPacks)' = Total(SpecialPacks)
    BY <2>2 DEF Total
  <2> QED
    BY <1>2, <1>5, <2>3
<1> QED
  BY <1>4, <1>5

LEMMA SpecialPaidIs ==
  SpecialPacksPaid <=> /\ Total(SpecialPacks) = StartTickets - tickets + Cardinality(rights)
                       /\ rights \subseteq 0..(now \div Week)
BY DEF SpecialPacksPaid, SpecialPacks, Specials

LEMMA RightsAre ==
  ASSUME TypeOK, SpecialPacksPaid
  PROVE  IsFiniteSet(rights) /\ Cardinality(rights) \in Nat
<1>1. now \div Week \in Nat
  BY WeekIs
<1>2. IsFiniteSet(0..(now \div Week))
  BY <1>1, FS_Interval
<1> QED
  BY <1>2, SpecialPaidIs, FS_Subset, FS_CardinalityType

LEMMA SpecialPaidOfCommit ==
  ASSUME TypeOK, ServedCalls, SpecialPacksPaid, NEW r \in Calls, Commit(r)
  PROVE  SpecialPacksPaid'
<1>1. PICK i \in Txs \cup Uuids : \E o : Records(i, o) /\ Draws(o) /\ Pays(o) /\ Uses(o)
  BY CommitRecords
<1>2. PICK o : Records(i, o) /\ Uses(o)
  BY <1>1
<1>3. /\ Total(SpecialPacks)' = Total(SpecialPacks) + (IF o.special THEN Len(o.draw) ELSE 0)
      /\ Total(SpecialPacks) \in Nat
  BY <1>2, SpecialsAdd, SpecialsIs
<1>4. /\ Total(SpecialPacks) = StartTickets - tickets + Cardinality(rights)
      /\ rights \subseteq 0..(now \div Week)
  BY SpecialPaidIs
<1>5. IsFiniteSet(rights) /\ Cardinality(rights) \in Nat
  BY RightsAre
<1>6. StartTickets \in Nat /\ tickets \in Nat /\ now' = now
  BY PacksAssumption DEF TypeOK, Commit
<1>7. Len(o.draw) \in Nat
  BY <1>2, OpeningFields DEF Records
<1> SUFFICES /\ Total(SpecialPacks)' = StartTickets - tickets' + Cardinality(rights')
             /\ rights' \subseteq 0..(now' \div Week)
  BY DEF SpecialPacksPaid, SpecialPacks, Specials
<1>8. CASE ~o.special /\ UNCHANGED <<tickets, rights>>
  BY <1>3, <1>4, <1>6, <1>8
<1>9. ASSUME o.special, NEW gone \in 0..tickets, tickets' = tickets - gone,
             Len(o.draw) = gone, UNCHANGED rights
      PROVE  /\ Total(SpecialPacks)' = StartTickets - tickets' + Cardinality(rights')
             /\ rights' \subseteq 0..(now' \div Week)
  BY <1>3, <1>4, <1>5, <1>6, <1>9
<1>10. ASSUME o.special, NEW gone \in 0..tickets, tickets' = tickets - gone,
              Len(o.draw) = gone + 1,
              NEW week \in 0..(now \div Week) \ rights, rights' = rights \cup {week}
       PROVE  /\ Total(SpecialPacks)' = StartTickets - tickets' + Cardinality(rights')
              /\ rights' \subseteq 0..(now' \div Week)
  <2>1. Cardinality(rights \cup {week}) = Cardinality(rights) + 1
    BY <1>5, FS_AddElement
  <2>2. Cardinality(rights') = Cardinality(rights) + 1
    BY <1>10, <2>1
  <2>3. rights' \subseteq 0..(now' \div Week)
    BY <1>4, <1>6, <1>10
  <2> QED
    BY <1>3, <1>4, <1>5, <1>6, <1>10, <2>2, <2>3
<1> QED
  BY <1>2, <1>8, <1>9, <1>10 DEF Uses

LEMMA SpecialPaidKept ==
  ASSUME TypeOK, ServedCalls, SpecialPacksPaid, [Next]_vars PROVE SpecialPacksPaid'
<1>1. ASSUME UNCHANGED <<opening, tickets, rights>> PROVE SpecialPacksPaid'
  <2>1. rights \subseteq 0..(now \div Week)
    BY SpecialPaidIs
  <2>2. rights' \subseteq 0..(now' \div Week)
    <3>1. now \div Week \in Nat /\ now' \div Week \in Nat /\ now \div Week <= now' \div Week
      BY StepKinds, LaterNow
    <3> DEFINE a == now \div Week
               b == now' \div Week
    <3>2. a \in Nat /\ b \in Nat /\ a <= b /\ rights \subseteq 0..a
      BY <2>1, <3>1
    <3> HIDE DEF a, b
    <3>3. rights \subseteq 0..b
      BY <3>2
    <3> QED
      BY <1>1, <3>3 DEF b
  <2>3. Total(SpecialPacks)' = Total(SpecialPacks) /\ Cardinality(rights') = Cardinality(rights)
    BY <1>1 DEF Total, SpecialPacks, Specials, Openings
  <2>4. Total(SpecialPacks)' = StartTickets - tickets' + Cardinality(rights')
    BY <1>1, <2>3, SpecialPaidIs
  <2> QED
    BY <2>2, <2>4 DEF SpecialPacksPaid, SpecialPacks, Specials
<1>2. ASSUME NEW r \in Calls, RegisterPackOpening(r) PROVE SpecialPacksPaid'
  <2>1. PICK o : Records(TutorialTx, o) /\ ~o.special
    BY <1>2, RegisterRecords
  <2>2. Total(SpecialPacks)' = Total(SpecialPacks)
    BY <2>1, SpecialsAdd, SpecialsIs
  <2>3. UNCHANGED <<tickets, rights, now>>
    BY <1>2 DEF RegisterPackOpening
  <2>4. /\ Total(SpecialPacks)' = StartTickets - tickets' + Cardinality(rights')
        /\ rights' \subseteq 0..(now' \div Week)
    BY <2>2, <2>3, SpecialPaidIs
  <2> QED
    BY <2>4 DEF SpecialPacksPaid, SpecialPacks, Specials
<1>3. CASE Profits
  BY <1>1, <1>2, <1>3, SpecialPaidOfCommit DEF Profits, GrantTutorial, ExchangePackPoints
<1>4. CASE Waits
  BY <1>1, <1>4 DEF Waits, profile
<1> QED
  BY <1>3, <1>4, StepKinds

LEMMA SpecialPaidFirst == ASSUME Init PROVE SpecialPacksPaid
<1>1. Openings = {} /\ rights = {} /\ tickets = StartTickets
  BY DEF Init, Openings
<1>2. Total(SpecialPacks) = 0
  <2>1. Specials = {}
    BY <1>1 DEF Specials
  <2> QED
    BY <2>1, TotalOfNone DEF SpecialPacks
<1>3. Cardinality(rights) = 0 /\ StartTickets \in Nat
  BY <1>1, FS_EmptySet, PacksAssumption
<1>4. Total(SpecialPacks) = StartTickets - tickets + Cardinality(rights)
  BY <1>1, <1>2, <1>3
<1>5. rights \subseteq 0..(now \div Week)
  BY <1>1
<1> QED
  BY <1>4, <1>5, SpecialPaidIs

-----------------------------------------------------------------------------
(* What the specification keeps.                                           *)

IInv == TypeOK /\ ServedCalls /\ Paid /\ Books /\ SpecialPacksPaid

(* A request that waits may only do what its kind may, the books balance,  *)
(* and what packs cost was there before it healed.                         *)
THEOREM Invariant == Spec => []IInv
<1>1. Init => IInv
  BY TypesFirst, PaidFirst, BooksFirst, SpecialPaidFirst DEF IInv
<1>2. IInv /\ [Next]_vars => IInv'
  <2> SUFFICES ASSUME IInv, [Next]_vars PROVE IInv'
    OBVIOUS
  <2>1. TypeOK' /\ ServedCalls'
    BY TypesKept DEF IInv
  <2>2. Paid' /\ Books' /\ SpecialPacksPaid'
    BY <2>1, PaidKept, BooksKept, SpecialPaidKept DEF IInv
  <2> QED
    BY <2>1, <2>2 DEF IInv
<1> QED
  BY <1>1, <1>2, PTL DEF Spec

(* The tables of packs and the requests that wait always hold values of    *)
(* their columns and fields.                                               *)
THEOREM TypeCorrect == Spec => []TypeOK
<1>1. IInv => TypeOK
  BY DEF IInv
<1> QED
  BY <1>1, Invariant, PTL

(* However commits, their repetitions and changes of the rule interleave,  *)
(* no pack is opened for power or Poke Gold that the profile did not have. *)
THEOREM PacksArePaid == Spec => []PacksPaid
<1>1. IInv => PacksPaid
  BY PaidMeans DEF IInv
<1> QED
  BY <1>1, Invariant, PTL

(* CommitPackOpening, CommitTutorialGrant, RegisterPackOpening and the     *)
(* exchange of points give the cards and points that the tables show, each *)
(* once, in any order and however often the game repeats them.             *)
THEOREM BooksAreBalanced == Spec => []BooksBalance
<1>1. IInv => BooksBalance
  BY BooksIs DEF IInv
<1> QED
  BY <1>1, Invariant, PTL

(* Each special pack took a ticket or the right of a week that had begun,  *)
(* however many requests named the same right.                             *)
THEOREM SpecialPacksArePaid == Spec => []SpecialPacksPaid
<1>1. IInv => SpecialPacksPaid
  BY DEF IInv
<1> QED
  BY <1>1, Invariant, PTL

-----------------------------------------------------------------------------
(* The inventory.                                                          *)

\* What of a can be added up.
Counts(a, T) == IsFiniteSet(T) /\ \A i \in T : a[i] \in Nat

LEMMA SumType == ASSUME NEW a, NEW T, Counts(a, T) PROVE Sum(a, T) \in Nat
<1> DEFINE f == [i \in T |-> a[i]]
<1>1. IsFiniteSet(T) /\ f \in [T -> Nat]
  BY DEF Counts
<1>2. Sum(a, T) = Total(f)
  BY DEF Sum
<1> HIDE DEF f
<1> QED BY <1>1, <1>2, TotalIsNat

LEMMA SumOfNone == ASSUME NEW a PROVE Sum(a, {}) = 0
<1> DEFINE f == [i \in {} |-> a[i]]
<1>1. DOMAIN f = {}
  OBVIOUS
<1>2. Sum(a, {}) = Total(f)
  BY DEF Sum
<1> HIDE DEF f
<1> QED BY <1>1, <1>2, TotalOfZeros

LEMMA SumSplits ==
  ASSUME NEW a, NEW T, NEW U, Counts(a, T), Counts(a, U), T \cap U = {}
  PROVE  Sum(a, T \cup U) = Sum(a, T) + Sum(a, U)
<1> DEFINE f == [i \in T |-> a[i]]
           g == [i \in U |-> a[i]]
           h == [i \in T \cup U |-> a[i]]
<1>1. Splits(T, f, U, g, h)
  BY DEF Counts, Splits
<1>2. Sum(a, T) = Total(f) /\ Sum(a, U) = Total(g) /\ Sum(a, T \cup U) = Total(h)
  BY DEF Sum
<1> HIDE DEF f, g, h
<1> QED BY <1>1, <1>2, TotalSplits

LEMMA SumOfOne == ASSUME NEW a, NEW x, a[x] \in Nat PROVE Sum(a, {x}) = a[x]
<1> DEFINE f == [i \in {x} |-> a[i]]
<1>1. f \in [{x} -> Nat] /\ f[x] = a[x]
  OBVIOUS
<1>2. Sum(a, {x}) = Total(f)
  BY DEF Sum
<1> HIDE DEF f
<1> QED BY <1>1, <1>2, TotalOfOne

LEMMA SumAdds ==
  ASSUME NEW a, NEW T, NEW x, Counts(a, T), x \notin T, a[x] \in Nat
  PROVE  Sum(a, T \cup {x}) = Sum(a, T) + a[x]
<1>1. Counts(a, {x})
  BY FS_Singleton DEF Counts
<1>2. T \cap {x} = {}
  OBVIOUS
<1>3. Sum(a, {x}) = a[x]
  BY SumOfOne
<1>4. Sum(a, T \cup {x}) = Sum(a, T) + Sum(a, {x})
  BY <1>1, <1>2, SumSplits
<1> QED BY <1>3, <1>4

\* More of what is added up makes no less.
LEMMA SumOfPart ==
  ASSUME NEW a, NEW T, NEW U, U \subseteq T, Counts(a, T)
  PROVE  Sum(a, U) <= Sum(a, T) /\ Sum(a, U) \in Nat /\ Sum(a, T) \in Nat
<1> DEFINE V == T \ U
<1>1. IsFiniteSet(U) /\ IsFiniteSet(V)
  BY FS_Subset DEF Counts
<1>2. Counts(a, U) /\ Counts(a, V)
  BY <1>1 DEF Counts
<1>3. U \cap V = {} /\ U \cup V = T
  OBVIOUS
<1> HIDE DEF V
<1>4. Sum(a, T) = Sum(a, U) + Sum(a, V)
  BY <1>2, <1>3, SumSplits
<1>5. Sum(a, U) \in Nat /\ Sum(a, V) \in Nat
  BY <1>2, SumType
<1> QED BY <1>4, <1>5

LEMMA SumGrows ==
  ASSUME NEW a, NEW b, NEW T, Counts(a, T), Counts(b, T), \A i \in T : a[i] <= b[i]
  PROVE  Sum(a, T) <= Sum(b, T)
<1> DEFINE f == [i \in T |-> a[i]]
           g == [i \in T |-> b[i]]
           F == UNION Units(f)
           G == UNION Units(g)
<1>1. IsFiniteSet(T) /\ f \in [T -> Nat] /\ g \in [T -> Nat]
  BY DEF Counts
<1>2. F \subseteq G
  <2>1. ASSUME NEW e \in F PROVE e \in G
    <3>1. PICK i \in T : e \in {i} \X (1..f[i])
      BY <2>1 DEF Units
    <3>2. f[i] \in Nat /\ g[i] \in Nat /\ f[i] <= g[i]
      BY DEF Counts
    <3>3. e \in {i} \X (1..g[i])
      BY <3>1, <3>2
    <3> QED BY <3>3 DEF Units
  <2> QED BY <2>1
<1>3. Sum(a, T) = Total(f) /\ Sum(b, T) = Total(g)
  BY DEF Sum
<1>4. IsFiniteSet(G)
  <2> HIDE DEF f, g
  <2> QED BY <1>1, UnitsFinite
<1>5. Total(f) = Cardinality(F) /\ Total(g) = Cardinality(G)
  BY DEF Total, Units
<1> HIDE DEF F, G, f, g
<1> QED BY <1>2, <1>3, <1>4, <1>5, FS_Subset

-----------------------------------------------------------------------------
(* Languages.                                                              *)

Amounts == [Languages -> Nat]

LEMMA LanguagesFinite ==
  IsFiniteSet(Languages) /\ Languages \subseteq 1..12 /\ DefaultLanguage \in Languages
<1>1. Languages \subseteq 1..12 /\ DefaultLanguage \in Languages
  BY InventoryAssumption
<1>2. 1 \in Int /\ 12 \in Int
  OBVIOUS
<1>3. IsFiniteSet(1..12)
  BY <1>2, FS_Interval
<1> QED BY <1>1, <1>3, FS_Subset

LEMMA AmountsCount ==
  ASSUME NEW a \in Amounts, NEW T, T \subseteq Languages
  PROVE  Counts(a, T) /\ Sum(a, T) \in Nat
<1>1. IsFiniteSet(T)
  BY LanguagesFinite, FS_Subset
<1>2. Counts(a, T)
  BY <1>1 DEF Counts, Amounts
<1> QED BY <1>2, SumType

\* The copies that the total does not have.
Excess(a, n) == Sum(a, Languages) - n

\* What is shown, language by language.
LEMMA NormalizedValues ==
  ASSUME NEW a \in Amounts, NEW n \in Nat
  PROVE  /\ Excess(a, n) \in Int /\ Normalized(a, n) \in Amounts
         /\ Excess(a, n) <= 0 =>
              \A l \in Languages : Normalized(a, n)[l] =
                IF l = DefaultLanguage THEN a[l] - Excess(a, n) ELSE a[l]
         /\ Excess(a, n) > 0 =>
              \A l \in Languages :
                /\ Sum(a, Before(l)) \in Nat
                /\ Normalized(a, n)[l] =
                     IF a[l] + Sum(a, Before(l)) <= Excess(a, n) THEN 0
                     ELSE IF Sum(a, Before(l)) >= Excess(a, n) THEN a[l]
                     ELSE a[l] + Sum(a, Before(l)) - Excess(a, n)
<1> DEFINE x == Excess(a, n)
           d == DefaultLanguage
           s(l) == Sum(a, Before(l))
           N == Normalized(a, n)
<1>1. Sum(a, Languages) \in Nat
  BY AmountsCount
<1>2. x \in Int
  BY <1>1 DEF Excess
<1>3. d \in Languages /\ Languages \subseteq 1..12
  BY LanguagesFinite
<1>4. ASSUME NEW l \in Languages PROVE s(l) \in Nat
  <2>1. Before(l) \subseteq Languages
    BY <1>3 DEF Before
  <2> QED BY <2>1, AmountsCount
<1>5. N = IF x <= 0 THEN [a EXCEPT ![d] = a[d] - x]
          ELSE [l \in Languages |-> a[l] - Lesser(a[l], NotBelow0(x - s(l)))]
  BY <1>3 DEF Normalized, Excess, Amounts
<1> HIDE DEF x, d, s, N
<1>6. CASE x <= 0
  <2>1. N = [a EXCEPT ![d] = a[d] - x]
    BY <1>5, <1>6
  <2>2. a[d] \in Nat /\ a[d] - x \in Nat
    <3>1. a[d] \in Nat
      BY <1>3 DEF Amounts
    <3> QED BY <1>2, <1>6, <3>1
  <2>3. N \in Amounts /\ \A l \in Languages : N[l] = IF l = d THEN a[l] - x ELSE a[l]
    BY <1>3, <2>1, <2>2 DEF Amounts
  <2>4. ~(x > 0)
    BY <1>2, <1>6
  <2> QED BY <1>2, <2>3, <2>4 DEF x, d, N
<1>7. CASE ~(x <= 0)
  <2>1. N = [l \in Languages |-> a[l] - Lesser(a[l], NotBelow0(x - s(l)))]
    BY <1>5, <1>7
  <2>2. ASSUME NEW l \in Languages
        PROVE  /\ N[l] \in Nat
               /\ N[l] = IF a[l] + s(l) <= x THEN 0 ELSE IF s(l) >= x THEN a[l] ELSE a[l] + s(l) - x
    <3>1. N[l] = a[l] - Lesser(a[l], NotBelow0(x - s(l)))
      BY <2>1
    <3>2. a[l] \in Nat /\ s(l) \in Nat
      BY <1>4 DEF Amounts
    <3> QED BY <1>2, <1>7, <3>1, <3>2 DEF Lesser, NotBelow0
  <2>3. DOMAIN N = Languages
    BY <2>1
  <2>4. N \in Amounts
    <3>1. N = [l \in Languages |-> N[l]]
      BY <2>1
    <3> QED BY <2>2, <3>1 DEF Amounts
  <2> QED BY <1>2, <1>4, <1>7, <2>2, <2>4 DEF x, s, N
<1> QED BY <1>6, <1>7

\* An amount that already adds up is shown as it is.
LEMMA NormalizedExact ==
  ASSUME NEW a \in Amounts
  PROVE  Normalized(a, Sum(a, Languages)) = a
<1> DEFINE n == Sum(a, Languages)
           N == Normalized(a, n)
<1>1. n \in Nat
  BY AmountsCount
<1>2. Excess(a, n) = 0
  BY <1>1 DEF Excess
<1> HIDE DEF n
<1>3. N \in Amounts /\ \A l \in Languages :
        N[l] = IF l = DefaultLanguage THEN a[l] - 0 ELSE a[l]
  <2>1. N \in Amounts /\ (Excess(a, n) <= 0 => \A l \in Languages :
          N[l] = IF l = DefaultLanguage THEN a[l] - Excess(a, n) ELSE a[l])
    BY <1>1, NormalizedValues
  <2> HIDE DEF N
  <2> QED BY <1>2, <2>1
<1>4. \A l \in Languages : a[l] \in Nat
  BY DEF Amounts
<1> HIDE DEF N
<1>5. \A l \in Languages : N[l] = a[l]
  BY <1>3, <1>4
<1>6. N = [l \in Languages |-> N[l]] /\ a = [l \in Languages |-> a[l]]
  BY <1>3 DEF Amounts
<1>7. N = a
  BY <1>5, <1>6
<1> QED BY <1>7 DEF N, n

\* With more copies in all, none shows fewer.
LEMMA NormalizedGrows ==
  ASSUME NEW a \in Amounts, NEW n \in Nat, NEW m \in Nat, n <= m
  PROVE  \A l \in Languages : Normalized(a, n)[l] <= Normalized(a, m)[l]
<1> SUFFICES ASSUME NEW l \in Languages PROVE Normalized(a, n)[l] <= Normalized(a, m)[l]
  OBVIOUS
<1> DEFINE x == Excess(a, n)
           y == Excess(a, m)
           v == a[l]
           s == Sum(a, Before(l))
           isD == l = DefaultLanguage
           N == Normalized(a, n)[l]
           M == Normalized(a, m)[l]
<1>1. /\ x \in Int
      /\ x <= 0 => N = IF isD THEN v - x ELSE v
      /\ x > 0 => s \in Nat /\ N = IF v + s <= x THEN 0 ELSE IF s >= x THEN v ELSE v + s - x
  BY NormalizedValues
<1>2. /\ y \in Int
      /\ y <= 0 => M = IF isD THEN v - y ELSE v
      /\ y > 0 => s \in Nat /\ M = IF v + s <= y THEN 0 ELSE IF s >= y THEN v ELSE v + s - y
  BY NormalizedValues
<1>3. Sum(a, Languages) \in Nat
  BY AmountsCount
<1>4. y <= x
  BY <1>3 DEF Excess
<1>5. v \in Nat
  BY DEF Amounts
<1> HIDE DEF x, y, v, s, isD, N, M
<1>6. N <= M
  BY <1>1, <1>2, <1>4, <1>5
<1> QED BY <1>6 DEF N, M

\* b has j more copies in the language k than a has.
WithCopies(a, k, j, b) == b = [a EXCEPT ![k] = a[k] + j]

\* Copies that are in both tables show in no language fewer.
LEMMA NormalizedWithCopies ==
  ASSUME NEW a \in Amounts, NEW n \in Nat, NEW k \in Languages,
         NEW j \in Nat, NEW b \in Amounts, WithCopies(a, k, j, b)
  PROVE  \A l \in Languages : Normalized(a, n)[l] <= Normalized(b, n + j)[l]
<1> SUFFICES ASSUME NEW l \in Languages PROVE Normalized(a, n)[l] <= Normalized(b, n + j)[l]
  OBVIOUS
<1> DEFINE m == n + j
           x == Excess(a, n)
           y == Excess(b, m)
           v == a[l]
           w == b[l]
           s == Sum(a, Before(l))
           r == Sum(b, Before(l))
           isD == l = DefaultLanguage
           N == Normalized(a, n)[l]
           M == Normalized(b, m)[l]
<1>1. /\ x \in Int
      /\ x <= 0 => N = IF isD THEN v - x ELSE v
      /\ x > 0 => s \in Nat /\ N = IF v + s <= x THEN 0 ELSE IF s >= x THEN v ELSE v + s - x
  BY NormalizedValues
<1>2. /\ y \in Int
      /\ y <= 0 => M = IF isD THEN w - y ELSE w
      /\ y > 0 => r \in Nat /\ M = IF w + r <= y THEN 0 ELSE IF r >= y THEN w ELSE w + r - y
  <2>1. m \in Nat
    OBVIOUS
  <2> HIDE DEF m
  <2> QED BY <2>1, NormalizedValues
<1>3. \A i \in Languages : a[i] \in Nat /\ b[i] \in Nat /\ a[i] <= b[i]
                           /\ (i # k => b[i] = a[i]) /\ b[k] = a[k] + j
  BY DEF Amounts, WithCopies
<1>4. y = x
  <2> DEFINE rest == Languages \ {k}
  <2>1. Counts(a, rest) /\ Counts(b, rest)
    BY AmountsCount
  <2>2. Languages = rest \cup {k} /\ k \notin rest
    OBVIOUS
  <2>3. Sum(a, Languages) = Sum(a, rest) + a[k] /\ Sum(b, Languages) = Sum(b, rest) + b[k]
    <3> HIDE DEF rest
    <3>1. Sum(a, rest \cup {k}) = Sum(a, rest) + a[k]
      BY <1>3, <2>1, <2>2, SumAdds
    <3>2. Sum(b, rest \cup {k}) = Sum(b, rest) + b[k]
      BY <1>3, <2>1, <2>2, SumAdds
    <3> QED BY <2>2, <3>1, <3>2
  <2>4. Sum(a, rest) = Sum(b, rest)
    <3>1. [i \in rest |-> a[i]] = [i \in rest |-> b[i]]
      BY <1>3
    <3> QED BY <3>1 DEF Sum
  <2>5. Sum(a, rest) \in Nat
    BY <2>1, SumType
  <2> HIDE DEF rest
  <2>6. a[k] \in Nat /\ b[k] = a[k] + j
    BY <1>3
  <2> QED BY <2>3, <2>4, <2>5, <2>6 DEF Excess
<1>5. s <= r
  <2>1. Before(l) \subseteq Languages
    BY LanguagesFinite DEF Before
  <2>2. Counts(a, Before(l)) /\ Counts(b, Before(l))
    BY <2>1, AmountsCount
  <2>3. \A i \in Before(l) : a[i] <= b[i]
    BY <1>3, <2>1
  <2> QED BY <2>2, <2>3, SumGrows
<1>6. v \in Nat /\ w \in Nat /\ v <= w
  BY <1>3
<1> HIDE DEF m, x, y, v, w, s, r, isD, N, M
<1>7. N <= M
  BY <1>1, <1>2, <1>4, <1>5, <1>6
<1> QED BY <1>7 DEF N, M, m

\* The languages that lose copies first, as far as k.
Upto(k) == {DefaultLanguage} \cup {l \in Languages : l <= k}

\* Between them they keep what is left when the excess is taken from them.
LEMMA NormalizedUpto ==
  ASSUME NEW a \in Amounts, NEW n \in Nat, Excess(a, n) > 0
  PROVE  \A k \in Nat : Sum(Normalized(a, n), Upto(k)) =
           NotBelow0(Sum(a, Upto(k)) - Excess(a, n))
<1> DEFINE x == Excess(a, n)
           d == DefaultLanguage
           N == Normalized(a, n)
           P(k) == Sum(N, Upto(k)) = NotBelow0(Sum(a, Upto(k)) - x)
           bad == {k \in Nat : ~P(k)}
<1>1. /\ x \in Int /\ x > 0 /\ N \in Amounts
      /\ \A l \in Languages :
           /\ Sum(a, Before(l)) \in Nat
           /\ N[l] = IF a[l] + Sum(a, Before(l)) <= x THEN 0
                     ELSE IF Sum(a, Before(l)) >= x THEN a[l]
                     ELSE a[l] + Sum(a, Before(l)) - x
  BY NormalizedValues
<1>2. d \in Languages /\ \A l \in Languages : l \in Nat /\ 1 <= l
  <2>1. d \in Languages /\ Languages \subseteq 1..12
    BY LanguagesFinite
  <2> QED BY <2>1
<1> HIDE DEF x, N
<1>3. \A l \in Languages : a[l] \in Nat /\ N[l] \in Nat
  BY <1>1 DEF Amounts
<1>4. P(0)
  <2>1. Upto(0) = {d}
    <3>1. \A l \in Languages : ~(l <= 0)
      BY <1>2
    <3> QED BY <3>1 DEF Upto
  <2>2. Sum(a, {d}) = a[d] /\ Sum(N, {d}) = N[d]
    BY <1>2, <1>3, SumOfOne
  <2>3. Sum(a, Before(d)) = 0
    BY SumOfNone DEF Before
  <2>4. a[d] \in Nat /\ N[d] = IF a[d] + 0 <= x THEN 0 ELSE IF 0 >= x THEN a[d] ELSE a[d] + 0 - x
    BY <1>1, <1>2, <1>3, <2>3
  <2>5. N[d] = NotBelow0(a[d] - x)
    BY <1>1, <2>4 DEF NotBelow0
  <2> QED BY <2>1, <2>2, <2>5
<1>5. ASSUME NEW k \in Nat, P(k) PROVE P(k + 1)
  <2> DEFINE l == k + 1
  <2>1. CASE l \notin Languages \/ l = d
    <3>1. Upto(l) = Upto(k)
      <4>1. \A i \in Languages : i # d => (i <= l <=> i <= k)
        BY <1>2, <2>1
      <4> QED BY <4>1 DEF Upto
    <3> QED BY <1>5, <3>1
  <2>2. CASE l \in Languages /\ l # d
    <3>1. Upto(l) = Upto(k) \cup {l} /\ l \notin Upto(k) /\ Before(l) = Upto(k)
          /\ Upto(k) \subseteq Languages
      <4>1. /\ \A i \in Languages : i <= l <=> (i <= k \/ i = l)
            /\ \A i \in Languages : i < l <=> i <= k
        BY <1>2
      <4>2. ~(l <= k) /\ l \in Nat
        OBVIOUS
      <4> HIDE DEF l
      <4>3. Upto(l) = Upto(k) \cup {l}
        BY <2>2, <4>1, Zenon DEF Upto
      <4>4. l \notin Upto(k) /\ Upto(k) \subseteq Languages
        BY <1>2, <2>2, <4>2 DEF Upto
      <4>5. Before(l) = Upto(k)
        BY <2>2, <4>1, Zenon DEF Upto, Before
      <4> QED BY <4>3, <4>4, <4>5
    <3> DEFINE p == Sum(a, Upto(k))
               q == Sum(N, Upto(k))
    <3>2. Counts(a, Upto(k)) /\ Counts(N, Upto(k)) /\ p \in Nat /\ q \in Nat
      BY <1>1, <3>1, AmountsCount
    <3>3. a[l] \in Nat /\ N[l] \in Nat
      BY <1>3, <2>2
    <3>4. N[l] = IF a[l] + p <= x THEN 0 ELSE IF p >= x THEN a[l] ELSE a[l] + p - x
      BY <1>1, <2>2, <3>1
    <3>5. q = NotBelow0(p - x)
      BY <1>5
    <3> HIDE DEF l
    <3>6. Sum(a, Upto(l)) = p + a[l] /\ Sum(N, Upto(l)) = q + N[l]
      <4>1. Sum(a, Upto(k) \cup {l}) = p + a[l]
        BY <3>1, <3>2, <3>3, SumAdds
      <4>2. Sum(N, Upto(k) \cup {l}) = q + N[l]
        BY <3>1, <3>2, <3>3, SumAdds
      <4> QED BY <3>1, <4>1, <4>2
    <3> DEFINE u == a[l]
               v == N[l]
    <3>7. u \in Nat /\ v = (IF u + p <= x THEN 0 ELSE IF p >= x THEN u ELSE u + p - x)
      BY <3>3, <3>4
    <3> HIDE DEF p, q, u, v
    <3>8. q + v = NotBelow0((p + u) - x)
      BY <1>1, <3>2, <3>5, <3>7 DEF NotBelow0
    <3> QED BY <3>6, <3>8 DEF u, v, l
  <2> QED BY <2>1, <2>2
<1> HIDE DEF P
<1>6. \A k \in Nat : P(k)
  <2> SUFFICES ASSUME bad # {} PROVE FALSE
    OBVIOUS
  <2>1. PICK k \in bad : \A i \in bad : ~(<<i, k>> \in OpToRel(<, Nat))
    BY NatLessThanWellFounded, WFMin
  <2>2. k \in Nat /\ k # 0 /\ ~P(k)
    BY <1>4, <2>1
  <2>3. k - 1 \in Nat /\ k - 1 < k /\ (k - 1) + 1 = k
    BY <2>2
  <2>4. k - 1 \notin bad
    <3>1. <<k - 1, k>> \in OpToRel(<, Nat)
      BY <2>2, <2>3 DEF OpToRel
    <3> QED BY <2>1, <3>1
  <2>5. P(k - 1)
    BY <2>3, <2>4
  <2>6. P((k - 1) + 1)
    BY <1>5, <2>3, <2>5
  <2> QED BY <2>2, <2>3, <2>6
<1> QED BY <1>6 DEF P, N, x

\* What is shown adds up to the total.
LEMMA NormalizedAddsUp ==
  ASSUME NEW a \in Amounts, NEW n \in Nat
  PROVE  Sum(Normalized(a, n), Languages) = n
<1> DEFINE x == Excess(a, n)
           d == DefaultLanguage
           N == Normalized(a, n)
           whole == Sum(a, Languages)
<1>1. /\ x \in Int /\ N \in Amounts
      /\ x <= 0 => \A l \in Languages : N[l] = IF l = d THEN a[l] - x ELSE a[l]
  BY NormalizedValues
<1>2. d \in Languages /\ \A l \in Languages : l <= 12
  <2>1. d \in Languages /\ Languages \subseteq 1..12
    BY LanguagesFinite
  <2> QED BY <2>1
<1>3. whole \in Nat /\ x = whole - n
  BY AmountsCount DEF Excess
<1>4. CASE x <= 0
  <2> DEFINE rest == Languages \ {d}
  <2> HIDE DEF N, x
  <2>1. N[d] = a[d] - x /\ \A l \in rest : N[l] = a[l]
    BY <1>1, <1>2, <1>4
  <2>2. a[d] \in Nat /\ N[d] \in Nat
    BY <1>1, <1>2 DEF Amounts
  <2>3. Counts(a, rest) /\ Counts(N, rest) /\ Sum(a, rest) \in Nat
    BY <1>1, AmountsCount
  <2>4. Sum(N, rest) = Sum(a, rest)
    <3>1. [l \in rest |-> N[l]] = [l \in rest |-> a[l]]
      BY <2>1
    <3> QED BY <3>1 DEF Sum
  <2>5. Languages = rest \cup {d} /\ d \notin rest
    BY <1>2
  <2> HIDE DEF rest, d
  <2>6. whole = Sum(a, rest) + a[d]
    <3>1. Sum(a, rest \cup {d}) = Sum(a, rest) + a[d]
      BY <2>2, <2>3, <2>5, SumAdds
    <3> QED BY <2>5, <3>1
  <2>7. Sum(N, Languages) = Sum(N, rest) + N[d]
    <3>1. Sum(N, rest \cup {d}) = Sum(N, rest) + N[d]
      BY <2>2, <2>3, <2>5, SumAdds
    <3> QED BY <2>5, <3>1
  <2> HIDE DEF whole
  <2>8. Sum(N, Languages) = n
    BY <1>1, <1>3, <2>1, <2>2, <2>3, <2>4, <2>6, <2>7
  <2> QED BY <2>8 DEF N
<1>5. CASE ~(x <= 0)
  <2>1. x > 0
    BY <1>1, <1>5
  <2>2. Upto(12) = Languages
    BY <1>2 DEF Upto
  <2>3. Sum(N, Upto(12)) = NotBelow0(Sum(a, Upto(12)) - x)
    BY <2>1, NormalizedUpto
  <2>4. Sum(N, Languages) = NotBelow0(whole - x)
    BY <2>2, <2>3
  <2> HIDE DEF N, x, whole
  <2>5. Sum(N, Languages) = n
    BY <1>3, <2>4 DEF NotBelow0
  <2> QED BY <2>5 DEF N
<1> QED BY <1>4, <1>5

-----------------------------------------------------------------------------
(* What a step does to one card, of which there were n, tagged a, and then *)
(* are m, tagged b: the total changes, or copies come to both tables, or   *)
(* the card goes, or the editor writes what it shows.                      *)

Retotalled(n, a, m, b) == m \in Nat /\ b = a /\ (m = 0 => n = 0)
Copied(n, a, m, b) ==
  \E k \in Languages, j \in Nat \ {0} : m = n + j /\ WithCopies(a, k, j, b)
Gone(m, b) == m = 0 /\ b = NoTags
Edited(n, a, m, b) ==
  \E k \in Languages, q \in Nat :
    b = [Normalized(a, n) EXCEPT ![k] = q] /\ m = Sum(b, Languages)

Moves(n, a, m, b) ==
  Retotalled(n, a, m, b) \/ Copied(n, a, m, b) \/ Gone(m, b) \/ Edited(n, a, m, b)

\* A card of which there are none is not tagged.
Untagged(n, a) == n = 0 => a = NoTags

\* What is shown follows the total.
Follows(n, a, m, b) ==
  /\ m >= n => \A l \in Languages : Normalized(b, m)[l] >= Normalized(a, n)[l]
  /\ m <= n => \A l \in Languages : Normalized(b, m)[l] <= Normalized(a, n)[l]

LEMMA ShownType ==
  ASSUME NEW a \in Amounts, NEW n \in Nat
  PROVE  Normalized(a, n) \in Amounts /\ \A l \in Languages : Normalized(a, n)[l] \in Nat
<1>1. Normalized(a, n) \in Amounts
  BY NormalizedValues
<1> QED BY <1>1 DEF Amounts

LEMMA NoTagsSum ==
         NoTags \in Amounts /\ Sum(NoTags, Languages) = 0
<1> DEFINE f == [l \in Languages |-> NoTags[l]]
<1>1. \A l \in DOMAIN f : f[l] = 0
  BY DEF NoTags
<1>2. Sum(NoTags, Languages) = Total(f)
  BY DEF Sum
<1> HIDE DEF f
<1>3. Sum(NoTags, Languages) = 0
  BY <1>1, <1>2, TotalOfZeros
<1>4. NoTags \in Amounts
  BY DEF NoTags, Amounts
<1> QED BY <1>3, <1>4

LEMMA NothingLeft ==
  ASSUME NEW a \in Amounts, Sum(a, Languages) = 0
  PROVE  a = NoTags
<1>1. ASSUME NEW l \in Languages PROVE a[l] = 0
  <2>1. a[l] \in Nat
    BY DEF Amounts
  <2>2. Counts(a, Languages)
    BY AmountsCount
  <2>3. Sum(a, {l}) <= Sum(a, Languages)
    BY <2>2, SumOfPart
  <2>4. Sum(a, {l}) = a[l]
    BY <2>1, SumOfOne
  <2> QED BY <2>1, <2>3, <2>4
<1>2. a = [l \in Languages |-> a[l]]
  BY DEF Amounts
<1> QED BY <1>1, <1>2 DEF NoTags

LEMMA RetotalledFollows ==
  ASSUME NEW n \in Nat, NEW a \in Amounts, NEW m, NEW b, Untagged(n, a),
         Retotalled(n, a, m, b)
  PROVE  m \in Nat /\ b \in Amounts /\ Untagged(m, b) /\ Follows(n, a, m, b)
<1>1. m \in Nat /\ b = a /\ Untagged(m, b)
  BY DEF Retotalled, Untagged
<1>2. /\ n <= m => \A l \in Languages : Normalized(a, n)[l] <= Normalized(a, m)[l]
      /\ m <= n => \A l \in Languages : Normalized(a, m)[l] <= Normalized(a, n)[l]
  BY <1>1, NormalizedGrows
<1>3. \A l \in Languages : Normalized(a, n)[l] \in Nat /\ Normalized(a, m)[l] \in Nat
  BY <1>1, ShownType
<1>4. Follows(n, a, m, a)
  BY <1>1, <1>2, <1>3 DEF Follows
<1> QED BY <1>1, <1>4

LEMMA CopiedFollows ==
  ASSUME NEW n \in Nat, NEW a \in Amounts, NEW m, NEW b,
         Copied(n, a, m, b)
  PROVE  m \in Nat /\ b \in Amounts /\ Untagged(m, b) /\ Follows(n, a, m, b)
<1>1. PICK k \in Languages, j \in Nat \ {0} : m = n + j /\ WithCopies(a, k, j, b)
  BY DEF Copied
<1>2. m \in Nat /\ m # 0 /\ ~(m <= n)
  BY <1>1
<1>3. b \in Amounts
  <2>1. a[k] + j \in Nat
    BY <1>1 DEF Amounts
  <2> QED BY <1>1, <2>1 DEF WithCopies, Amounts
<1>4. \A l \in Languages : Normalized(a, n)[l] <= Normalized(b, n + j)[l]
  BY <1>1, <1>3, NormalizedWithCopies
<1>5. \A l \in Languages : Normalized(a, n)[l] \in Nat /\ Normalized(b, m)[l] \in Nat
  BY <1>2, <1>3, ShownType
<1>6. \A l \in Languages : Normalized(b, m)[l] >= Normalized(a, n)[l]
  BY <1>1, <1>4, <1>5
<1> QED BY <1>2, <1>3, <1>6 DEF Follows, Untagged

LEMMA GoneFollows ==
  ASSUME NEW n \in Nat, NEW a \in Amounts, NEW m, NEW b, Untagged(n, a),
         Gone(m, b)
  PROVE  m \in Nat /\ b \in Amounts /\ Untagged(m, b) /\ Follows(n, a, m, b)
<1> DEFINE N == Normalized(a, n)
           M == Normalized(b, m)
<1>1. m = 0 /\ m \in Nat /\ b = NoTags /\ b \in Amounts /\ Sum(b, Languages) = m
  BY NoTagsSum DEF Gone
<1>2. M = NoTags
  BY <1>1, NormalizedExact
<1>3. \A l \in Languages : M[l] = 0
  BY <1>2 DEF NoTags
<1>4. \A l \in Languages : N[l] \in Nat
  BY ShownType
<1>5. m >= n => N = M
  <2>1. ASSUME m >= n PROVE n = m /\ a = b
    BY <1>1, <2>1 DEF Untagged
  <2> QED BY <2>1
<1> HIDE DEF N, M
<1>6. /\ m >= n => \A l \in Languages : M[l] >= N[l]
      /\ \A l \in Languages : M[l] <= N[l]
  BY <1>3, <1>4, <1>5
<1> QED BY <1>1, <1>6 DEF Follows, Untagged, N, M

LEMMA EditedFollows ==
  ASSUME NEW n \in Nat, NEW a \in Amounts, NEW m, NEW b,
         Edited(n, a, m, b)
  PROVE  m \in Nat /\ b \in Amounts /\ Untagged(m, b) /\ Follows(n, a, m, b)
<1> DEFINE N == Normalized(a, n)
<1>1. PICK k \in Languages, q \in Nat :
        b = [Normalized(a, n) EXCEPT ![k] = q] /\ m = Sum(b, Languages)
  BY DEF Edited
<1>2. N \in Amounts /\ \A l \in Languages : N[l] \in Nat
  BY ShownType
<1>3. b = [N EXCEPT ![k] = q]
  BY <1>1
<1>4. Sum(N, Languages) = n
  BY NormalizedAddsUp
<1> HIDE DEF N
<1>5. b \in Amounts /\ \A l \in Languages : b[l] = IF l = k THEN q ELSE N[l]
  BY <1>2, <1>3 DEF Amounts
<1>6. m \in Nat
  BY <1>1, <1>5, AmountsCount
<1>7. Normalized(b, m) = b
  BY <1>1, <1>5, NormalizedExact
<1>8. Untagged(m, b)
  BY <1>1, <1>5, NothingLeft DEF Untagged
<1>9. m = n - N[k] + q
  <2> DEFINE rest == Languages \ {k}
  <2>1. Counts(N, rest) /\ Counts(b, rest) /\ Sum(N, rest) \in Nat
    BY <1>2, <1>5, AmountsCount
  <2>2. [l \in rest |-> N[l]] = [l \in rest |-> b[l]]
    BY <1>5
  <2>3. Sum(N, rest) = Sum(b, rest)
    BY <2>2 DEF Sum
  <2>4. Languages = rest \cup {k} /\ k \notin rest
    OBVIOUS
  <2>5. N[k] \in Nat /\ b[k] \in Nat /\ b[k] = q
    BY <1>2, <1>5
  <2> HIDE DEF rest
  <2>6. Sum(N, rest \cup {k}) = Sum(N, rest) + N[k]
    BY <2>1, <2>4, <2>5, SumAdds
  <2>7. Sum(b, rest \cup {k}) = Sum(b, rest) + b[k]
    BY <2>1, <2>4, <2>5, SumAdds
  <2>8. n = Sum(N, rest) + N[k] /\ m = Sum(N, rest) + q
    BY <1>1, <1>4, <2>3, <2>4, <2>5, <2>6, <2>7
  <2> QED BY <2>1, <2>5, <2>8
<1>10. /\ m >= n => \A l \in Languages : b[l] >= N[l]
       /\ m <= n => \A l \in Languages : b[l] <= N[l]
  <2>1. ASSUME NEW l \in Languages PROVE (m >= n => b[l] >= N[l]) /\ (m <= n => b[l] <= N[l])
    <3>1. N[l] \in Nat /\ N[k] \in Nat /\ b[l] = IF l = k THEN q ELSE N[l]
      BY <1>2, <1>5
    <3> QED BY <1>6, <1>9, <3>1
  <2> QED BY <2>1
<1>11. Follows(n, a, m, b)
  BY <1>7, <1>10 DEF Follows, N
<1> QED BY <1>5, <1>6, <1>8, <1>11

LEMMA MovesFollow ==
  ASSUME NEW n \in Nat, NEW a \in Amounts, NEW m, NEW b, Untagged(n, a),
         Moves(n, a, m, b)
  PROVE  m \in Nat /\ b \in Amounts /\ Untagged(m, b) /\ Follows(n, a, m, b)
BY RetotalledFollows, CopiedFollows, GoneFollows, EditedFollows DEF Moves

-----------------------------------------------------------------------------
(* The steps.                                                              *)

InventoryInv ==
  InventoryTypeOK /\ ExchangesPaid /\ \A c \in CardIds : Untagged(total[c], tagged[c])

LEMMA InventoryFacts ==
  ASSUME InventoryTypeOK
  PROVE  /\ total \in [CardIds -> Nat] /\ tagged \in [CardIds -> Amounts]
         /\ language \in Languages /\ sand \in Nat /\ count \in [{"skin", "frame"} -> Nat]
         /\ bought \in [ShopTxs -> 0..MaxAmount]
BY DEF InventoryTypeOK, Amounts, Exchanges

\* The operations of a request, by place.
Requested(ops) ==
  \E m \in {1, 2} : ops \in [1..m -> [id : {"skin", "frame"}, amount : {1, 2}]]

LEMMA OperationsRequested == ASSUME NEW ops \in Operations PROVE Requested(ops)
<1>1. PICK m \in 1..2 : ops \in [1..m -> [id : Exchanges, amount : 1..2]]
  BY DEF Operations
<1>2. m \in {1, 2} /\ 1..2 = {1, 2}
  OBVIOUS
<1> QED BY <1>1, <1>2 DEF Requested, Exchanges

\* What some of the operations ask for.
LEMMA AmountIsSum ==
  ASSUME NEW ops, Requested(ops), NEW set, set \subseteq DOMAIN ops
  PROVE  LET w == [k \in DOMAIN ops |-> ops[k].amount]
         IN  Amount(ops, set) = Sum(w, set) /\ Counts(w, set)
<1> DEFINE w == [k \in DOMAIN ops |-> ops[k].amount]
<1>1. PICK m \in {1, 2} : ops \in [1..m -> [id : {"skin", "frame"}, amount : {1, 2}]]
  BY DEF Requested
<1>2. IsFiniteSet(1..m)
  <2>1. 1 \in Int /\ m \in Int
    OBVIOUS
  <2> QED BY <2>1, FS_Interval
<1>3. IsFiniteSet(set)
  BY <1>1, <1>2, FS_Subset
<1>4. \A k \in set : w[k] \in Nat
  BY <1>1
<1>5. [k \in set |-> ops[k].amount] = [k \in set |-> w[k]]
  OBVIOUS
<1>6. Amount(ops, set) = Sum(w, set)
  BY <1>5 DEF Amount, Sum
<1> QED BY <1>3, <1>4, <1>6 DEF Counts

\* The operations are those of the skin and those of the frame, and what is
\* asked for before one of them is part of it.
LEMMA AmountSplits ==
  ASSUME NEW ops, Requested(ops)
  PROVE  LET amount(e) == Amount(ops, Of(ops, e, DOMAIN ops))
         IN  /\ amount("skin") \in Nat /\ amount("frame") \in Nat
             /\ Amount(ops, DOMAIN ops) = amount("skin") + amount("frame")
             /\ amount("frame") > 0 => \E k \in DOMAIN ops : ops[k].id = "frame"
             /\ \A k \in DOMAIN ops :
                  /\ Amount(ops, Of(ops, "skin", 1..(k - 1))) \in Nat
                  /\ Amount(ops, Of(ops, "skin", 1..(k - 1))) <= amount("skin")
<1> DEFINE w == [k \in DOMAIN ops |-> ops[k].amount]
           S == Of(ops, "skin", DOMAIN ops)
           F == Of(ops, "frame", DOMAIN ops)
           B(k) == Of(ops, "skin", 1..(k - 1))
<1>1. PICK m \in {1, 2} : ops \in [1..m -> [id : {"skin", "frame"}, amount : {1, 2}]]
  BY DEF Requested
<1>2. S \subseteq DOMAIN ops /\ F \subseteq DOMAIN ops /\ S \cap F = {} /\ S \cup F = DOMAIN ops
  BY <1>1 DEF Of
<1>3. \A k \in DOMAIN ops : B(k) \subseteq S
  BY <1>1 DEF Of
<1>4. \A T \in SUBSET DOMAIN ops : Amount(ops, T) = Sum(w, T) /\ Counts(w, T)
  BY AmountIsSum
<1>5. F # {} => \E k \in DOMAIN ops : ops[k].id = "frame"
  BY DEF Of
<1> HIDE DEF w, S, F, B
<1>6. Sum(w, S \cup F) = Sum(w, S) + Sum(w, F)
  BY <1>2, <1>4, SumSplits
<1>7. Sum(w, S) \in Nat /\ Sum(w, F) \in Nat
  BY <1>2, <1>4, SumType
<1>8. \A k \in DOMAIN ops : Sum(w, B(k)) \in Nat /\ Sum(w, B(k)) <= Sum(w, S)
  BY <1>2, <1>3, <1>4, SumOfPart
<1>9. F = {} => Sum(w, F) = 0
  BY SumOfNone
<1>10. /\ Amount(ops, S) = Sum(w, S) /\ Amount(ops, F) = Sum(w, F)
       /\ Amount(ops, DOMAIN ops) = Sum(w, S \cup F)
       /\ \A k \in DOMAIN ops : Amount(ops, B(k)) = Sum(w, B(k))
  BY <1>2, <1>3, <1>4
<1>11. /\ Amount(ops, S) \in Nat /\ Amount(ops, F) \in Nat
       /\ Amount(ops, DOMAIN ops) = Amount(ops, S) + Amount(ops, F)
       /\ Amount(ops, F) > 0 => \E k \in DOMAIN ops : ops[k].id = "frame"
  BY <1>5, <1>6, <1>7, <1>9, <1>10
<1>12. \A k \in DOMAIN ops : Amount(ops, B(k)) \in Nat /\ Amount(ops, B(k)) <= Amount(ops, S)
  BY <1>8, <1>10
<1> QED BY <1>11, <1>12 DEF S, F, B

\* Both tables have an entry for each card.
Tables ==
  total = [c \in CardIds |-> total[c]] /\ tagged = [c \in CardIds |-> tagged[c]]

LEMMA ReceivedMoves ==
  ASSUME InventoryTypeOK, NEW d \in CardIds,
         Receive(d) \/ ReceiveUntagged(d) \/ Give(d), NEW c \in CardIds
  PROVE  /\ Tables'
         /\ Moves(total[c], tagged[c], total'[c], tagged'[c])
<1>1. total \in [CardIds -> Nat] /\ tagged \in [CardIds -> Amounts] /\ language \in Languages
  BY InventoryFacts
<1>2. total[c] \in Nat /\ total[d] \in Nat /\ tagged[d] \in Amounts
  BY <1>1
<1>3. CASE Receive(d)
  <2>1. total' = [total EXCEPT ![d] = total[d] + 1]
        /\ tagged' = [tagged EXCEPT ![d][language] = tagged[d][language] + 1]
    BY <1>3 DEF Receive, Tag
  <2>2. Tables'
    BY <1>1, <2>1 DEF Tables
  <2>3. CASE c = d
    <3>1. total'[c] = total[c] + 1 /\ tagged'[c] = [tagged[c] EXCEPT ![language] = tagged[c][language] + 1]
      BY <1>1, <2>1, <2>3
    <3>2. WithCopies(tagged[c], language, 1, tagged'[c])
      BY <3>1 DEF WithCopies
    <3>3. 1 \in Nat \ {0}
      OBVIOUS
    <3>4. Copied(total[c], tagged[c], total'[c], tagged'[c])
      BY <1>1, <3>1, <3>2, <3>3 DEF Copied
    <3> QED BY <2>2, <3>4 DEF Moves
  <2>4. CASE c # d
    <3>1. total'[c] = total[c] /\ tagged'[c] = tagged[c]
      BY <1>1, <2>1, <2>4
    <3> QED BY <1>2, <2>2, <3>1 DEF Moves, Retotalled
  <2> QED BY <2>3, <2>4
<1>4. CASE ReceiveUntagged(d) \/ Give(d)
  <2>1. PICK m \in {total[d] + 1, total[d] - 1} :
          /\ total' = [total EXCEPT ![d] = m] /\ tagged' = tagged
          /\ m = total[d] + 1 \/ total[d] >= 2
    BY <1>4 DEF ReceiveUntagged, Give
  <2>2. m \in Nat /\ m # 0
    BY <1>2, <2>1
  <2>3. Tables'
    BY <1>1, <2>1 DEF Tables
  <2>4. total'[c] = IF c = d THEN m ELSE total[c]
    BY <1>1, <2>1
  <2> QED BY <1>2, <2>1, <2>2, <2>3, <2>4 DEF Moves, Retotalled
<1> QED BY <1>3, <1>4

LEMMA SetLanguageMoves ==
  ASSUME InventoryTypeOK, NEW d \in CardIds, NEW l \in Languages,
         NEW q \in 0..MaxEdit, SetCardLanguage(d, l, q), NEW c \in CardIds
  PROVE  /\ Tables'
         /\ Moves(total[c], tagged[c], total'[c], tagged'[c])
<1> DEFINE b == [Normalized(tagged[d], total[d]) EXCEPT ![l] = q]
<1>1. total \in [CardIds -> Nat] /\ tagged \in [CardIds -> Amounts]
  BY InventoryFacts
<1>2. q \in Nat
  <2>1. MaxEdit \in Nat
    BY InventoryAssumption
  <2> QED BY <2>1
<1>3. total' = [total EXCEPT ![d] = Sum(b, Languages)] /\ tagged' = [tagged EXCEPT ![d] = b]
  BY DEF SetCardLanguage, Shown
<1>4. Tables'
  BY <1>1, <1>3 DEF Tables
<1>5. CASE c = d
  <2>1. total'[c] = Sum(b, Languages) /\ tagged'[c] = b
    BY <1>1, <1>3, <1>5
  <2>2. Edited(total[c], tagged[c], total'[c], tagged'[c])
    BY <1>2, <1>5, <2>1 DEF Edited
  <2> QED BY <1>4, <2>2 DEF Moves
<1>6. CASE c # d
  <2>1. total'[c] = total[c] /\ tagged'[c] = tagged[c] /\ total[c] \in Nat
    BY <1>1, <1>3, <1>6
  <2> QED BY <1>4, <2>1 DEF Moves, Retotalled
<1> QED BY <1>5, <1>6

LEMMA ExchangeMoves ==
  ASSUME InventoryTypeOK, NEW ops \in Operations, ExchangeCardCosmetics(ops),
         NEW c \in CardIds
  PROVE  /\ Tables'
         /\ Moves(total[c], tagged[c], total'[c], tagged'[c])
<1> DEFINE n == Amount(ops, DOMAIN ops)
           left == total[Skinned] - ExchangeCards * n
<1>1. total \in [CardIds -> Nat] /\ tagged \in [CardIds -> Amounts]
  BY InventoryFacts
<1>2. Skinned \in CardIds /\ ExchangeCards \in Nat
  BY InventoryAssumption
<1>3. n \in Nat
  BY OperationsRequested, AmountSplits
<1>4. /\ left >= 0 /\ total' = [total EXCEPT ![Skinned] = left]
      /\ tagged' = IF left = 0 THEN [tagged EXCEPT ![Skinned] = NoTags] ELSE tagged
  BY DEF ExchangeCardCosmetics
<1> HIDE DEF n
<1>5. left \in Nat
  <2> DEFINE p == ExchangeCards * n
             t == total[Skinned]
  <2>1. p \in Nat /\ t \in Nat /\ t - p >= 0
    BY <1>1, <1>2, <1>3, <1>4
  <2> HIDE DEF p, t
  <2>2. t - p \in Nat
    BY <2>1
  <2> QED BY <2>2 DEF p, t
<1> HIDE DEF left
<1>6. Tables'
  BY <1>1, <1>4 DEF Tables
<1>7. total[c] \in Nat /\ total'[c] = IF c = Skinned THEN left ELSE total[c]
  BY <1>1, <1>4
<1>8. tagged'[c] = IF left = 0 /\ c = Skinned THEN NoTags ELSE tagged[c]
  BY <1>1, <1>4
<1>9. CASE left = 0 /\ c = Skinned
  BY <1>6, <1>7, <1>8, <1>9 DEF Moves, Gone
<1>10. CASE ~(left = 0 /\ c = Skinned)
  BY <1>5, <1>6, <1>7, <1>8, <1>10 DEF Moves, Retotalled
<1> QED BY <1>9, <1>10

LEMMA PurchaseMoves ==
  ASSUME InventoryTypeOK, NEW i \in ShopTxs, NEW n \in 1..MaxAmount,
         CommitShopPurchase(i, n), NEW c \in CardIds
  PROVE  /\ Tables'
         /\ Moves(total[c], tagged[c], total'[c], tagged'[c])
<1>1. total \in [CardIds -> Nat] /\ tagged \in [CardIds -> Amounts] /\ language \in Languages
  BY InventoryFacts
<1>2. Sold \in CardIds /\ n \in Nat \ {0}
  <2>1. Sold \in CardIds /\ MaxAmount \in Nat
    BY InventoryAssumption
  <2> QED BY <2>1
<1>3. total' = [total EXCEPT ![Sold] = total[Sold] + n]
      /\ tagged' = [tagged EXCEPT ![Sold][language] = tagged[Sold][language] + n]
  BY DEF CommitShopPurchase, Tag
<1>4. Tables'
  BY <1>1, <1>3 DEF Tables
<1>5. CASE c = Sold
  <2>1. /\ total'[c] = total[c] + n
        /\ tagged'[c] = [tagged[c] EXCEPT ![language] = tagged[c][language] + n]
    BY <1>1, <1>3, <1>5
  <2>2. WithCopies(tagged[c], language, n, tagged'[c])
    BY <2>1 DEF WithCopies
  <2> QED BY <1>1, <1>2, <1>4, <2>1, <2>2 DEF Moves, Copied
<1>6. CASE c # Sold
  <2>1. total'[c] = total[c] /\ tagged'[c] = tagged[c] /\ total[c] \in Nat
    BY <1>1, <1>3, <1>6
  <2> QED BY <1>4, <2>1 DEF Moves, Retotalled
<1> QED BY <1>5, <1>6

\* Every step makes of every card one of the moves.
LEMMA StepMoves ==
  ASSUME InventoryTypeOK, [InventoryNext]_(inventoryVars), NEW c \in CardIds
  PROVE  /\ Tables'
         /\ Moves(total[c], tagged[c], total'[c], tagged'[c])
<1>1. CASE UNCHANGED <<total, tagged>>
  <2>1. total \in [CardIds -> Nat] /\ tagged \in [CardIds -> Amounts]
    BY InventoryFacts
  <2>2. total' = total /\ tagged' = tagged /\ total[c] \in Nat
    BY <1>1, <2>1
  <2>3. Tables'
    BY <2>1, <2>2 DEF Tables
  <2> QED BY <2>2, <2>3 DEF Moves, Retotalled
<1>2. ASSUME NEW l \in Languages, UpdatePlayerLocale(l) PROVE UNCHANGED <<total, tagged>>
  BY <1>2 DEF UpdatePlayerLocale
<1>3. UNCHANGED inventoryVars => UNCHANGED <<total, tagged>>
  BY DEF inventoryVars
<1> QED BY <1>1, <1>2, <1>3, ReceivedMoves, SetLanguageMoves, ExchangeMoves, PurchaseMoves
    DEF InventoryNext

\* What is paid for two amounts at once is paid for each.
LEMMA Products ==
  ASSUME NEW p \in Nat, NEW a \in Nat, NEW b \in Nat
  PROVE  p * a \in Nat /\ p * (a + b) = p * a + p * b
OBVIOUS

LEMMA ExchangePaid ==
  ASSUME InventoryTypeOK, ExchangesPaid, NEW ops \in Operations,
         ExchangeCardCosmetics(ops)
  PROVE  /\ sand' \in Nat /\ count' \in [{"skin", "frame"} -> Nat] /\ language' \in Languages
         /\ bought' = bought /\ ExchangesPaid'
<1> DEFINE amount(e) == Amount(ops, Of(ops, e, DOMAIN ops))
           n == Amount(ops, DOMAIN ops)
           s == amount("skin")
           f == amount("frame")
           before(k) == Amount(ops, Of(ops, "skin", 1..(k - 1)))
           bill == ProductPrice * Purchases
<1>1. language \in Languages /\ sand \in Nat /\ count \in [{"skin", "frame"} -> Nat]
  BY InventoryFacts
<1>2. ExchangeSand \in Nat /\ RequiredSkins \in Nat
  BY InventoryAssumption
<1>3. Requested(ops)
  BY OperationsRequested
<1>4. /\ s \in Nat /\ f \in Nat /\ n = s + f
      /\ f > 0 => \E k \in DOMAIN ops : ops[k].id = "frame"
      /\ \A k \in DOMAIN ops : before(k) \in Nat /\ before(k) <= s
  BY <1>3, AmountSplits
<1>5. /\ \A k \in DOMAIN ops : ops[k].id = "frame" => count["skin"] + before(k) >= RequiredSkins
      /\ ExchangeSand * n <= sand /\ sand' = sand - ExchangeSand * n
      /\ count' = [e \in {"skin", "frame"} |-> count[e] + amount(e)]
      /\ language' = language /\ bought' = bought
  BY DEF ExchangeCardCosmetics, Unlocked, Exchanges
<1>6. /\ sand + ExchangeSand * (count["skin"] + count["frame"]) + bill = StartSand
      /\ Purchases <= MaxAmount
      /\ count["frame"] > 0 => count["skin"] >= RequiredSkins
  BY DEF ExchangesPaid
<1>7. Purchases' = Purchases
  BY <1>5 DEF Purchases
<1> DEFINE cs == count["skin"]
           cf == count["frame"]
<1>8. count'["skin"] = cs + s /\ count'["frame"] = cf + f
  BY <1>5
<1> HIDE DEF amount, n, s, f, before
<1>9. cs \in Nat /\ cf \in Nat
  BY <1>1
<1>10. count' \in [{"skin", "frame"} -> Nat]
  <2>1. amount("skin") \in Nat /\ amount("frame") \in Nat
    BY <1>4 DEF s, f
  <2> QED BY <1>1, <1>5, <2>1
<1> HIDE DEF cs, cf
<1>11. /\ ExchangeSand * (cs + cf) \in Nat /\ ExchangeSand * n \in Nat
       /\ ExchangeSand * ((cs + cf) + n) = ExchangeSand * (cs + cf) + ExchangeSand * n
  <2>1. cs + cf \in Nat /\ n \in Nat
    BY <1>4, <1>9
  <2> QED BY <1>2, <2>1, Products
<1>12. (cs + s) + (cf + f) = (cs + cf) + n
  BY <1>4, <1>9
<1> DEFINE x == ExchangeSand * (cs + cf)
           y == ExchangeSand * n
           z == ExchangeSand * ((cs + s) + (cf + f))
<1>13. x \in Nat /\ y \in Nat /\ z = x + y /\ y <= sand /\ sand' = sand - y
  BY <1>5, <1>11, <1>12
<1>14. sand + x + bill = StartSand
  BY <1>6 DEF cs, cf
<1>15. bill \in Int
  <2>1. ProductPrice \in Nat /\ Purchases \in Nat
    <3>1. Total(bought) \in Nat
      <4>1. IsFiniteSet(ShopTxs) /\ MaxAmount \in Nat
        BY InventoryAssumption
      <4>2. bought \in [ShopTxs -> Nat]
        BY <4>1, InventoryFacts
      <4> QED BY <4>1, <4>2, TotalIsNat
    <3>2. Purchases = Total(bought)
      BY DEF Purchases
    <3> QED BY <3>1, <3>2, InventoryAssumption
  <2> QED BY <2>1
<1> HIDE DEF x, y, z, bill
<1>16. sand' + z + bill = StartSand /\ sand' \in Nat
  BY <1>1, <1>13, <1>14, <1>15
<1>17. cf + f > 0 => cs + s >= RequiredSkins
  <2>1. CASE cf > 0
    <3>1. cs >= RequiredSkins
      BY <1>6, <2>1 DEF cs, cf
    <3> QED BY <1>2, <1>4, <1>9, <3>1
  <2>2. CASE f > 0
    <3>1. PICK k \in DOMAIN ops : ops[k].id = "frame"
      BY <1>4, <2>2
    <3>2. cs + before(k) >= RequiredSkins /\ before(k) \in Nat /\ before(k) <= s
      BY <1>4, <1>5, <3>1 DEF cs
    <3> QED BY <1>2, <1>4, <1>9, <3>2
  <2> QED BY <1>4, <1>9, <2>1, <2>2
<1>18. ExchangesPaid'
  <2>1. sand' + ExchangeSand * (count'["skin"] + count'["frame"]) + ProductPrice * Purchases'
          = StartSand
    BY <1>7, <1>8, <1>16 DEF z, bill
  <2> QED BY <1>6, <1>7, <1>8, <1>17, <2>1 DEF ExchangesPaid
<1> QED BY <1>1, <1>5, <1>10, <1>16, <1>18

LEMMA PurchasePaid ==
  ASSUME InventoryTypeOK, ExchangesPaid, NEW i \in ShopTxs, NEW n \in 1..MaxAmount,
         CommitShopPurchase(i, n)
  PROVE  /\ sand' \in Nat /\ count' = count /\ language' \in Languages
         /\ bought' \in [ShopTxs -> 0..MaxAmount] /\ ExchangesPaid'
<1> DEFINE p == Purchases
           dust == ExchangeSand * (count["skin"] + count["frame"])
<1>1. /\ language \in Languages /\ sand \in Nat /\ count \in [{"skin", "frame"} -> Nat]
      /\ bought \in [ShopTxs -> 0..MaxAmount]
  BY InventoryFacts
<1>2. /\ IsFiniteSet(ShopTxs) /\ MaxAmount \in Nat /\ ProductPrice \in Nat /\ ExchangeSand \in Nat
  BY InventoryAssumption
<1>3. n \in Nat /\ n \in 0..MaxAmount
  BY <1>2
<1>4. /\ bought[i] = 0 /\ p + n <= MaxAmount /\ ProductPrice * n <= sand
      /\ sand' = sand - ProductPrice * n /\ bought' = [bought EXCEPT ![i] = n]
      /\ language' = language /\ count' = count
  BY DEF CommitShopPurchase, WithinLimit
<1>5. p = Total(bought) /\ Purchases' = Total(bought')
  BY DEF Purchases
<1>6. bought' \in [ShopTxs -> 0..MaxAmount]
  BY <1>1, <1>3, <1>4
<1>7. Purchases' = p + n /\ p \in Nat
  <2>1. bought \in [ShopTxs -> Nat] /\ bought' \in [ShopTxs -> Nat]
    BY <1>1, <1>2, <1>6
  <2>2. bought[i] = 0 /\ bought'[i] = n /\ \A j \in ShopTxs \ {i} : bought'[j] = bought[j]
    BY <1>1, <1>4
  <2>3. Changes(ShopTxs, bought, i, bought')
    BY <1>2, <2>1, <2>2 DEF Changes
  <2>4. Total(bought') + bought[i] = Total(bought) + bought'[i]
    BY <2>3, TotalChanges
  <2>5. Total(bought) \in Nat /\ Total(bought') \in Nat
    BY <1>2, <2>1, TotalIsNat
  <2> QED BY <1>3, <1>5, <2>2, <2>4, <2>5
<1>8. /\ sand + dust + ProductPrice * p = StartSand
      /\ count["frame"] > 0 => count["skin"] >= RequiredSkins
  BY DEF ExchangesPaid
<1>9. dust \in Nat
  <2>1. count["skin"] + count["frame"] \in Nat
    BY <1>1
  <2> HIDE DEF p
  <2> QED BY <1>2, <2>1, Products
<1> HIDE DEF p, dust
<1>10. /\ ProductPrice * p \in Nat /\ ProductPrice * n \in Nat
       /\ ProductPrice * (p + n) = ProductPrice * p + ProductPrice * n
  BY <1>2, <1>3, <1>7, Products
<1> DEFINE x == ProductPrice * p
           y == ProductPrice * n
           z == ProductPrice * (p + n)
<1>11. /\ x \in Nat /\ y \in Nat /\ z = x + y /\ y <= sand /\ sand' = sand - y
       /\ sand + dust + x = StartSand
  BY <1>4, <1>8, <1>10
<1> HIDE DEF x, y, z
<1>12. sand' \in Nat /\ sand' + dust + z = StartSand
  BY <1>1, <1>9, <1>11
<1>13. ExchangesPaid'
  <2>1. sand' + ExchangeSand * (count'["skin"] + count'["frame"]) + ProductPrice * Purchases'
          = StartSand
    BY <1>4, <1>7, <1>12 DEF z, dust
  <2>2. Purchases' <= MaxAmount
    BY <1>4, <1>7
  <2> QED BY <1>4, <1>8, <2>1, <2>2 DEF ExchangesPaid
<1> QED BY <1>1, <1>4, <1>6, <1>12, <1>13

\* The other variables than those of the cards.
LEMMA StepPaid ==
  ASSUME InventoryTypeOK, ExchangesPaid, [InventoryNext]_(inventoryVars)
  PROVE  /\ sand' \in Nat /\ count' \in [{"skin", "frame"} -> Nat] /\ language' \in Languages
         /\ bought' \in [ShopTxs -> 0..MaxAmount] /\ ExchangesPaid'
<1>1. /\ language \in Languages /\ sand \in Nat /\ count \in [{"skin", "frame"} -> Nat]
      /\ bought \in [ShopTxs -> 0..MaxAmount]
  BY InventoryFacts
<1>2. CASE /\ UNCHANGED <<sand, count, bought>> /\ language' \in Languages
  BY <1>1, <1>2 DEF ExchangesPaid, Purchases
<1>3. ASSUME NEW c \in CardIds, Receive(c) \/ ReceiveUntagged(c) \/ Give(c)
      PROVE  UNCHANGED <<sand, count, bought>> /\ language' \in Languages
  BY <1>1, <1>3 DEF Receive, ReceiveUntagged, Give
<1>4. ASSUME NEW c \in CardIds, NEW l \in Languages, NEW q \in 0..MaxEdit, SetCardLanguage(c, l, q)
      PROVE  UNCHANGED <<sand, count, bought>> /\ language' \in Languages
  BY <1>1, <1>4 DEF SetCardLanguage
<1>5. ASSUME NEW l \in Languages, UpdatePlayerLocale(l)
      PROVE  UNCHANGED <<sand, count, bought>> /\ language' \in Languages
  BY <1>5 DEF UpdatePlayerLocale
<1>6. UNCHANGED inventoryVars => UNCHANGED <<sand, count, bought>> /\ language' \in Languages
  BY <1>1 DEF inventoryVars
<1>7. ASSUME NEW ops \in Operations, ExchangeCardCosmetics(ops)
      PROVE  /\ sand' \in Nat /\ count' \in [{"skin", "frame"} -> Nat] /\ language' \in Languages
             /\ bought' \in [ShopTxs -> 0..MaxAmount] /\ ExchangesPaid'
  BY <1>1, <1>7, ExchangePaid
<1>8. ASSUME NEW i \in ShopTxs, NEW n \in 1..MaxAmount, CommitShopPurchase(i, n)
      PROVE  /\ sand' \in Nat /\ count' \in [{"skin", "frame"} -> Nat] /\ language' \in Languages
             /\ bought' \in [ShopTxs -> 0..MaxAmount] /\ ExchangesPaid'
  BY <1>1, <1>8, PurchasePaid
<1> QED BY <1>2, <1>3, <1>4, <1>5, <1>6, <1>7, <1>8 DEF InventoryNext

LEMMA InventoryBegins == ASSUME InventoryInit PROVE InventoryInv
<1>1. /\ total = [c \in CardIds |-> 0] /\ tagged = [c \in CardIds |-> NoTags]
      /\ language \in Languages /\ sand = StartSand /\ count = [e \in Exchanges |-> 0]
      /\ bought = [i \in ShopTxs |-> 0]
  BY DEF InventoryInit
<1>2. /\ StartSand \in Nat /\ ExchangeSand \in Nat /\ ProductPrice \in Nat /\ MaxAmount \in Nat
  BY InventoryAssumption
<1>3. InventoryTypeOK
  <2>1. NoTags \in [Languages -> Nat]
    BY NoTagsSum DEF Amounts
  <2>2. 0 \in 0..MaxAmount
    BY <1>2
  <2> QED BY <1>1, <1>2, <2>1, <2>2 DEF InventoryTypeOK
<1>4. Purchases = 0
  <2>1. \A i \in DOMAIN bought : bought[i] = 0
    BY <1>1
  <2>2. Purchases = Total(bought)
    BY DEF Purchases
  <2> QED BY <2>1, <2>2, TotalOfZeros
<1>5. ExchangesPaid
  <2>1. count["skin"] = 0 /\ count["frame"] = 0
    BY <1>1 DEF Exchanges
  <2>2. ExchangeSand * (0 + 0) = 0 /\ ProductPrice * 0 = 0
    BY <1>2
  <2> QED BY <1>1, <1>2, <1>4, <2>1, <2>2 DEF ExchangesPaid
<1>6. \A c \in CardIds : Untagged(total[c], tagged[c])
  BY <1>1 DEF Untagged
<1> QED BY <1>3, <1>5, <1>6 DEF InventoryInv

LEMMA InventoryKeeps ==
  ASSUME InventoryInv, [InventoryNext]_(inventoryVars)
  PROVE  InventoryInv' /\ \A c \in CardIds : Follows(total[c], tagged[c], total'[c], tagged'[c])
<1>1. InventoryTypeOK /\ ExchangesPaid /\ \A c \in CardIds : Untagged(total[c], tagged[c])
  BY DEF InventoryInv
<1>2. total \in [CardIds -> Nat] /\ tagged \in [CardIds -> Amounts]
  BY <1>1, InventoryFacts
<1>3. ASSUME NEW c \in CardIds
      PROVE  /\ total'[c] \in Nat /\ tagged'[c] \in Amounts /\ Untagged(total'[c], tagged'[c])
             /\ Follows(total[c], tagged[c], total'[c], tagged'[c]) /\ Tables'
  <2>1. Tables' /\ Moves(total[c], tagged[c], total'[c], tagged'[c])
    BY <1>1, StepMoves
  <2>2. total[c] \in Nat /\ tagged[c] \in Amounts /\ Untagged(total[c], tagged[c])
    BY <1>1, <1>2
  <2> QED BY <2>1, <2>2, MovesFollow
<1>4. /\ sand' \in Nat /\ count' \in [{"skin", "frame"} -> Nat] /\ language' \in Languages
      /\ bought' \in [ShopTxs -> 0..MaxAmount] /\ ExchangesPaid'
  BY <1>1, StepPaid
<1>5. Tables'
  <2>1. Skinned \in CardIds
    BY InventoryAssumption
  <2> QED BY <1>3, <2>1
<1>6. total' \in [CardIds -> Nat] /\ tagged' \in [CardIds -> Amounts]
  BY <1>3, <1>5 DEF Tables
<1>7. InventoryTypeOK'
  BY <1>4, <1>6 DEF InventoryTypeOK, Exchanges, Amounts
<1>8. InventoryInv'
  BY <1>3, <1>4, <1>7 DEF InventoryInv
<1> QED BY <1>3, <1>8

LEMMA InventoryInvariant == InventorySpec => []InventoryInv
<1>1. InventoryInit => InventoryInv
  BY InventoryBegins
<1>2. InventoryInv /\ [InventoryNext]_(inventoryVars) => InventoryInv'
  BY InventoryKeeps
<1> QED BY <1>1, <1>2, PTL DEF InventorySpec

\* The variables keep their types; no copies, no sand and no counts are negative.
THEOREM InventoryTypes == InventorySpec => []InventoryTypeOK
<1>1. InventoryInv => InventoryTypeOK
  BY DEF InventoryInv
<1> QED BY <1>1, InventoryInvariant, PTL

\* (Inventory.ExchangesPaid) The sand that is gone was paid for exchanges and
\* purchases that are recorded, within the limit and in order.
THEOREM ExchangesArePaid == InventorySpec => []ExchangesPaid
<1>1. InventoryInv => ExchangesPaid
  BY DEF InventoryInv
<1> QED BY <1>1, InventoryInvariant, PTL

\* (Inventory.LanguagesAddUp) The copies that are shown by language are those
\* of the total, whatever happened to the two tables.
THEOREM ShownAddsUp == InventorySpec => []LanguagesAddUp
<1>1. InventoryInv => LanguagesAddUp
  <2> SUFFICES ASSUME InventoryInv, NEW c \in CardIds
               PROVE  /\ Sum(Shown(c), Languages) = total[c]
                      /\ \A l \in Languages : Shown(c)[l] >= 0
                      /\ total[c] = 0 => tagged[c] = NoTags
    BY DEF LanguagesAddUp
  <2>1. total[c] \in Nat /\ tagged[c] \in Amounts /\ Untagged(total[c], tagged[c])
    BY InventoryFacts DEF InventoryInv
  <2>2. Sum(Shown(c), Languages) = total[c]
    BY <2>1, NormalizedAddsUp DEF Shown
  <2>3. \A l \in Languages : Shown(c)[l] \in Nat
    BY <2>1, ShownType DEF Shown
  <2>4. \A l \in Languages : Shown(c)[l] >= 0
    BY <2>3
  <2> QED BY <2>1, <2>2, <2>4 DEF Untagged
<1> QED BY <1>1, InventoryInvariant, PTL

\* (Inventory.LanguagesFollowTotals) What is shown in a language never moves
\* against the total, and an edit shows what was typed.
THEOREM ShownFollowsTotals == InventorySpec => LanguagesFollowTotals
<1> DEFINE Step ==
  \A c \in CardIds :
    /\ total'[c] >= total[c] => \A l \in Languages : Shown(c)'[l] >= Shown(c)[l]
    /\ total'[c] <= total[c] => \A l \in Languages : Shown(c)'[l] <= Shown(c)[l]
    /\ \A l \in Languages, q \in 0..MaxEdit :
         SetCardLanguage(c, l, q) => Shown(c)' = [Shown(c) EXCEPT ![l] = q]
<1>1. ASSUME InventoryInv, [InventoryNext]_(inventoryVars) PROVE Step
  <2> SUFFICES ASSUME NEW c \in CardIds
               PROVE  /\ Follows(total[c], tagged[c], total'[c], tagged'[c])
                      /\ \A l \in Languages, q \in 0..MaxEdit :
                           SetCardLanguage(c, l, q) =>
                             Shown(c)' = [Shown(c) EXCEPT ![l] = q]
    BY DEF Follows, Shown
  <2>1. Follows(total[c], tagged[c], total'[c], tagged'[c])
    BY <1>1, InventoryKeeps
  <2>2. total[c] \in Nat /\ tagged[c] \in Amounts /\ total \in [CardIds -> Nat]
        /\ tagged \in [CardIds -> Amounts]
    BY <1>1, InventoryFacts DEF InventoryInv
  <2>3. ASSUME NEW l \in Languages, NEW q \in 0..MaxEdit, SetCardLanguage(c, l, q)
        PROVE  Shown(c)' = [Shown(c) EXCEPT ![l] = q]
    <3> DEFINE b == [Shown(c) EXCEPT ![l] = q]
    <3>1. Shown(c) \in Amounts
      BY <2>2, ShownType DEF Shown
    <3>2. q \in Nat
      <4>1. MaxEdit \in Nat
        BY InventoryAssumption
      <4> QED BY <4>1
    <3>3. b \in Amounts
      BY <3>1, <3>2 DEF Amounts
    <3>4. total'[c] = Sum(b, Languages) /\ tagged'[c] = b
      BY <2>2, <2>3 DEF SetCardLanguage
    <3>5. Shown(c)' = Normalized(tagged'[c], total'[c])
      BY DEF Shown
    <3> HIDE DEF b
    <3>6. Shown(c)' = b
      BY <3>3, <3>4, <3>5, NormalizedExact
    <3> QED BY <3>6 DEF b
  <2> QED BY <2>1, <2>3
<1> QED BY <1>1, InventoryInvariant, PTL DEF InventorySpec, LanguagesFollowTotals

=============================================================================
