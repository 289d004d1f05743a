-------------------------- MODULE ProgressionProofs --------------------------
(***************************************************************************)
(* Proofs about Social and Progression, for any players, cards, feed       *)
(* entries, requests, counters, rewards and bounds.                        *)
(***************************************************************************)
EXTENDS Progression, FiniteSetTheorems, WellFoundedInduction, TLAPS

-----------------------------------------------------------------------------
(* The maximum of a bounded set.                                           *)

LEMMA BoundedMax ==
  ASSUME NEW S, S \subseteq Int, S # {}, NEW b \in Int, \A x \in S : x <= b
  PROVE  Max(S) \in S /\ \A x \in S : x <= Max(S)
<1> DEFINE T == {b - x : x \in S}
<1>1. T \subseteq Nat /\ T # {}
  <2>1. \A x \in S : b - x \in Nat
    OBVIOUS
  <2> QED BY <2>1
<1>2. PICK t \in T : \A u \in T : ~(<<u, t>> \in OpToRel(<, Nat))
  BY <1>1, NatLessThanWellFounded, WFMin
<1>3. PICK m \in S : t = b - m
  BY <1>2
<1>4. \A x \in S : m >= x
  <2> SUFFICES ASSUME NEW x \in S, ~(m >= x) PROVE FALSE
    OBVIOUS
  <2>1. b - x \in T /\ b - x < t
    BY <1>3
  <2>2. <<b - x, t>> \in OpToRel(<, Nat)
    BY <2>1, <1>1, <1>2 DEF OpToRel
  <2> QED BY <2>1, <2>2, <1>2
<1>5. Max(S) \in S /\ \A x \in S : Max(S) >= x
  BY <1>4 DEF Max
<1> QED BY <1>5

LEMMA FewerThanOne ==
  ASSUME NEW S, IsFiniteSet(S), Cardinality(S) < 1
  PROVE  S = {}
BY FS_CardinalityType, FS_EmptySet

-----------------------------------------------------------------------------
(* Sums.                                                                   *)

Columns(f) == {{i} \X (1..f[i]) : i \in DOMAIN f}

LEMMA UnitsFinite ==
  ASSUME NEW S, IsFiniteSet(S), NEW f \in [S -> Nat]
  PROVE  IsFiniteSet(UNION Columns(f))
<1> DEFINE u == [i \in S |-> {i} \X (1..f[i])]
<1>1. u \in Surjection(S, Columns(f))
  BY DEF Surjection, Columns
<1>2. IsFiniteSet(Columns(f))
  BY <1>1, FS_Surjection
<1>3. ASSUME NEW T \in Columns(f) PROVE IsFiniteSet(T)
  <2>1. PICK i \in S : T = {i} \X (1..f[i])
    BY DEF Columns
  <2>2. 1 \in Int /\ f[i] \in Int
    OBVIOUS
  <2>3. IsFiniteSet({i}) /\ IsFiniteSet(1..f[i])
    BY <2>2, FS_Singleton, FS_Interval
  <2> QED BY <2>1, <2>3, FS_Product
<1> QED BY <1>2, <1>3, FS_UNION

LEMMA TotalIsNat ==
  ASSUME NEW S, IsFiniteSet(S), NEW f \in [S -> Nat]
  PROVE  Total(f) \in Nat
BY UnitsFinite, FS_CardinalityType DEF Total, Columns

\* h has the values of f and of g.
Splits(S, f, T, g, h) ==
  /\ IsFiniteSet(S) /\ IsFiniteSet(T) /\ S \cap T = {}
  /\ f \in [S -> Nat] /\ g \in [T -> Nat] /\ h \in [S \cup T -> Nat]
  /\ \A i \in S : h[i] = f[i]
  /\ \A i \in T : h[i] = g[i]

LEMMA TotalSplits ==
  ASSUME NEW S, NEW f, NEW T, NEW g, NEW h, Splits(S, f, T, g, h)
  PROVE  Total(h) = Total(f) + Total(g) /\ Total(f) \in Nat /\ Total(g) \in Nat
<1> DEFINE F == UNION Columns(f)
           G == UNION Columns(g)
<1> /\ IsFiniteSet(S) /\ IsFiniteSet(T) /\ S \cap T = {}
    /\ f \in [S -> Nat] /\ g \in [T -> Nat] /\ h \in [S \cup T -> Nat]
    /\ (\A i \in S : h[i] = f[i]) /\ (\A i \in T : h[i] = g[i])
  BY DEF Splits
<1>1. IsFiniteSet(F) /\ IsFiniteSet(G)
  BY UnitsFinite
<1>2. UNION Columns(h) = F \cup G
  <2>1. Columns(h) = Columns(f) \cup Columns(g)
    BY DEF Columns
  <2> QED BY <2>1
<1>3. F \cap G = {}
  <2>1. ASSUME NEW e \in F, e \in G PROVE FALSE
    <3>1. PICK i \in S : e \in {i} \X (1..f[i])
      BY <2>1 DEF Columns
    <3>2. PICK j \in T : e \in {j} \X (1..g[j])
      BY <2>1 DEF Columns
    <3>3. i = j
      BY <3>1, <3>2
    <3> QED BY <3>3
  <2> QED BY <2>1
<1>4. /\ Total(f) = Cardinality(F) /\ Total(g) = Cardinality(G)
      /\ Total(h) = Cardinality(UNION Columns(h))
  BY DEF Total, Columns
<1> HIDE DEF F, G
<1>5. /\ Cardinality(F \cup G) = Cardinality(F) + Cardinality(G) - Cardinality(F \cap G)
      /\ Cardinality(F) \in Nat /\ Cardinality(G) \in Nat
  BY <1>1, FS_Union, FS_CardinalityType
<1>6. Cardinality(F \cap G) = 0
  BY <1>3, FS_EmptySet
<1>7. Total(h) = Cardinality(F \cup G)
  BY <1>2, <1>4
<1> QED BY <1>4, <1>5, <1>6, <1>7

LEMMA TotalOfOne ==
  ASSUME NEW x, NEW f \in [{x} -> Nat]
  PROVE  Total(f) = f[x]
<1>1. f[x] \in Nat
  OBVIOUS
<1>2. /\ IsFiniteSet({x}) /\ Cardinality({x}) = 1
      /\ IsFiniteSet(1..f[x]) /\ Cardinality(1..f[x]) = f[x]
  <2>1. IsFiniteSet({x}) /\ Cardinality({x}) = 1
    BY FS_Singleton
  <2>2. \A n \in Nat : IsFiniteSet(1..n) /\ Cardinality(1..n) = n
    <3>1. ASSUME NEW n \in Nat PROVE IsFiniteSet(1..n) /\ Cardinality(1..n) = n
      <4>1. 1 \in Int /\ n \in Int
        OBVIOUS
      <4>2. /\ IsFiniteSet(1..n)
            /\ Cardinality(1..n) = IF 1 > n THEN 0 ELSE n - 1 + 1
        BY <4>1, FS_Interval
      <4> QED BY <4>2
    <3> QED BY <3>1
  <2> QED BY <1>1, <2>1, <2>2
<1>3. Cardinality({x} \X (1..f[x])) = Cardinality({x}) * Cardinality(1..f[x])
  BY <1>2, FS_Product
<1>4. UNION {{i} \X (1..f[i]) : i \in DOMAIN f} = {x} \X (1..f[x])
  OBVIOUS
<1>5. Total(f) = Cardinality({x} \X (1..f[x]))
  BY <1>4 DEF Total
<1> QED BY <1>1, <1>2, <1>3, <1>5

\* g has another value for x than f.
Changes(S, f, x, g) ==
  /\ IsFiniteSet(S) /\ x \in S /\ f \in [S -> Nat] /\ g \in [S -> Nat]
  /\ \A i \in S \ {x} : g[i] = f[i]

LEMMA TotalChanges ==
  ASSUME NEW S, NEW f, NEW x, NEW g, Changes(S, f, x, g)
  PROVE  Total(g) + f[x] = Total(f) + g[x]
<1> DEFINE T == S \ {x}
           rest == [i \in T |-> f[i]]
           old == [i \in {x} |-> f[x]]
           new == [i \in {x} |-> g[x]]
<1> /\ IsFiniteSet(S) /\ x \in S /\ f \in [S -> Nat] /\ g \in [S -> Nat]
    /\ \A i \in S \ {x} : g[i] = f[i]
  BY DEF Changes
<1>1. IsFiniteSet(T) /\ IsFiniteSet({x}) /\ T \cap {x} = {} /\ T \cup {x} = S
  BY FS_Subset, FS_Singleton
<1>2. f[x] \in Nat /\ g[x] \in Nat
  OBVIOUS
<1>3. /\ rest \in [T -> Nat] /\ old \in [{x} -> Nat] /\ new \in [{x} -> Nat]
      /\ old[x] = f[x] /\ new[x] = g[x]
      /\ \A i \in T : rest[i] = f[i]
  BY <1>2
<1>4. \A i \in T : rest[i] = g[i]
  BY <1>3
<1>5. f \in [T \cup {x} -> Nat] /\ g \in [T \cup {x} -> Nat]
  BY <1>1
<1> HIDE DEF T, rest, old, new
<1>6. Splits(T, rest, {x}, old, f) /\ Splits(T, rest, {x}, new, g)
  BY <1>1, <1>3, <1>4, <1>5 DEF Splits
<1>7. /\ Total(f) = Total(rest) + Total(old) /\ Total(g) = Total(rest) + Total(new)
      /\ Total(rest) \in Nat
  BY <1>6, TotalSplits
<1>8. Total(old) = f[x] /\ Total(new) = g[x]
  BY <1>3, TotalOfOne
<1> QED BY <1>2, <1>7, <1>8

LEMMA TotalOfZeros ==
  ASSUME NEW f, \A i \in DOMAIN f : f[i] = 0
  PROVE  Total(f) = 0
<1>1. UNION {{i} \X (1..f[i]) : i \in DOMAIN f} = {}
  OBVIOUS
<1> QED BY <1>1, FS_EmptySet DEF Total

\* g is one more than f in R.
Raises(S, f, R, g) ==
  /\ IsFiniteSet(S) /\ f \in [S -> Nat] /\ R \subseteq S /\ g \in [S -> Nat]
  /\ \A i \in S : g[i] = f[i] + (IF i \in R THEN 1 ELSE 0)

LEMMA TotalRaises ==
  ASSUME NEW S, NEW f, NEW R, NEW g, Raises(S, f, R, g)
  PROVE  Total(g) = Total(f) + Cardinality(R)
<1> DEFINE F == UNION Columns(f)
           top == [i \in R |-> <<i, f[i] + 1>>]
           N == {<<i, f[i] + 1>> : i \in R}
<1> /\ IsFiniteSet(S) /\ f \in [S -> Nat] /\ R \subseteq S /\ g \in [S -> Nat]
    /\ \A i \in S : g[i] = f[i] + (IF i \in R THEN 1 ELSE 0)
  BY DEF Raises
<1>1. IsFiniteSet(F) /\ IsFiniteSet(R)
  BY UnitsFinite, FS_Subset
<1>2. IsFiniteSet(N) /\ Cardinality(N) = Cardinality(R)
  <2>1. top \in Surjection(R, N)
    BY DEF Surjection
  <2>2. top \in Injection(R, N)
    BY <2>1 DEF Surjection, Injection, IsInjective
  <2> HIDE DEF top, N
  <2> QED BY <1>1, <2>1, <2>2, FS_Surjection
<1>3. UNION Columns(g) = F \cup N
  <2>1. ASSUME NEW e \in UNION Columns(g) PROVE e \in F \cup N
    <3>1. PICK i \in S : e \in {i} \X (1..g[i])
      BY <2>1 DEF Columns
    <3>2. PICK n \in 1..g[i] : e = <<i, n>>
      BY <3>1
    <3>3. CASE n \in 1..f[i]
      <4>1. e \in {i} \X (1..f[i])
        BY <3>2, <3>3
      <4> QED BY <4>1 DEF Columns
    <3>4. CASE n \notin 1..f[i]
      <4>1. f[i] \in Nat /\ g[i] \in Nat
        OBVIOUS
      <4>2. i \in R /\ n = f[i] + 1
        BY <3>2, <3>4, <4>1
      <4> QED BY <3>2, <4>2
    <3> QED BY <3>3, <3>4
  <2>2. ASSUME NEW e \in F PROVE e \in UNION Columns(g)
    <3>1. PICK i \in S : e \in {i} \X (1..f[i])
      BY <2>2 DEF Columns
    <3>2. f[i] \in Nat /\ g[i] \in Nat /\ f[i] <= g[i]
      OBVIOUS
    <3>3. e \in {i} \X (1..g[i])
      BY <3>1, <3>2
    <3> QED BY <3>3 DEF Columns
  <2>3. ASSUME NEW i \in R PROVE <<i, f[i] + 1>> \in UNION Columns(g)
    <3>1. f[i] \in Nat /\ g[i] = f[i] + 1
      OBVIOUS
    <3>2. <<i, f[i] + 1>> \in {i} \X (1..g[i])
      BY <3>1
    <3> QED BY <3>2 DEF Columns
  <2> QED BY <2>1, <2>2, <2>3
<1>4. F \cap N = {}
  <2>1. ASSUME NEW e \in F, e \in N PROVE FALSE
    <3>1. PICK i \in S : e \in {i} \X (1..f[i])
      BY <2>1 DEF Columns
    <3>2. PICK j \in R : e = <<j, f[j] + 1>>
      BY <2>1
    <3>3. i = j /\ f[j] + 1 \in 1..f[i] /\ f[j] \in Nat
      BY <3>1, <3>2
    <3> QED BY <3>3
  <2> QED BY <2>1
<1>5. /\ Total(f) = Cardinality(F) /\ Total(g) = Cardinality(UNION Columns(g))
  BY DEF Total, Columns
<1> HIDE DEF F, N
<1>6. /\ Cardinality(F \cup N) = Cardinality(F) + Cardinality(N) - Cardinality(F \cap N)
      /\ Cardinality(F) \in Nat /\ Cardinality(N) \in Nat
  BY <1>1, <1>2, FS_Union, FS_CardinalityType
<1>7. Cardinality(F \cap N) = 0
  BY <1>4, FS_EmptySet
<1>8. Total(g) = Cardinality(F \cup N)
  BY <1>3, <1>5
<1> QED BY <1>2, <1>5, <1>6, <1>7, <1>8

-----------------------------------------------------------------------------
(* Counts.                                                                 *)

\* Counts have a bound, so that a set of them has a highest.
CountsSound ==
  /\ \A x \in totals : x.count \in Nat /\ x.day \in Int /\ x.day <= GameDay
  /\ \E b \in Nat : \A x \in totals : x.count <= b

LEMMA HighestBounds ==
  ASSUME CountsSound, NEW rows, rows \subseteq totals
  PROVE  /\ Highest(rows) \in Nat
         /\ \A x \in rows : x.count <= Highest(rows)
         /\ Highest(rows) = 0 \/ \E x \in rows : Highest(rows) = x.count
<1> DEFINE S == {0} \cup {x.count : x \in rows}
<1>1. PICK b \in Nat : \A x \in totals : x.count <= b
  BY DEF CountsSound
<1>2. S \subseteq Nat /\ S # {} /\ \A n \in S : n <= b
  BY <1>1 DEF CountsSound
<1>3. (\A x \in rows : x.count \in S) /\ (\A n \in S : n = 0 \/ \E x \in rows : n = x.count)
  OBVIOUS
<1> HIDE DEF S
<1>4. S \subseteq Int /\ b \in Int
  BY <1>2
<1>5. Max(S) \in S /\ \A n \in S : n <= Max(S)
  BY <1>2, <1>4, BoundedMax, Zenon
<1>6. Highest(rows) = Max(S)
  BY DEF Highest, S
<1> QED BY <1>2, <1>3, <1>5, <1>6

LEMMA LatestBounds ==
  ASSUME CountsSound, NEW p, NEW c
  PROVE  /\ Latest(p, c) \in Nat /\ Highest(RowsOf(p, c)) \in Nat
         /\ Latest(p, c) <= Highest(RowsOf(p, c))
<1> DEFINE rows == RowsOf(p, c)
           last == {x \in rows : \A y \in rows : y.day <= x.day}
<1>1. rows \subseteq totals /\ last \subseteq totals /\ last \subseteq rows
  BY DEF RowsOf
<1>2. Latest(p, c) = Highest(last)
  BY DEF Latest
<1> HIDE DEF rows, last
<1>3. /\ Highest(rows) \in Nat /\ \A x \in rows : x.count <= Highest(rows)
      /\ Highest(last) \in Nat
      /\ Highest(last) = 0 \/ \E x \in last : Highest(last) = x.count
  BY <1>1, HighestBounds
<1> QED BY <1>1, <1>2, <1>3 DEF rows

-----------------------------------------------------------------------------
(* The requests that are being served.                                     *)

\* What a request carries of its player and its entry.
Sound(c) ==
  /\ "pc" \in DOMAIN c
  /\ c.pc \in {"store", "commit", "thank", "count", "cards", "read", "wins", "check", "complete",
               "level", "finish"} =>
       "player" \in DOMAIN c /\ c.player \in Players
  /\ c.pc \in {"store", "commit"} =>
       {"kind", "feed", "tx"} \subseteq DOMAIN c /\ (c.kind # "heal" => c.feed \in Feeds)
  /\ c.pc = "thank" => c.day \in Int
  /\ c.pc \in {"cards", "read", "wins", "check"} =>
       /\ {"count", "trophy", "rank"} \subseteq DOMAIN c /\ c.count \in Nat
       /\ c.trophy # None => c.trophy \in Trophies /\ c.rank \in Ranks
  /\ c.pc = "complete" => c.trophy \in Trophies /\ c.rank \in Ranks
  /\ c.pc = "level" => c.from \in Levels \cup {1} /\ c.target \in Levels \cup {1}
  /\ c.pc = "finish" => c.run \in Runs

CallsSound ==
  /\ DOMAIN call = Calls
  /\ \A r \in Calls : Sound(call[r])

\* A run that was not started is not won.
RunsSound ==
  battle \in [Runs -> [player : Players, battle : Battles, won : BOOLEAN, finished : BOOLEAN]
                      \cup [player : {None}, battle : {None}, won : {FALSE},
                            finished : BOOLEAN]]

Serving == mix \in Mixes /\ now \in Nat /\ CallsSound /\ RunsSound

\* What a step does to the requests, if it begins no thank; a level is read as
\* it is.
Sets(r, c) == call' = [call EXCEPT ![r] = c]
Fresh(c) == c.pc # "thank" /\ (c.pc = "level" => c.from = level[c.player])
Serves == UNCHANGED call \/ \E r \in Calls : \E c : Sound(c) /\ Fresh(c) /\ Sets(r, c)

LEMMA SetsSound ==
  ASSUME CallsSound, NEW r \in Calls, NEW c, Sound(c), Sets(r, c)
  PROVE  CallsSound' /\ \A i \in Calls : call'[i] = IF i = r THEN c ELSE call[i]
BY DEF CallsSound, Sound, Sets

LEMMA SetsServes ==
  ASSUME NEW r \in Calls, NEW c, Sound(c), Fresh(c), Sets(r, c)
  PROVE  Serves
BY DEF Serves

LEMMA NoCallServes == ASSUME NEW r \in Calls, Sets(r, NoCall) PROVE Serves
<1>1. Sound(NoCall) /\ Fresh(NoCall)
  BY DEF Sound, Fresh, NoCall
<1> QED BY <1>1, SetsServes

LEMMA CountServes ==
  ASSUME NEW r \in Calls, NEW p \in Players, NEW k, Sets(r, Count(p, k)) PROVE Serves
<1>1. Sound(Count(p, k)) /\ Fresh(Count(p, k))
  BY DEF Sound, Fresh, Count
<1> QED BY <1>1, SetsServes

LEMMA StoreServes ==
  ASSUME NEW r \in Calls, NEW p \in Players, NEW kind, NEW f, NEW i, NEW s, NEW b,
         kind # "heal" => f \in Feeds,
         Sets(r, [pc |-> "store", player |-> p, kind |-> kind, feed |-> f, tx |-> i,
                  state |-> s, insert |-> b])
  PROVE  Serves
<1> DEFINE c == [pc |-> "store", player |-> p, kind |-> kind, feed |-> f, tx |-> i,
                 state |-> s, insert |-> b]
<1>1. Sound(c) /\ Fresh(c)
  BY DEF Sound, Fresh
<1> QED BY <1>1, SetsServes

LEMMA MixedPlayers == ASSUME SocialAssumption, mix \in Mixes PROVE mix.players \subseteq Players
BY DEF SocialAssumption

LEMMA DayType == ASSUME SocialAssumption, now \in Nat PROVE GameDay \in Int
<1> DEFINE day == (now - DayReset) \div DayLength
<1>1. DayReset \in Nat
  BY DEF SocialAssumption
<1>2. DayLength \in Nat \ {0}
  BY DEF SocialAssumption
<1>3. day \in Int
  BY <1>1, <1>2
<1> QED BY <1>3 DEF GameDay

\* The requests of Social that begin.
LEMMA RequestServes ==
  ASSUME SocialAssumption, Serving, NEW kind \in mix.kinds, Request(kind)
  PROVE  \/ Serves
         \/ \E r \in Calls, p \in Players, q \in Players, route \in Routes :
              ReadThanks(r, p, q, route)
<1>0. mix.players \subseteq Players /\ Viewers \subseteq Players
  BY MixedPlayers DEF Serving, SocialAssumption
<1>1. CASE kind = "friend"
  <2>1. \/ UNCHANGED call
        \/ \E r \in Calls, p \in Players : Sets(r, Count(p, "friend"))
    BY <1>0, <1>1 DEF Request, SendFriendRequests, RemoveFriendRequests, DeleteFriends,
       ApproveFriendRequest, Begin, Sets
  <2> QED BY <2>1, CountServes DEF Serves
<1>2. CASE kind = "favorite"
  <2>1. PICK r \in Calls, p \in Players, q \in Players, add \in BOOLEAN :
          Sets(r, [pc |-> "favorite", player |-> p, friend |-> q, add |-> add])
    BY <1>0, <1>2 DEF Request, ReadFriendship, Begin, Sets
  <2>2. /\ Sound([pc |-> "favorite", player |-> p, friend |-> q, add |-> add])
        /\ Fresh([pc |-> "favorite", player |-> p, friend |-> q, add |-> add])
    BY DEF Sound, Fresh
  <2> QED BY <2>1, <2>2, SetsServes
<1>3. CASE kind = "gift"
  <2>1. \E r \in Calls, p \in Players : Sets(r, Count(p, "gift"))
    BY <1>0, <1>3 DEF Request, GiveCard, Begin, Sets
  <2> QED BY <2>1, CountServes
<1>4. CASE kind = "thank"
  BY <1>0, <1>4 DEF Request
<1>5. CASE kind = "feed"
  <2>1. CASE \E f \in Feeds : SharePackOpening(f)
    BY <2>1 DEF SharePackOpening, Serves
  <2>2. CASE \E f \in Feeds, r \in Calls, p \in Viewers, i \in Txs \cup {None},
               k \in {"snoop", "challenge"} : ReadChallengeState(r, p, k, f, i)
    <3>1. PICK f \in Feeds, r \in Calls, p \in Viewers, i \in Txs \cup {None},
               k \in {"snoop", "challenge"} : ReadChallengeState(r, p, k, f, i)
      BY <2>2
    <3> QED BY <1>0, <3>1, StoreServes DEF ReadChallengeState, Begin, Sets
  <2> QED BY <1>5, <2>1, <2>2 DEF Request
<1>6. CASE kind = "heal"
  <2>1. PICK r \in Calls, p \in Viewers : ReadChallengeState(r, p, "heal", None, None)
    BY <1>6 DEF Request
  <2> QED BY <1>0, <2>1, StoreServes DEF ReadChallengeState, Begin, Sets
<1>7. CASE kind = "cards"
  <2>1. \E r \in Calls, p \in Players : Sets(r, Count(p, "card"))
    BY <1>0, <1>7 DEF Request, OpenPack, Begin, Sets
  <2> QED BY <2>1, CountServes
<1> QED BY <1>1, <1>2, <1>3, <1>4, <1>5, <1>6, <1>7 DEF Request

\* Its later steps.
LEMMA SocialServes ==
  ASSUME Serving, NEW r \in Calls,
         \/ SetFriendFavorite(r) \/ InsertThank(r) \/ StoreChallengeState(r)
         \/ CommitSnoop(r) \/ CommitFeedChallenge(r) \/ CommitHeal(r) \/ CallEnds(r)
  PROVE  Serves
<1>0. Sound(call[r])
  BY DEF Serving, CallsSound
<1>1. CASE SetFriendFavorite(r) \/ CommitSnoop(r) \/ CommitHeal(r) \/ CallEnds(r)
  BY <1>1, NoCallServes DEF SetFriendFavorite, CommitSnoop, CommitHeal, CallEnds, Proceed, Sets
<1>2. CASE InsertThank(r) \/ CommitFeedChallenge(r)
  <2>1. call[r].player \in Players
    BY <1>0, <1>2 DEF InsertThank, CommitFeedChallenge, Sound
  <2>2. \E k : Sets(r, Count(call[r].player, k))
    BY <1>2 DEF InsertThank, CommitFeedChallenge, Proceed, Sets
  <2> QED BY <2>1, <2>2, CountServes
<1>3. CASE StoreChallengeState(r)
  <2>1. Sound([call[r] EXCEPT !.pc = "commit"]) /\ Fresh([call[r] EXCEPT !.pc = "commit"])
    BY <1>0, <1>3 DEF Sound, Fresh, StoreChallengeState
  <2> QED BY <1>3, <2>1, SetsServes DEF StoreChallengeState, Proceed, Sets
<1> QED BY <1>1, <1>2, <1>3

\* What requests read: cards, counts and levels.
Reading ==
  /\ owned \in [Players -> [Cards -> Nat]] /\ CountsSound
  /\ level \in [Players -> Levels \cup {1}]

LEMMA WinsAreNat ==
  ASSUME ProgressionAssumption, CountsSound, NEW p
  PROVE  Total([b \in Battles |-> Latest(p, b)]) \in Nat
<1> DEFINE f == [b \in Battles |-> Latest(p, b)]
<1>1. f \in [Battles -> Nat]
  BY LatestBounds
<1>2. IsFiniteSet(Battles)
  BY DEF ProgressionAssumption
<1> HIDE DEF f
<1>3. Total(f) \in Nat
  BY <1>1, <1>2, TotalIsNat
<1> QED BY <1>3 DEF f

LEMMA LevelBounds ==
  ASSUME ProgressionAssumption
  PROVE  /\ Levels = 2..(Cardinality(Levels) + 1) /\ Cardinality(Levels) \in Nat
         /\ \E b \in Int : \A l \in Levels \cup {1} : l \in Int /\ l <= b
<1>1. Levels = 2..(Cardinality(Levels) + 1) /\ Cardinality(Levels) \in Nat
  BY FS_CardinalityType DEF ProgressionAssumption
<1> DEFINE b == Cardinality(Levels) + 1
<1>2. b \in Int /\ b >= 1 /\ Levels = 2..b
  BY <1>1
<1> HIDE DEF b
<1>3. \A l \in Levels \cup {1} : l \in Int /\ l <= b
  BY <1>2
<1> QED BY <1>1, <1>2, <1>3

\* The steps of Progression.
LEMMA ProgressServes ==
  ASSUME SocialAssumption, ProgressionAssumption, Serving, Reading, ProgressStep
  PROVE  Serves /\ RunsSound'
<1>0. Viewers \subseteq Players
  BY DEF SocialAssumption
<1>1. ASSUME NEW r \in Calls,
             \/ AddAction(r) \/ ProjectCards(r) \/ ReadWins(r) \/ ProjectWins(r)
             \/ SyncStates(r) \/ CheckTrophy(r) \/ CompleteTrophies(r) \/ CommitLevelUp(r)
             \/ FinishSoloBattle(r)
      PROVE  Serves /\ RunsSound'
  <2>0. Sound(call[r])
    BY DEF Serving, CallsSound
  <2>1. CASE AddAction(r) \/ SyncStates(r) \/ CompleteTrophies(r) \/ CommitLevelUp(r)
    <3>1. Sets(r, NoCall) /\ UNCHANGED battle
      BY <2>1 DEF AddAction, SyncStates, CompleteTrophies, CommitLevelUp, Proceed, Sets
    <3> QED BY <3>1, NoCallServes DEF Serving, RunsSound
  <2>2. CASE ProjectCards(r) \/ ReadWins(r) \/ ProjectWins(r)
    <3>1. PICK c : /\ Sets(r, c) /\ UNCHANGED battle
                   /\ DOMAIN c = DOMAIN call[r] /\ c.player = call[r].player
                   /\ c.trophy = call[r].trophy /\ c.rank = call[r].rank
                   /\ c.pc \in {"read", "wins", "check"} /\ c.count \in Nat
      <4>0. {"pc", "player", "count", "trophy", "rank"} \subseteq DOMAIN call[r]
        BY <2>0, <2>2 DEF Sound, ProjectCards, ReadWins, ProjectWins
      <4>1. CASE ProjectCards(r)
        <5> DEFINE n == [call[r] EXCEPT !.pc = "read", !.count = 0]
        <5>1. Sets(r, n) /\ UNCHANGED battle
          BY <4>1 DEF ProjectCards, Proceed, Sets
        <5>2. /\ DOMAIN n = DOMAIN call[r] /\ n.player = call[r].player
              /\ n.trophy = call[r].trophy /\ n.rank = call[r].rank
          OBVIOUS
        <5>3. n.pc \in {"read", "wins", "check"} /\ n.count \in Nat
          BY <4>0
        <5> HIDE DEF n
        <5> QED BY <5>1, <5>2, <5>3
      <4>2. CASE ReadWins(r)
        <5> DEFINE wins == Total([b \in Battles |-> Latest(call[r].player, b)])
                   n == [call[r] EXCEPT !.pc = "wins", !.count = wins]
        <5>1. Sets(r, n) /\ UNCHANGED battle
          BY <4>2 DEF ReadWins, Proceed, Sets, progressVars
        <5>4. wins \in Nat
          BY WinsAreNat DEF Reading
        <5> HIDE DEF wins
        <5>2. /\ DOMAIN n = DOMAIN call[r] /\ n.player = call[r].player
              /\ n.trophy = call[r].trophy /\ n.rank = call[r].rank
          OBVIOUS
        <5>3. n.pc \in {"read", "wins", "check"} /\ n.count \in Nat
          BY <4>0, <5>4
        <5> HIDE DEF n
        <5> QED BY <5>1, <5>2, <5>3
      <4>3. CASE ProjectWins(r)
        <5> DEFINE n == [call[r] EXCEPT !.pc = "check", !.count = 0]
        <5>1. Sets(r, n) /\ UNCHANGED battle
          BY <4>3 DEF ProjectWins, Proceed, Sets
        <5>2. /\ DOMAIN n = DOMAIN call[r] /\ n.player = call[r].player
              /\ n.trophy = call[r].trophy /\ n.rank = call[r].rank
          OBVIOUS
        <5>3. n.pc \in {"read", "wins", "check"} /\ n.count \in Nat
          BY <4>0
        <5> HIDE DEF n
        <5> QED BY <5>1, <5>2, <5>3
      <4> QED BY <2>2, <4>1, <4>2, <4>3
    <3>2. Sound(c) /\ Fresh(c)
      BY <2>0, <2>2, <3>1 DEF Sound, Fresh, ProjectCards, ReadWins, ProjectWins
    <3> QED BY <3>1, <3>2, SetsServes DEF Serving, RunsSound
  <2>3. CASE CheckTrophy(r)
    <3> DEFINE c == [pc |-> "complete", player |-> call[r].player, trophy |-> call[r].trophy,
                     rank |-> call[r].rank]
    <3>1. Sets(r, c) /\ UNCHANGED battle
      BY <2>3 DEF CheckTrophy, Proceed, Sets, progressVars
    <3>2. call[r].player \in Players /\ call[r].trophy \in Trophies /\ call[r].rank \in Ranks
      BY <2>0, <2>3 DEF Sound, CheckTrophy
    <3>3. Sound(c) /\ Fresh(c)
      BY <3>2 DEF Sound, Fresh
    <3> QED BY <3>1, <3>3, SetsServes DEF Serving, RunsSound
  <2>4. CASE FinishSoloBattle(r)
    <3> DEFINE i == call[r].run
    <3>1. i \in Runs
      BY <2>0, <2>4 DEF Sound, FinishSoloBattle
    <3>2. RunsSound'
      <4> DEFINE Started == [player : Players, battle : Battles, won : BOOLEAN,
                             finished : BOOLEAN]
                 Unknown == [player : {None}, battle : {None}, won : {FALSE},
                             finished : BOOLEAN]
                 new == [battle[i] EXCEPT !.finished = TRUE]
      <4>1. battle \in [Runs -> Started \cup Unknown]
        BY DEF Serving, RunsSound
      <4>2. new \in Started \cup Unknown
        <5>1. CASE battle[i] \in Started
          BY <5>1
        <5>2. CASE battle[i] \in Unknown
          BY <5>2
        <5> QED BY <3>1, <4>1, <5>1, <5>2
      <4>3. battle' = [battle EXCEPT ![i] = new]
        BY <2>4 DEF FinishSoloBattle
      <4> HIDE DEF Started, Unknown, new
      <4>4. battle' \in [Runs -> Started \cup Unknown]
        BY <3>1, <4>1, <4>2, <4>3
      <4> QED BY <4>4 DEF RunsSound, Started, Unknown
    <3>3. battle[i].won => battle[i].player \in Players
      BY <3>1 DEF Serving, RunsSound
    <3>4. Serves
      BY <2>4, <3>3, NoCallServes, CountServes DEF FinishSoloBattle, Afterwards, Proceed, Sets
    <3> QED BY <3>2, <3>4
  <2> QED BY <1>1, <2>1, <2>2, <2>3, <2>4
<1>2. ASSUME NEW r \in Calls, NEW p \in Players,
             \/ ReadCards(r, p, None, None)
             \/ \E t \in Trophies, k \in Ranks : ReadCards(r, p, t, k)
             \/ ReadLevel(r, p)
      PROVE  Serves /\ RunsSound'
  <2>1. CASE \/ ReadCards(r, p, None, None)
             \/ \E t \in Trophies, k \in Ranks : ReadCards(r, p, t, k)
    <3> DEFINE c(t, k) == [pc |-> "cards", player |-> p, count |-> Total(owned[p]),
                           trophy |-> t, rank |-> k]
    <3>1. PICK t, k : /\ Sets(r, c(t, k)) /\ UNCHANGED battle
                      /\ t # None => t \in Trophies /\ k \in Ranks
      BY <2>1 DEF ReadCards, Begin, Sets, progressVars
    <3>2. Total(owned[p]) \in Nat
      BY TotalIsNat DEF Reading, SocialAssumption
    <3>3. Sound(c(t, k)) /\ Fresh(c(t, k))
      BY <3>1, <3>2 DEF Sound, Fresh
    <3> HIDE DEF c
    <3> QED BY <3>1, <3>3, SetsServes DEF Serving, RunsSound
  <2>2. CASE ReadLevel(r, p)
    <3> DEFINE S == {level[p]} \cup {l \in Levels : experience[p] >= RequiredExp[l]}
               c == [pc |-> "level", player |-> p, from |-> level[p], target |-> Max(S)]
    <3>1. Sets(r, c) /\ UNCHANGED battle
      BY <2>2 DEF ReadLevel, Begin, Sets, progressVars
    <3>2. level[p] \in Levels \cup {1} /\ Max(S) \in Levels \cup {1}
      <4>1. level[p] \in Levels \cup {1} /\ S \subseteq Levels \cup {1} /\ S # {}
        BY DEF Reading
      <4> HIDE DEF S
      <4>2. PICK b \in Int : \A l \in Levels \cup {1} : l \in Int /\ l <= b
        BY LevelBounds
      <4>3. S \subseteq Int /\ \A l \in S : l <= b
        BY <4>1, <4>2
      <4>4. Max(S) \in S
        BY <4>1, <4>3, BoundedMax, Zenon
      <4> QED BY <4>1, <4>4
    <3>3. Sound(c) /\ Fresh(c)
      BY <3>2 DEF Sound, Fresh
    <3> QED BY <3>1, <3>3, SetsServes DEF Serving, RunsSound
  <2> QED BY <1>2, <2>1, <2>2
<1>3. ASSUME NEW p \in Players,
             \/ \E ms : ClaimMissions(p, ms)
             \/ \E t : GrantTutorial(p, t)
             \/ \E i \in Runs, b \in Battles, won \in BOOLEAN : StartSoloBattle(p, i, b, won)
      PROVE  Serves /\ RunsSound'
  <2>1. UNCHANGED call
    BY <1>3 DEF ClaimMissions, GrantTutorial, StartSoloBattle
  <2>2. RunsSound'
    <3>1. CASE UNCHANGED battle
      BY <3>1 DEF Serving, RunsSound
    <3>2. CASE \E i \in Runs, b \in Battles, won \in BOOLEAN : StartSoloBattle(p, i, b, won)
      <4>1. PICK i \in Runs, b \in Battles, won \in BOOLEAN :
              battle' = [battle EXCEPT ![i] = [player |-> p, battle |-> b, won |-> won,
                                               finished |-> FALSE]]
        BY <3>2 DEF StartSoloBattle
      <4> QED BY <4>1 DEF Serving, RunsSound
    <3> QED BY <1>3, <3>1, <3>2 DEF ClaimMissions, GrantTutorial
  <2> QED BY <2>1, <2>2 DEF Serves
<1>4. ASSUME NEW r \in Calls, NEW i \in Runs, ReadRun(r, i)
      PROVE  Serves /\ RunsSound'
  <2>1. UNCHANGED battle /\ battle[i] # NoRun
    BY <1>4 DEF ReadRun, progressVars
  <2>2. /\ battle[i].won => battle[i].player \in Players
        /\ battle[i].won \in BOOLEAN
    BY DEF Serving, RunsSound
  <2>3. CASE battle[i].finished
    <3>1. call' = [call EXCEPT ![r] = Afterwards(i)]
      BY <1>4, <2>3 DEF ReadRun, Begin
    <3>2. ASSUME battle[i].won PROVE Serves
      BY <2>2, <3>1, <3>2, CountServes DEF Afterwards, Sets
    <3>3. ASSUME ~battle[i].won PROVE Serves
      BY <3>1, <3>3, NoCallServes DEF Afterwards, Sets
    <3> QED BY <2>1, <3>2, <3>3 DEF Serving, RunsSound
  <2>4. CASE ~battle[i].finished
    <3> DEFINE c == [pc |-> "finish", player |-> battle[i].player, run |-> i]
    <3>1. battle[i].player \in Players
      BY <2>1, <2>4 DEF Serving, RunsSound, NoRun
    <3>2. Sound(c) /\ Fresh(c)
      BY <3>1 DEF Sound, Fresh
    <3>3. Sets(r, c)
      BY <1>4, <2>4 DEF ReadRun, Begin, Sets
    <3> QED BY <2>1, <3>2, <3>3, SetsServes DEF Serving, RunsSound
  <2> QED BY <2>3, <2>4
<1> QED BY <1>0, <1>1, <1>2, <1>3, <1>4 DEF ProgressStep, Serving

LEMMA ServingKept ==
  ASSUME SocialAssumption, ProgressionAssumption, Serving, Reading, [Next]_vars
  PROVE  /\ Serving' /\ UNCHANGED mix /\ now' \in {now, now + 1}
         /\ \/ Serves
            \/ \E r \in Calls, p \in Players, q \in Players, route \in Routes :
                 ReadThanks(r, p, q, route)
<1>1. /\ UNCHANGED mix /\ now' \in {now, now + 1} /\ RunsSound'
      /\ \/ Serves
         \/ \E r \in Calls, p \in Players, q \in Players, route \in Routes :
              ReadThanks(r, p, q, route)
  <2>1. CASE SocialStep /\ UNCHANGED <<progressVars, now, mix>>
    BY <2>1, RequestServes, SocialServes DEF SocialStep, Serving, RunsSound, progressVars
  <2>2. CASE ProgressStep /\ UNCHANGED <<now, mix>>
    BY <2>2, ProgressServes
  <2>3. CASE Tick /\ UNCHANGED mix
    BY <2>3 DEF Tick, Serves, Serving, RunsSound, progressVars
  <2>4. CASE UNCHANGED vars
    BY <2>4 DEF vars, Serves, Serving, RunsSound, progressVars
  <2> QED BY <2>1, <2>2, <2>3, <2>4 DEF Next
<1>2. CallsSound'
  <2>1. CASE Serves
    BY <2>1, SetsSound DEF Serves, Serving, CallsSound, Sound
  <2>2. CASE \E r \in Calls, p \in Players, q \in Players, route \in Routes :
               ReadThanks(r, p, q, route)
    <3>1. PICK r \in Calls, p \in Players, q \in Players, route \in Routes :
            ReadThanks(r, p, q, route)
      BY <2>2
    <3>2. \/ Sets(r, Count(p, "thank"))
          \/ Sets(r, [pc |-> "thank", player |-> p, target |-> q, route |-> route,
                      day |-> GameDay])
      BY <3>1 DEF ReadThanks, Begin, Sets
    <3>3. Sound(Count(p, "thank"))
      BY DEF Sound, Count
    <3>4. Sound([pc |-> "thank", player |-> p, target |-> q, route |-> route, day |-> GameDay])
      BY DayType DEF Sound, Serving
    <3> QED BY <3>2, <3>3, <3>4, SetsSound DEF Serving
  <2> QED BY <1>1, <2>1, <2>2
<1> QED BY <1>1, <1>2 DEF Serving

-----------------------------------------------------------------------------
(* Which steps change what.                                                *)

FriendStep ==
  \E p \in Players, q \in Players :
    \/ SendFriendRequests(p, q) \/ RemoveFriendRequests(p, q) \/ DeleteFriends(p, q)
    \/ \E r \in Calls : ApproveFriendRequest(r, p, q)

CardStep ==
  \E r \in Calls :
    \/ \E p \in Players, q \in Players, c \in Cards : GiveCard(r, p, q, c)
    \/ \E p \in Players, c \in Cards : OpenPack(r, p, c)
    \/ CommitFeedChallenge(r)

FeedStep == \E r \in Calls : CommitSnoop(r) \/ CommitFeedChallenge(r)

CountStep == \E r \in Calls : AddAction(r) \/ ProjectCards(r) \/ ProjectWins(r) \/ SyncStates(r)

RewardStep ==
  \/ \E r \in Calls : CompleteTrophies(r) \/ CommitLevelUp(r)
  \/ \E p \in Players : \/ \E ms \in SUBSET Missions : ClaimMissions(p, ms)
                        \/ \E t \in Tutorials : GrantTutorial(p, t)

Steps ==
  /\ UNCHANGED <<friends, requests>> \/ FriendStep
  /\ UNCHANGED <<owned, gifts, opened, challenges>> \/ CardStep
  /\ UNCHANGED thanks \/ \E r \in Calls : InsertThank(r)
  /\ UNCHANGED <<snoop, challenges, paid>> \/ FeedStep
  /\ UNCHANGED countVars \/ (CountStep /\ UNCHANGED now)
  /\ UNCHANGED rewardVars \/ RewardStep

LEMMA NextSteps ==
  ASSUME SocialAssumption, mix \in Mixes, [Next]_vars
  PROVE  Steps
<1>0. mix.players \subseteq Players /\ Viewers \subseteq Players
  BY MixedPlayers DEF SocialAssumption
<1>1. ASSUME NEW kind \in mix.kinds, Request(kind), UNCHANGED progressVars PROVE Steps
  <2> USE DEF Steps, friendVars, giftVars, feedVars, progressVars
  <2>1. CASE kind = "friend"
    BY <1>0, <1>1, <2>1 DEF Request, FriendStep, SendFriendRequests, RemoveFriendRequests,
       DeleteFriends, ApproveFriendRequest
  <2>2. CASE kind \in {"favorite", "thank", "heal", "feed"}
    <3>1. UNCHANGED <<friends, requests, owned, gifts, opened, challenges, thanks, snoop, paid>>
      BY <1>1, <2>2 DEF Request, ReadFriendship, ReadThanks, ReadChallengeState,
         SharePackOpening, socialVars
    <3> QED BY <1>1, <3>1
  <2>3. CASE kind = "gift"
    BY <1>0, <1>1, <2>3 DEF Request, CardStep, GiveCard
  <2>4. CASE kind = "cards"
    BY <1>0, <1>1, <2>4 DEF Request, CardStep, OpenPack
  <2> QED BY <1>1, <2>1, <2>2, <2>3, <2>4 DEF Request
<1>2. ASSUME NEW r \in Calls, UNCHANGED progressVars,
             \/ SetFriendFavorite(r) \/ InsertThank(r) \/ StoreChallengeState(r)
             \/ CommitSnoop(r) \/ CommitFeedChallenge(r) \/ CommitHeal(r) \/ CallEnds(r)
      PROVE  Steps
  <2> USE DEF Steps, friendVars, giftVars, feedVars, progressVars
  <2>1. CASE SetFriendFavorite(r) \/ StoreChallengeState(r) \/ CommitHeal(r) \/ CallEnds(r)
    <3>1. UNCHANGED <<friends, requests, owned, gifts, opened, challenges, thanks, snoop, paid>>
      BY <2>1 DEF SetFriendFavorite, StoreChallengeState, CommitHeal, CallEnds, socialVars
    <3> QED BY <1>2, <3>1
  <2>2. CASE InsertThank(r)
    BY <1>2, <2>2 DEF InsertThank
  <2>3. CASE CommitSnoop(r)
    BY <1>2, <2>3 DEF CommitSnoop, TakePower, FeedStep
  <2>4. CASE CommitFeedChallenge(r)
    BY <1>2, <2>4 DEF CommitFeedChallenge, TakePower, FeedStep, CardStep
  <2> QED BY <1>2, <2>1, <2>2, <2>3, <2>4
<1>3. CASE ProgressStep /\ UNCHANGED now
  <2> USE DEF Steps, socialVars, friendVars, giftVars, feedVars, progressVars, rewardVars
  <2>1. UNCHANGED <<friends, requests, owned, gifts, opened, challenges, thanks, snoop, paid>>
    BY <1>3 DEF ProgressStep, AddAction, ProjectCards, ReadWins, ProjectWins, SyncStates,
       CheckTrophy, CompleteTrophies, CommitLevelUp, FinishSoloBattle, ReadCards, ReadLevel,
       ClaimMissions, GrantTutorial, StartSoloBattle, ReadRun
  <2>2. UNCHANGED countVars \/ CountStep
    BY <1>3 DEF ProgressStep, CountStep, ReadWins, CheckTrophy, CompleteTrophies,
       CommitLevelUp, FinishSoloBattle, ReadCards, ReadLevel, ClaimMissions, GrantTutorial,
       StartSoloBattle, ReadRun
  <2>3. UNCHANGED rewardVars \/ RewardStep
    <3>1. ASSUME NEW r \in Calls,
                 \/ AddAction(r) \/ ProjectCards(r) \/ ReadWins(r) \/ ProjectWins(r)
                 \/ SyncStates(r) \/ CheckTrophy(r) \/ FinishSoloBattle(r)
                 \/ \E p, t, k : ReadCards(r, p, t, k)
                 \/ \E p : ReadLevel(r, p)
                 \/ \E i : ReadRun(r, i)
          PROVE  UNCHANGED rewardVars
      BY <3>1 DEF AddAction, ProjectCards, ReadWins, ProjectWins, SyncStates, CheckTrophy,
         FinishSoloBattle, ReadCards, ReadLevel, ReadRun
    <3>2. ASSUME NEW p, NEW i, NEW b, NEW won, StartSoloBattle(p, i, b, won)
          PROVE  UNCHANGED rewardVars
      BY <3>2 DEF StartSoloBattle
    <3> HIDE DEF rewardVars
    <3> QED BY <1>0, <1>3, <3>1, <3>2 DEF ProgressStep, RewardStep
  <2> QED BY <1>3, <2>1, <2>2, <2>3
<1>4. CASE UNCHANGED <<socialVars, progressVars>>
  BY <1>4 DEF Steps, socialVars, friendVars, giftVars, feedVars, progressVars
<1> QED
  BY <1>1, <1>2, <1>3, <1>4 DEF Next, SocialStep, Tick, vars

-----------------------------------------------------------------------------
(* Friend requests.                                                        *)

LEMMA RequestsPendingStep ==
  ASSUME RequestsPending, UNCHANGED <<friends, requests>> \/ FriendStep
  PROVE  RequestsPending'
<1>1. CASE UNCHANGED <<friends, requests>>
  BY <1>1 DEF RequestsPending
<1>2. CASE FriendStep
  <2>1. PICK p \in Players, q \in Players :
          \/ SendFriendRequests(p, q) \/ RemoveFriendRequests(p, q) \/ DeleteFriends(p, q)
          \/ \E r \in Calls : ApproveFriendRequest(r, p, q)
    BY <1>2 DEF FriendStep
  <2> SUFFICES ASSUME NEW a \in Players, NEW b \in Players, <<a, b>> \in requests'
               PROVE  a # b /\ <<b, a>> \notin requests' /\ {a, b} \notin friends'
    BY DEF RequestsPending
  <2>2. CASE SendFriendRequests(p, q)
    <3>1. CASE <<q, p>> \in requests
      <4>1. requests' = requests \ {<<q, p>>} /\ friends' = friends \cup {{p, q}}
        BY <2>2, <3>1 DEF SendFriendRequests, Befriend
      <4>2. a # b /\ <<b, a>> \notin requests /\ {a, b} \notin friends /\ <<a, b>> # <<q, p>>
        BY <4>1 DEF RequestsPending
      <4>3. {a, b} # {p, q}
        BY <3>1, <4>1, <4>2 DEF RequestsPending
      <4> QED BY <4>1, <4>2, <4>3
    <3>2. CASE <<q, p>> \notin requests
      <4>1. /\ requests' = requests \cup {<<p, q>>} /\ friends' = friends
            /\ p # q /\ {p, q} \notin friends
        BY <2>2, <3>2 DEF SendFriendRequests
      <4>2. CASE <<a, b>> \in requests
        BY <3>2, <4>1, <4>2 DEF RequestsPending
      <4>3. CASE a = p /\ b = q
        BY <3>2, <4>1, <4>3
      <4> QED BY <4>1, <4>2, <4>3
    <3> QED BY <3>1, <3>2
  <2>3. CASE \E r \in Calls : ApproveFriendRequest(r, p, q)
    BY <2>3 DEF RequestsPending, ApproveFriendRequest, Befriend
  <2>4. CASE RemoveFriendRequests(p, q)
    BY <2>4 DEF RequestsPending, RemoveFriendRequests
  <2>5. CASE DeleteFriends(p, q)
    BY <2>5 DEF RequestsPending, DeleteFriends
  <2> QED BY <2>1, <2>2, <2>3, <2>4, <2>5
<1> QED BY <1>1, <1>2

-----------------------------------------------------------------------------
(* Thanks.                                                                 *)

SentOn(p, d) == {t \in thanks : t.from = p /\ t.day = d}
Waiting(p, d) == {r \in Calls : call[r].pc = "thank" /\ call[r].player = p /\ call[r].day = d}

\* The thanks of a player and day, with those that are about to be inserted.
ThanksCounted ==
  /\ IsFiniteSet(thanks)
  /\ \A t \in thanks : t.from \in Players /\ t.day \in Int
  /\ \A p \in Players, d \in Int :
       SentOn(p, d) # {} \/ Waiting(p, d) # {} =>
         Cardinality(SentOn(p, d)) + Cardinality(Waiting(p, d))
           <= ThankLimit + Cardinality(Calls) - 1

LEMMA CountedTypes ==
  ASSUME SocialAssumption, IsFiniteSet(thanks), NEW p, NEW d
  PROVE  /\ IsFiniteSet(SentOn(p, d)) /\ Cardinality(SentOn(p, d)) \in Nat
         /\ IsFiniteSet(Waiting(p, d)) /\ Cardinality(Waiting(p, d)) \in Nat
         /\ Cardinality(Waiting(p, d)) <= Cardinality(Calls)
         /\ Cardinality(Calls) \in Nat /\ ThankLimit \in Nat /\ IsFiniteSet(Calls)
<1>1. IsFiniteSet(Calls) /\ ThankLimit \in Nat
  BY DEF SocialAssumption
<1>2. SentOn(p, d) \subseteq thanks /\ Waiting(p, d) \subseteq Calls
  BY DEF SentOn, Waiting
<1>3. /\ IsFiniteSet(SentOn(p, d)) /\ IsFiniteSet(Waiting(p, d))
      /\ Cardinality(Waiting(p, d)) <= Cardinality(Calls)
  BY <1>1, <1>2, FS_Subset
<1> QED BY <1>1, <1>3, FS_CardinalityType

LEMMA ThanksCountedStep ==
  ASSUME SocialAssumption, ProgressionAssumption, Serving, Reading, [Next]_vars, ThanksCounted
  PROVE  ThanksCounted'
<1>0. /\ IsFiniteSet(thanks) /\ \A t \in thanks : t.from \in Players /\ t.day \in Int
      /\ UNCHANGED thanks \/ \E r \in Calls : InsertThank(r)
      /\ DOMAIN call = Calls
  BY NextSteps DEF ThanksCounted, Serving, CallsSound, Steps
<1>1. ASSUME NEW r \in Calls, InsertThank(r) PROVE ThanksCounted'
  <2> DEFINE c == call[r]
             row == Thanked(c.player, c.target, c.route, c.day)
  <2>1. /\ c.pc = "thank" /\ row \notin thanks /\ thanks' = thanks \cup {row}
        /\ call' = [call EXCEPT ![r] = Count(c.player, "thank")]
    BY <1>1 DEF InsertThank, Proceed
  <2>2. c.player \in Players /\ c.day \in Int
    BY <2>1 DEF Serving, CallsSound, Sound
  <2>3. row.from = c.player /\ row.day = c.day
    BY DEF Thanked
  <2> HIDE DEF row
  <2>4. IsFiniteSet(thanks') /\ \A t \in thanks' : t.from \in Players /\ t.day \in Int
    BY <1>0, <2>1, <2>2, <2>3, FS_AddElement
  <2>5. ASSUME NEW p \in Players, NEW d \in Int, SentOn(p, d)' # {} \/ Waiting(p, d)' # {}
        PROVE  Cardinality(SentOn(p, d)') + Cardinality(Waiting(p, d)')
                 <= ThankLimit + Cardinality(Calls) - 1
    <3>0. \A i \in Calls : call'[i] = IF i = r THEN Count(c.player, "thank") ELSE call[i]
      BY <1>0, <2>1
    <3>1. CASE p = c.player /\ d = c.day
      <4>1. SentOn(p, d)' = SentOn(p, d) \cup {row} /\ row \notin SentOn(p, d)
        BY <2>1, <2>3, <3>1 DEF SentOn
      <4>2. Waiting(p, d)' = Waiting(p, d) \ {r} /\ r \in Waiting(p, d)
        BY <2>1, <3>0, <3>1 DEF Waiting, Count
      <4>3. /\ Cardinality(SentOn(p, d)') = Cardinality(SentOn(p, d)) + 1
            /\ Cardinality(Waiting(p, d)') = Cardinality(Waiting(p, d)) - 1
        <5>1. /\ IsFiniteSet(SentOn(p, d)) /\ IsFiniteSet(Waiting(p, d))
              /\ Cardinality(SentOn(p, d)) \in Nat /\ Cardinality(Waiting(p, d)) \in Nat
          BY <1>0, CountedTypes
        <5>2. Cardinality(SentOn(p, d) \cup {row}) = Cardinality(SentOn(p, d)) + 1
          BY <4>1, <5>1, FS_AddElement
        <5>3. Cardinality(Waiting(p, d) \ {r}) = Cardinality(Waiting(p, d)) - 1
          <6> DEFINE W == Waiting(p, d)
          <6>1. r \in W /\ IsFiniteSet(W)
            BY <4>2, <5>1
          <6> HIDE DEF W
          <6>2. Cardinality(W \ {r}) = Cardinality(W) - 1
            BY <6>1, FS_RemoveElement
          <6> QED BY <6>2 DEF W
        <5> QED BY <4>1, <4>2, <5>2, <5>3
      <4>4. Cardinality(SentOn(p, d)) + Cardinality(Waiting(p, d))
              <= ThankLimit + Cardinality(Calls) - 1
        BY <4>2 DEF ThanksCounted
      <4>5. Cardinality(SentOn(p, d)) \in Nat /\ Cardinality(Waiting(p, d)) \in Nat
        BY <1>0, CountedTypes
      <4> QED BY <4>3, <4>4, <4>5
    <3>2. CASE ~(p = c.player /\ d = c.day)
      <4>1. SentOn(p, d)' = SentOn(p, d)
        BY <2>1, <2>3, <3>2 DEF SentOn
      <4>2. Waiting(p, d)' = Waiting(p, d)
        BY <2>1, <3>0, <3>2 DEF Waiting, Count
      <4> QED BY <2>5, <4>1, <4>2 DEF ThanksCounted
    <3> QED BY <3>1, <3>2
  <2> QED BY <2>4, <2>5 DEF ThanksCounted
<1>2. ASSUME UNCHANGED thanks, Serves PROVE ThanksCounted'
  <2>1. ASSUME NEW p \in Players, NEW d \in Int, SentOn(p, d)' # {} \/ Waiting(p, d)' # {}
        PROVE  Cardinality(SentOn(p, d)') + Cardinality(Waiting(p, d)')
                 <= ThankLimit + Cardinality(Calls) - 1
    <3>1. SentOn(p, d)' = SentOn(p, d)
      BY <1>2 DEF SentOn
    <3>2. Waiting(p, d)' \subseteq Waiting(p, d)
      <4>1. CASE UNCHANGED call
        BY <4>1 DEF Waiting
      <4>2. CASE \E r \in Calls : \E c : Sound(c) /\ Fresh(c) /\ Sets(r, c)
        BY <1>0, <4>2 DEF Waiting, Sets, Fresh
      <4> QED BY <1>2, <4>1, <4>2 DEF Serves
    <3>3. Cardinality(Waiting(p, d)') <= Cardinality(Waiting(p, d))
          /\ Cardinality(Waiting(p, d)') \in Nat
      BY <1>0, <3>2, CountedTypes, FS_Subset, FS_CardinalityType
    <3>4. Cardinality(SentOn(p, d)) + Cardinality(Waiting(p, d))
            <= ThankLimit + Cardinality(Calls) - 1
      BY <2>1, <3>1, <3>2 DEF ThanksCounted
    <3> QED BY <1>0, <3>1, <3>3, <3>4, CountedTypes
  <2> QED BY <1>0, <1>2, <2>1 DEF ThanksCounted
<1>3. ASSUME UNCHANGED thanks, NEW r \in Calls, NEW q \in Players, NEW to \in Players,
             NEW route \in Routes, ReadThanks(r, q, to, route)
      PROVE  ThanksCounted'
  <2>1. CASE Sets(r, Count(q, "thank"))
    <3>1. Sound(Count(q, "thank")) /\ Fresh(Count(q, "thank"))
      BY DEF Sound, Fresh, Count
    <3> QED BY <1>2, <1>3, <2>1, <3>1, SetsServes
  <2>2. CASE /\ SentToday(q, route) < ThankLimit
             /\ Sets(r, [pc |-> "thank", player |-> q, target |-> to, route |-> route,
                         day |-> GameDay])
    <3> DEFINE c == [pc |-> "thank", player |-> q, target |-> to, route |-> route,
                     day |-> GameDay]
    <3>0. \A i \in Calls : call'[i] = IF i = r THEN c ELSE call[i]
      BY <1>0, <2>2 DEF Sets
    <3>1. ASSUME NEW p \in Players, NEW d \in Int, SentOn(p, d)' # {} \/ Waiting(p, d)' # {}
          PROVE  Cardinality(SentOn(p, d)') + Cardinality(Waiting(p, d)')
                   <= ThankLimit + Cardinality(Calls) - 1
      <4>1. SentOn(p, d)' = SentOn(p, d)
        BY <1>3 DEF SentOn
      <4>2. CASE p = q /\ d = GameDay
        <5>1. SentToday(q, route) = Cardinality(SentOn(p, d))
          BY <4>2 DEF SentToday, SentOn
        <5>2. Waiting(p, d)' \subseteq Calls
          BY DEF Waiting
        <5>3. Cardinality(Waiting(p, d)') <= Cardinality(Calls)
              /\ Cardinality(Waiting(p, d)') \in Nat
          BY <1>0, <5>2, CountedTypes, FS_Subset, FS_CardinalityType
        <5> QED BY <1>0, <2>2, <4>1, <5>1, <5>3, CountedTypes
      <4>3. CASE ~(p = q /\ d = GameDay)
        <5>1. Waiting(p, d)' \subseteq Waiting(p, d)
          <6>1. c.player = q /\ c.day = GameDay
            OBVIOUS
          <6> HIDE DEF c
          <6> QED BY <3>0, <4>3, <6>1 DEF Waiting
        <5>2. Cardinality(Waiting(p, d)') <= Cardinality(Waiting(p, d))
              /\ Cardinality(Waiting(p, d)') \in Nat
          BY <1>0, <5>1, CountedTypes, FS_Subset, FS_CardinalityType
        <5>3. Cardinality(SentOn(p, d)) + Cardinality(Waiting(p, d))
                <= ThankLimit + Cardinality(Calls) - 1
          BY <3>1, <4>1, <5>1 DEF ThanksCounted
        <5> QED BY <1>0, <4>1, <5>2, <5>3, CountedTypes
      <4> QED BY <4>2, <4>3
    <3> QED BY <1>0, <1>3, <3>1 DEF ThanksCounted
  <2> QED BY <1>3, <2>1, <2>2 DEF ReadThanks, Begin, Sets
<1> QED BY <1>0, <1>1, <1>2, <1>3, ServingKept

LEMMA CountedBounds ==
  ASSUME SocialAssumption, ThanksCounted
  PROVE  ThanksBounded
<1> SUFFICES ASSUME NEW p \in Players, NEW t \in thanks
             PROVE  Cardinality({u \in thanks : u.from = p /\ u.day = t.day})
                      <= ThankLimit + Cardinality(Calls) - 1
  BY DEF ThanksBounded
<1>1. t.from \in Players /\ t.day \in Int /\ IsFiniteSet(thanks)
  BY DEF ThanksCounted
<1>2. SentOn(t.from, t.day) # {}
  BY DEF SentOn
<1>3. Cardinality(SentOn(t.from, t.day)) >= 1
  BY <1>1, <1>2, CountedTypes, FS_EmptySet
<1>4. ThankLimit + Cardinality(Calls) - 1 >= 1
  <2>1. Cardinality(SentOn(t.from, t.day)) + Cardinality(Waiting(t.from, t.day))
          <= ThankLimit + Cardinality(Calls) - 1
    BY <1>1, <1>2 DEF ThanksCounted
  <2>2. /\ Cardinality(SentOn(t.from, t.day)) \in Nat
        /\ Cardinality(Waiting(t.from, t.day)) \in Nat
        /\ Cardinality(Calls) \in Nat /\ ThankLimit \in Nat
    BY <1>1, CountedTypes
  <2> QED BY <1>3, <2>1, <2>2
<1>5. CASE SentOn(p, t.day) = {}
  <2>1. Cardinality(SentOn(p, t.day)) = 0
    BY <1>5, FS_EmptySet
  <2>2. Cardinality(Calls) \in Nat /\ ThankLimit \in Nat
    BY <1>1, CountedTypes
  <2>3. Cardinality(SentOn(p, t.day)) <= ThankLimit + Cardinality(Calls) - 1
    BY <1>4, <2>1, <2>2
  <2> QED BY <2>3 DEF SentOn
<1>6. CASE SentOn(p, t.day) # {}
  <2>1. Cardinality(SentOn(p, t.day)) + Cardinality(Waiting(p, t.day))
          <= ThankLimit + Cardinality(Calls) - 1
    BY <1>1, <1>6 DEF ThanksCounted
  <2>2. Cardinality(SentOn(p, t.day)) <= ThankLimit + Cardinality(Calls) - 1
    BY <1>1, <2>1, CountedTypes
  <2> QED BY <2>2 DEF SentOn
<1> QED BY <1>5, <1>6

-----------------------------------------------------------------------------
(* The feed.                                                               *)

LEMMA CostBounds ==
  ASSUME SocialAssumption, NEW p \in Players, NEW f \in Feeds
  PROVE  /\ SnoopCost(f) \in Nat /\ Price[Drawn[p][f]] \in Nat
         /\ Price[Drawn[p][f]] <= SnoopCost(f)
<1> DEFINE S == {Price[c] : c \in Shown[f]}
<1>1. /\ PowerLimit \in Nat /\ Price \in [Cards -> 1..PowerLimit]
      /\ Shown[f] \subseteq Cards /\ Drawn[p][f] \in Shown[f]
  BY DEF SocialAssumption
<1>2. S \subseteq 1..PowerLimit /\ Price[Drawn[p][f]] \in S
  BY <1>1
<1>3. S \subseteq Int /\ S \subseteq Nat /\ S # {} /\ \A x \in S : x <= PowerLimit
  BY <1>1, <1>2
<1> HIDE DEF S
<1>4. Max(S) \in S /\ \A x \in S : x <= Max(S)
  <2>1. PowerLimit \in Int
    BY <1>1
  <2> QED BY <1>3, <2>1, BoundedMax, Zenon
<1>5. Max(S) \in Nat /\ Price[Drawn[p][f]] \in Nat
  BY <1>2, <1>3, <1>4
<1>6. Price[Drawn[p][f]] <= Max(S)
  BY <1>2, <1>4
<1> QED BY <1>5, <1>6 DEF SnoopCost, S

\* What FeedPaidOnce says, of one challenge at most.
FeedPaid ==
  /\ snoop \in [Players -> Feeds \cup {None}]
  /\ paid \in [Players -> [Feeds -> Nat]]
  /\ \A x, y \in challenges : x.player = y.player /\ x.feed = y.feed => x = y
  /\ \A p \in Players, f \in Feeds :
       /\ Challenged(p, f) => snoop[p] # f /\ paid[p][f] >= Price[Drawn[p][f]]
       /\ snoop[p] = f => paid[p][f] = SnoopCost(f)
       /\ ~Challenged(p, f) /\ snoop[p] # f => paid[p][f] = 0
       /\ paid[p][f] <= SnoopCost(f)

LEMMA FeedPaidStep ==
  ASSUME SocialAssumption, Serving, FeedPaid,
         UNCHANGED <<snoop, challenges, paid>> \/ FeedStep
  PROVE  FeedPaid'
<1>0. None \notin Feeds
  BY DEF SocialAssumption
<1>1. CASE UNCHANGED <<snoop, challenges, paid>>
  BY <1>1 DEF FeedPaid, Challenged, SnoopCost
<1>2. ASSUME NEW r \in Calls, CommitSnoop(r) PROVE FeedPaid'
  <2> DEFINE p == call[r].player
             f == call[r].feed
  <2>1. p \in Players /\ f \in Feeds
    BY <1>2 DEF Serving, CallsSound, Sound, CommitSnoop
  <2>2. /\ snoop[p] = None /\ ~Challenged(p, f)
        /\ snoop' = [snoop EXCEPT ![p] = f] /\ UNCHANGED challenges
        /\ paid' = [paid EXCEPT ![p][f] = @ + SnoopCost(f)]
    BY <1>2 DEF CommitSnoop, TakePower
  <2> HIDE DEF p, f
  <2>3. paid[p][f] = 0 /\ SnoopCost(f) \in Nat
    BY <1>0, <2>1, <2>2, CostBounds DEF FeedPaid
  <2>4. /\ snoop' \in [Players -> Feeds \cup {None}]
        /\ paid' \in [Players -> [Feeds -> Nat]]
        /\ paid'[p][f] = SnoopCost(f)
    BY <2>1, <2>2, <2>3 DEF FeedPaid
  <2>5. ASSUME NEW q \in Players, NEW g \in Feeds
        PROVE  /\ Challenged(q, g)' => snoop'[q] # g /\ paid'[q][g] >= Price[Drawn[q][g]]
               /\ snoop'[q] = g => paid'[q][g] = SnoopCost(g)
               /\ ~Challenged(q, g)' /\ snoop'[q] # g => paid'[q][g] = 0
               /\ paid'[q][g] <= SnoopCost(g)
    <3>1. Challenged(q, g)' = Challenged(q, g)
      BY <2>2 DEF Challenged
    <3>2. CASE q = p /\ g = f
      BY <2>1, <2>2, <2>3, <2>4, <3>1, <3>2 DEF FeedPaid
    <3>3. CASE q = p /\ g # f
      <4>1. snoop'[q] = f /\ snoop[q] = None /\ paid'[q][g] = paid[q][g]
        BY <2>1, <2>2, <3>3 DEF FeedPaid
      <4> QED BY <1>0, <3>1, <3>3, <4>1 DEF FeedPaid
    <3>4. CASE q # p
      <4>1. snoop'[q] = snoop[q] /\ paid'[q][g] = paid[q][g]
        BY <2>1, <2>2, <3>4 DEF FeedPaid
      <4> QED BY <3>1, <4>1 DEF FeedPaid
    <3> QED BY <3>2, <3>3, <3>4
  <2> QED BY <2>2, <2>4, <2>5 DEF FeedPaid, SnoopCost
<1>3. ASSUME NEW r \in Calls, CommitFeedChallenge(r) PROVE FeedPaid'
  <2> DEFINE p == call[r].player
             f == call[r].feed
             x == [player |-> p, feed |-> f, tx |-> call[r].tx]
  <2>1. p \in Players /\ f \in Feeds
    BY <1>3 DEF Serving, CallsSound, Sound, CommitFeedChallenge
  <2>2. /\ \A y \in challenges : y.player = p => y.feed # f
        /\ challenges' = challenges \cup {x}
        /\ snoop' = [snoop EXCEPT ![p] = IF @ = f THEN None ELSE @]
        /\ paid' = [paid EXCEPT ![p][f] = @ + Charged(p, f)]
    BY <1>3 DEF CommitFeedChallenge, TakePower
  <2>3. x.player = p /\ x.feed = f
    OBVIOUS
  <2> HIDE DEF p, f, x
  <2>4. ~Challenged(p, f)
    BY <2>2 DEF Challenged
  <2>5. \A q, g : Challenged(q, g)' <=> Challenged(q, g) \/ (q = p /\ g = f)
    BY <2>2, <2>3 DEF Challenged
  <2>6. Charged(p, f) \in Nat /\ SnoopCost(f) \in Nat
    BY <2>1, CostBounds DEF Charged
  <2>7. /\ paid[p][f] + Charged(p, f) >= Price[Drawn[p][f]]
        /\ paid[p][f] + Charged(p, f) <= SnoopCost(f)
    <3>1. CASE snoop[p] = f
      BY <2>1, <3>1, CostBounds DEF FeedPaid, Charged
    <3>2. CASE snoop[p] # f
      BY <2>1, <2>4, <3>2, CostBounds DEF FeedPaid, Charged
    <3> QED BY <3>1, <3>2
  <2>8. /\ snoop' \in [Players -> Feeds \cup {None}]
        /\ paid' \in [Players -> [Feeds -> Nat]]
        /\ paid'[p][f] = paid[p][f] + Charged(p, f)
    BY <2>1, <2>2, <2>6 DEF FeedPaid
  <2>9. ASSUME NEW q \in Players, NEW g \in Feeds
        PROVE  /\ Challenged(q, g)' => snoop'[q] # g /\ paid'[q][g] >= Price[Drawn[q][g]]
               /\ snoop'[q] = g => paid'[q][g] = SnoopCost(g)
               /\ ~Challenged(q, g)' /\ snoop'[q] # g => paid'[q][g] = 0
               /\ paid'[q][g] <= SnoopCost(g)
    <3>1. CASE q = p /\ g = f
      <4>1. snoop'[p] # f
        BY <1>0, <2>1, <2>2 DEF FeedPaid
      <4> QED BY <2>5, <2>7, <2>8, <3>1, <4>1
    <3>2. CASE ~(q = p /\ g = f)
      <4>1. paid'[q][g] = paid[q][g] /\ (Challenged(q, g)' <=> Challenged(q, g))
        BY <2>1, <2>2, <2>5, <3>2 DEF FeedPaid
      <4>2. snoop'[q] = g <=> snoop[q] = g
        BY <1>0, <2>1, <2>2, <3>2 DEF FeedPaid
      <4> QED BY <4>1, <4>2 DEF FeedPaid
    <3> QED BY <3>1, <3>2
  <2>10. \A y, z \in challenges' : y.player = z.player /\ y.feed = z.feed => y = z
    BY <2>2, <2>3 DEF FeedPaid
  <2> QED BY <2>8, <2>9, <2>10 DEF FeedPaid, SnoopCost
<1> QED BY <1>1, <1>2, <1>3 DEF FeedStep

LEMMA FeedPaidOnceFollows ==
  ASSUME FeedPaid
  PROVE  FeedPaidOnce
<1> SUFFICES ASSUME NEW p \in Players, NEW f \in Feeds
             PROVE  LET rows == {x \in challenges : x.player = p /\ x.feed = f}
                    IN /\ Cardinality(rows) <= 1
                       /\ rows # {} => snoop[p] # f /\ paid[p][f] >= Price[Drawn[p][f]]
                       /\ snoop[p] = f => paid[p][f] = SnoopCost(f)
                       /\ rows = {} /\ snoop[p] # f => paid[p][f] = 0
                       /\ paid[p][f] <= SnoopCost(f)
  BY DEF FeedPaidOnce
<1> DEFINE rows == {x \in challenges : x.player = p /\ x.feed = f}
<1>1. Challenged(p, f) <=> rows # {}
  BY DEF Challenged
<1>2. Cardinality(rows) <= 1
  <2>1. CASE rows = {}
    BY <2>1, FS_EmptySet
  <2>2. CASE rows # {}
    <3>0. PICK x \in rows : TRUE
      BY <2>2
    <3>1. rows = {x}
      BY <3>0 DEF FeedPaid
    <3>2. Cardinality({x}) = 1
      BY FS_Singleton
    <3> QED BY <3>1, <3>2
  <2> QED BY <2>1, <2>2
<1> QED BY <1>1, <1>2 DEF FeedPaid

-----------------------------------------------------------------------------
(* Cards.                                                                  *)

Given(p, c) == {g \in gifts : g.from = p /\ g.card = c}
Received(p, c) == {g \in gifts : g.to = p /\ g.card = c}
Won(p, c) == {x \in challenges : x.player = p /\ Drawn[p][x.feed] = c}

CardsCounted ==
  /\ IsFiniteSet(gifts) /\ IsFiniteSet(challenges)
  /\ owned \in [Players -> [Cards -> Nat]] /\ opened \in [Players -> [Cards -> Nat]]
  /\ CardsAccounted

LEMMA CardTypes ==
  ASSUME IsFiniteSet(gifts), IsFiniteSet(challenges), NEW p, NEW c
  PROVE  /\ IsFiniteSet(Given(p, c)) /\ Cardinality(Given(p, c)) \in Nat
         /\ IsFiniteSet(Received(p, c)) /\ Cardinality(Received(p, c)) \in Nat
         /\ IsFiniteSet(Won(p, c)) /\ Cardinality(Won(p, c)) \in Nat
<1>1. Given(p, c) \subseteq gifts /\ Received(p, c) \subseteq gifts /\ Won(p, c) \subseteq challenges
  BY DEF Given, Received, Won
<1>2. IsFiniteSet(Given(p, c)) /\ IsFiniteSet(Received(p, c)) /\ IsFiniteSet(Won(p, c))
  BY <1>1, FS_Subset
<1> QED BY <1>2, FS_CardinalityType

\* CardsAccounted for the numbers of one card of one player.
Balance(own, gave, pulled, got, challenged) ==
  own + gave = Copies + pulled + got + challenged /\ (Copies > 0 => own > 0)

LEMMA BalanceMoves ==
  ASSUME SocialAssumption, NEW own \in Nat, NEW gave \in Nat, NEW pulled \in Nat,
         NEW got \in Nat, NEW challenged \in Nat,
         Balance(own, gave, pulled, got, challenged)
  PROVE  /\ own >= 2 => Balance(own - 1, gave + 1, pulled, got, challenged)
         /\ Balance(own + 1, gave, pulled, got + 1, challenged)
         /\ Balance(own + 1, gave, pulled + 1, got, challenged)
         /\ Balance(own + 1, gave, pulled, got, challenged + 1)
<1>1. Copies \in Nat
  BY DEF SocialAssumption
<1> QED BY <1>1 DEF Balance

Balanced(p, c) ==
  Balance(owned[p][c], Cardinality(Given(p, c)), opened[p][c], Cardinality(Received(p, c)),
          Cardinality(Won(p, c)))

BalancedNext(p, c) ==
  Balance(owned'[p][c], Cardinality(Given(p, c)'), opened'[p][c], Cardinality(Received(p, c)'),
          Cardinality(Won(p, c)'))

LEMMA AccountedIsBalanced ==
  /\ CardsAccounted <=> \A p \in Players, c \in Cards : Balanced(p, c)
  /\ CardsAccounted' <=> \A p \in Players, c \in Cards : BalancedNext(p, c)
BY DEF CardsAccounted, Balanced, BalancedNext, Balance, Given, Received, Won

LEMMA CardsStep ==
  ASSUME SocialAssumption, Serving, CardsCounted,
         UNCHANGED <<owned, gifts, opened, challenges>> \/ CardStep
  PROVE  CardsCounted'
<1>0. /\ IsFiniteSet(gifts) /\ IsFiniteSet(challenges) /\ Copies \in Nat
      /\ owned \in [Players -> [Cards -> Nat]] /\ opened \in [Players -> [Cards -> Nat]]
      /\ \A p \in Players, c \in Cards : Balanced(p, c)
  BY AccountedIsBalanced DEF CardsCounted, SocialAssumption
<1>1. CASE UNCHANGED <<owned, gifts, opened, challenges>>
  <2>1. ASSUME NEW a \in Players, NEW k \in Cards PROVE BalancedNext(a, k)
    <3>1. /\ Given(a, k)' = Given(a, k) /\ Received(a, k)' = Received(a, k)
          /\ Won(a, k)' = Won(a, k)
      BY <1>1 DEF Given, Received, Won
    <3> QED BY <1>0, <1>1, <3>1 DEF Balanced, BalancedNext
  <2>2. CardsAccounted'
    BY <2>1, AccountedIsBalanced
  <2> QED BY <1>0, <1>1, <2>2 DEF CardsCounted
<1>2. ASSUME NEW r \in Calls, NEW p \in Players, NEW q \in Players, NEW c \in Cards,
             GiveCard(r, p, q, c)
      PROVE  CardsCounted'
  <2> DEFINE new == [from |-> p, to |-> q, card |-> c, day |-> GameDay]
             Before == {g \in GiftsToday : g.from = p /\ g.to = q}
  <2>1. /\ p # q /\ owned[p][c] >= 2 /\ Cardinality(Before) < 1
        /\ owned' = [owned EXCEPT ![p][c] = @ - 1, ![q][c] = @ + 1]
        /\ gifts' = gifts \cup {new} /\ UNCHANGED <<opened, challenges>>
    BY <1>2 DEF GiveCard, GiftsPerFriend, giftVars, feedVars
  <2>2. new \notin gifts
    <3>1. Before \subseteq gifts
      BY DEF GiftsToday
    <3>2. Before = {}
      BY <1>0, <2>1, <3>1, FS_Subset, FewerThanOne
    <3>3. new \in gifts => new \in Before
      BY DEF GiftsToday
    <3> QED BY <3>2, <3>3
  <2>3. new.from = p /\ new.to = q /\ new.card = c
    OBVIOUS
  <2> HIDE DEF new
  <2>4. IsFiniteSet(gifts')
    BY <1>0, <2>1, FS_AddElement
  <2>5. owned' \in [Players -> [Cards -> Nat]]
    <3> DEFINE one == [owned EXCEPT ![p][c] = @ - 1]
    <3>1. one \in [Players -> [Cards -> Nat]]
      BY <1>0, <2>1
    <3>2. owned' = [one EXCEPT ![q][c] = @ + 1]
      BY <2>1
    <3> HIDE DEF one
    <3> QED BY <3>1, <3>2
  <2>6. ASSUME NEW a \in Players, NEW k \in Cards PROVE BalancedNext(a, k)
    <3> DEFINE g == Cardinality(Given(a, k))
               v == Cardinality(Received(a, k))
               w == Cardinality(Won(a, k))
    <3>0. /\ g \in Nat /\ v \in Nat /\ w \in Nat
          /\ IsFiniteSet(Given(a, k)) /\ IsFiniteSet(Received(a, k))
      BY <1>0, CardTypes
    <3>1. Won(a, k)' = Won(a, k)
      BY <2>1 DEF Won
    <3>2. CASE k = c /\ a = p
      <4>1. Given(a, k)' = Given(a, k) \cup {new} /\ new \notin Given(a, k)
        BY <2>1, <2>2, <2>3, <3>2 DEF Given
      <4>2. Received(a, k)' = Received(a, k)
        BY <2>1, <2>3, <3>2 DEF Received
      <4>3. Cardinality(Given(a, k) \cup {new}) = g + 1
        BY <3>0, <4>1, FS_AddElement
      <4>4. owned'[a][k] = owned[a][k] - 1 /\ owned[a][k] >= 2 /\ owned[a][k] \in Nat
        BY <1>0, <2>1, <3>2
      <4>5. opened[a][k] \in Nat
        BY <1>0
      <4>6. Balance(owned[a][k], g, opened[a][k], v, w)
        BY <1>0 DEF Balanced
      <4>7. Balance(owned[a][k] - 1, g + 1, opened[a][k], v, w)
        BY <3>0, <4>4, <4>5, <4>6, BalanceMoves
      <4> QED BY <2>1, <3>1, <4>1, <4>2, <4>3, <4>4, <4>7 DEF BalancedNext
    <3>3. CASE k = c /\ a = q
      <4>1. Received(a, k)' = Received(a, k) \cup {new} /\ new \notin Received(a, k)
        BY <2>1, <2>2, <2>3, <3>3 DEF Received
      <4>2. Given(a, k)' = Given(a, k)
        BY <2>1, <2>3, <3>3 DEF Given
      <4>3. Cardinality(Received(a, k) \cup {new}) = v + 1
        BY <3>0, <4>1, FS_AddElement
      <4>4. owned'[a][k] = owned[a][k] + 1 /\ owned[a][k] \in Nat
        BY <1>0, <2>1, <3>3
      <4>5. opened[a][k] \in Nat
        BY <1>0
      <4>6. Balance(owned[a][k], g, opened[a][k], v, w)
        BY <1>0 DEF Balanced
      <4>7. Balance(owned[a][k] + 1, g, opened[a][k], v + 1, w)
        BY <3>0, <4>4, <4>5, <4>6, BalanceMoves
      <4> QED BY <2>1, <3>1, <4>1, <4>2, <4>3, <4>4, <4>7 DEF BalancedNext
    <3>4. CASE ~(k = c /\ (a = p \/ a = q))
      <4>1. Given(a, k)' = Given(a, k) /\ Received(a, k)' = Received(a, k)
        BY <2>1, <2>3, <3>4 DEF Given, Received
      <4>2. owned'[a][k] = owned[a][k]
        BY <1>0, <2>1, <3>4
      <4> QED BY <1>0, <2>1, <3>1, <4>1, <4>2 DEF Balanced, BalancedNext
    <3> QED BY <3>2, <3>3, <3>4
  <2>7. CardsAccounted'
    BY <2>6, AccountedIsBalanced
  <2> QED BY <1>0, <2>1, <2>4, <2>5, <2>7 DEF CardsCounted
<1>3. ASSUME NEW r \in Calls, NEW p \in Players, NEW c \in Cards, OpenPack(r, p, c)
      PROVE  CardsCounted'
  <2>1. /\ opened' = [opened EXCEPT ![p][c] = @ + 1]
        /\ owned' = [owned EXCEPT ![p][c] = @ + 1] /\ UNCHANGED <<gifts, challenges>>
    BY <1>3 DEF OpenPack
  <2>2. owned' \in [Players -> [Cards -> Nat]] /\ opened' \in [Players -> [Cards -> Nat]]
    BY <1>0, <2>1
  <2>3. ASSUME NEW a \in Players, NEW k \in Cards PROVE BalancedNext(a, k)
    <3>1. /\ Given(a, k)' = Given(a, k) /\ Received(a, k)' = Received(a, k)
          /\ Won(a, k)' = Won(a, k)
      BY <2>1 DEF Given, Received, Won
    <3>2. \/ owned'[a][k] = owned[a][k] /\ opened'[a][k] = opened[a][k]
          \/ owned'[a][k] = owned[a][k] + 1 /\ opened'[a][k] = opened[a][k] + 1
      BY <1>0, <2>1
    <3>3. /\ Cardinality(Given(a, k)) \in Nat /\ Cardinality(Received(a, k)) \in Nat
          /\ Cardinality(Won(a, k)) \in Nat /\ owned[a][k] \in Nat /\ opened[a][k] \in Nat
      BY <1>0, CardTypes
    <3>4. Balanced(a, k)
      BY <1>0
    <3>5. CASE owned'[a][k] = owned[a][k] /\ opened'[a][k] = opened[a][k]
      BY <3>1, <3>4, <3>5 DEF Balanced, BalancedNext
    <3>6. CASE owned'[a][k] = owned[a][k] + 1 /\ opened'[a][k] = opened[a][k] + 1
      <4>1. Balance(owned[a][k] + 1, Cardinality(Given(a, k)), opened[a][k] + 1,
                    Cardinality(Received(a, k)), Cardinality(Won(a, k)))
        BY <3>3, <3>4, BalanceMoves DEF Balanced
      <4> QED BY <3>1, <3>6, <4>1 DEF BalancedNext
    <3> QED BY <3>2, <3>5, <3>6
  <2>4. CardsAccounted'
    BY <2>3, AccountedIsBalanced
  <2> QED BY <1>0, <2>1, <2>2, <2>4 DEF CardsCounted
<1>4. ASSUME NEW r \in Calls, CommitFeedChallenge(r) PROVE CardsCounted'
  <2> DEFINE p == call[r].player
             f == call[r].feed
             x == [player |-> p, feed |-> f, tx |-> call[r].tx]
  <2>1. p \in Players /\ f \in Feeds
    BY <1>4 DEF Serving, CallsSound, Sound, CommitFeedChallenge
  <2>2. /\ \A y \in challenges : y.player = p => y.feed # f
        /\ challenges' = challenges \cup {x}
        /\ owned' = [owned EXCEPT ![p][Drawn[p][f]] = @ + 1]
        /\ UNCHANGED <<gifts, opened>>
    BY <1>4 DEF CommitFeedChallenge, giftVars
  <2>3. x.player = p /\ x.feed = f
    OBVIOUS
  <2> HIDE DEF p, f, x
  <2>4. Drawn[p][f] \in Cards /\ x \notin challenges
    BY <2>1, <2>2, <2>3 DEF SocialAssumption
  <2>5. owned' \in [Players -> [Cards -> Nat]] /\ IsFiniteSet(challenges')
    BY <1>0, <2>1, <2>2, <2>4, FS_AddElement
  <2>6. ASSUME NEW a \in Players, NEW k \in Cards PROVE BalancedNext(a, k)
    <3>0. /\ Cardinality(Given(a, k)) \in Nat /\ Cardinality(Received(a, k)) \in Nat
          /\ Cardinality(Won(a, k)) \in Nat /\ IsFiniteSet(Won(a, k))
          /\ owned[a][k] \in Nat /\ opened[a][k] \in Nat
      BY <1>0, CardTypes
    <3>1. Given(a, k)' = Given(a, k) /\ Received(a, k)' = Received(a, k)
      BY <2>2 DEF Given, Received
    <3>2. CASE a = p /\ k = Drawn[p][f]
      <4>1. Won(a, k)' = Won(a, k) \cup {x} /\ x \notin Won(a, k)
        BY <2>2, <2>3, <2>4, <3>2 DEF Won
      <4>2. Cardinality(Won(a, k) \cup {x}) = Cardinality(Won(a, k)) + 1
        BY <3>0, <4>1, FS_AddElement
      <4>3. owned'[a][k] = owned[a][k] + 1
        BY <1>0, <2>1, <2>2, <3>2
      <4> QED BY <1>0, <2>2, <3>0, <3>1, <4>1, <4>2, <4>3, BalanceMoves DEF Balanced, BalancedNext
    <3>3. CASE ~(a = p /\ k = Drawn[p][f])
      <4>1. Won(a, k)' = Won(a, k)
        BY <2>2, <2>3, <3>3 DEF Won
      <4>2. owned'[a][k] = owned[a][k]
        BY <1>0, <2>1, <2>2, <3>3
      <4> QED BY <1>0, <2>2, <3>1, <4>1, <4>2 DEF Balanced, BalancedNext
    <3> QED BY <3>2, <3>3
  <2>7. CardsAccounted'
    BY <2>6, AccountedIsBalanced
  <2> QED BY <1>0, <2>2, <2>5, <2>7 DEF CardsCounted
<1> QED BY <1>1, <1>2, <1>3, <1>4 DEF CardStep

-----------------------------------------------------------------------------
(* Synchronisation.                                                        *)

\* Rows are of the past and unique, and the client knows no later time.
RowsSound ==
  /\ \A x \in totals : x.player \in Players /\ x.at \in Nat /\ x.at <= now
  /\ \A x, y \in totals : <<x.player, x.key, x.day>> = <<y.player, y.key, y.day>> => x = y
  /\ marks \in [Players -> SUBSET Nat]
  /\ \A p \in Players : \A m \in marks[p] : m <= now

LEMMA MarkBounds ==
  ASSUME now \in Nat, RowsSound, NEW p \in Players
  PROVE  /\ Mark(p) \in {-1} \cup marks[p] /\ Mark(p) \in Int /\ Mark(p) <= now
         /\ \A m \in marks[p] : m <= Mark(p)
<1> DEFINE S == {-1} \cup marks[p]
<1>1. S \subseteq Int /\ S # {} /\ now \in Int /\ \A x \in S : x <= now
  BY DEF RowsSound
<1>2. marks[p] \subseteq S
  OBVIOUS
<1> HIDE DEF S
<1>3. Max(S) \in S /\ \A x \in S : x <= Max(S)
  BY <1>1, BoundedMax, Zenon
<1>4. Max(S) \in Int /\ Max(S) <= now
  BY <1>1, <1>3
<1> QED BY <1>2, <1>3, <1>4 DEF Mark, S

LEMMA SetTotalSound ==
  ASSUME Serving, RowsSound, SyncSkipsNothing, NEW p \in Players, NEW k, NEW n,
         SetTotal(p, k, n), UNCHANGED <<seen, marks, now>>
  PROVE  RowsSound' /\ SyncSkipsNothing'
<1> DEFINE row == [player |-> p, key |-> k, day |-> GameDay, count |-> n, at |-> now]
<1>1. /\ totals' = (totals \ Today(p, k)) \cup {row} /\ now \in Nat
      /\ \A x \in totals : x.player = p /\ x.key = k /\ x.day = GameDay => x \in Today(p, k)
  BY DEF SetTotal, Serving, Today, RowsOf
<1>2. row.player = p /\ row.key = k /\ row.day = GameDay /\ row.at = now
  OBVIOUS
<1> HIDE DEF row
<1>3. \A x \in totals' : x.player \in Players /\ x.at \in Nat /\ x.at <= now
  BY <1>1, <1>2 DEF RowsSound
<1>4. \A x, y \in totals' : <<x.player, x.key, x.day>> = <<y.player, y.key, y.day>> => x = y
  BY <1>1, <1>2 DEF RowsSound
<1>5. row.at > Mark(p) \/ row.at \in marks[p]
  BY <1>1, <1>2, MarkBounds
<1>6. SyncSkipsNothing'
  BY <1>1, <1>2, <1>5 DEF SyncSkipsNothing, Mark
<1> QED BY <1>3, <1>4, <1>6 DEF RowsSound

LEMMA SyncStatesSound ==
  ASSUME Serving, RowsSound, SyncSkipsNothing, NEW r \in Calls, SyncStates(r), UNCHANGED now
  PROVE  RowsSound' /\ SyncSkipsNothing'
<1> DEFINE p == call[r].player
           rows == {x \in totals : x.player = p /\ x.at > Mark(p)}
           known == {x \in seen : \E y \in rows :
                       <<x.player, x.key, x.day>> = <<y.player, y.key, y.day>>}
           given == IF rows = {} THEN {} ELSE {Max({x.at : x \in rows})}
<1>1. p \in Players /\ now \in Nat
  BY DEF Serving, CallsSound, Sound, SyncStates
<1>2. /\ seen' = (seen \ known) \cup rows /\ UNCHANGED totals
      /\ marks' = [marks EXCEPT ![p] = @ \cup given]
  BY DEF SyncStates
<1>3. given \subseteq Nat /\ \A m \in given : m <= now
  <2> DEFINE S == {x.at : x \in rows}
  <2>1. S \subseteq Int /\ S \subseteq Nat /\ now \in Int /\ \A m \in S : m <= now
    BY <1>1 DEF RowsSound
  <2>2. CASE rows = {}
    BY <2>2
  <2>3. CASE rows # {}
    <3>1. S # {}
      BY <2>3
    <3> HIDE DEF S
    <3>2. Max(S) \in S
      BY <2>1, <3>1, BoundedMax, Zenon
    <3>3. Max(S) \in Nat /\ Max(S) <= now
      BY <2>1, <3>2
    <3> QED BY <2>3, <3>3 DEF S
  <2> QED BY <2>2, <2>3
<1> HIDE DEF given
<1>4. /\ marks' \in [Players -> SUBSET Nat]
      /\ \A q \in Players : marks[q] \subseteq marks'[q] /\ (q # p => marks'[q] = marks[q])
      /\ \A q \in Players : \A m \in marks'[q] : m <= now
  BY <1>1, <1>2, <1>3 DEF RowsSound
<1>5. RowsSound'
  BY <1>2, <1>4 DEF RowsSound
<1>6. ASSUME NEW x \in totals, x \notin seen'
      PROVE  x.at > Mark(x.player)' \/ x.at \in marks'[x.player]
  <2>1. x.player \in Players /\ x.at \in Nat
    BY DEF RowsSound
  <2>2. x \notin rows
    BY <1>2, <1>6
  <2>3. x \notin seen
    <3>1. x \notin known
      BY <2>2 DEF RowsSound
    <3> QED BY <1>2, <1>6, <3>1
  <2>4. x.at > Mark(x.player) \/ x.at \in marks[x.player]
    BY <2>3 DEF SyncSkipsNothing
  <2>5. CASE x.player = p
    BY <1>4, <2>1, <2>2, <2>4, <2>5
  <2>6. CASE x.player # p
    BY <1>4, <2>1, <2>4, <2>6 DEF Mark
  <2> QED BY <2>5, <2>6
<1>7. SyncSkipsNothing'
  BY <1>2, <1>6 DEF SyncSkipsNothing
<1> QED BY <1>5, <1>7

LEMMA SyncStep ==
  ASSUME Serving, RowsSound, SyncSkipsNothing, now' \in {now, now + 1},
         UNCHANGED countVars \/ (CountStep /\ UNCHANGED now)
  PROVE  RowsSound' /\ SyncSkipsNothing'
<1>1. CASE UNCHANGED countVars
  <2>1. now \in Nat /\ UNCHANGED <<totals, seen, marks>>
    BY <1>1 DEF Serving, countVars
  <2>2. RowsSound'
    BY <2>1 DEF RowsSound
  <2>3. SyncSkipsNothing'
    BY <2>1 DEF SyncSkipsNothing, Mark
  <2> QED BY <2>2, <2>3
<1>2. ASSUME NEW r \in Calls, AddAction(r) \/ ProjectCards(r) \/ ProjectWins(r), UNCHANGED now
      PROVE  RowsSound' /\ SyncSkipsNothing'
  <2>1. call[r].player \in Players
    BY <1>2 DEF Serving, CallsSound, Sound, AddAction, ProjectCards, ProjectWins
  <2>2. UNCHANGED <<seen, marks, now>>
    BY <1>2 DEF AddAction, ProjectCards, ProjectWins
  <2>3. UNCHANGED totals \/ \E k, n : SetTotal(call[r].player, k, n)
    BY <1>2 DEF AddAction, ProjectCards, ProjectWins, Project
  <2>4. CASE UNCHANGED totals
    BY <1>1, <2>2, <2>4 DEF countVars
  <2> QED BY <2>1, <2>2, <2>3, <2>4, SetTotalSound
<1>3. ASSUME NEW r \in Calls, SyncStates(r), UNCHANGED now
      PROVE  RowsSound' /\ SyncSkipsNothing'
  BY <1>3, SyncStatesSound
<1> QED BY <1>1, <1>2, <1>3 DEF CountStep

-----------------------------------------------------------------------------
(* Totals.                                                                 *)

LEMMA DaysAscend ==
  ASSUME SocialAssumption, now \in Nat, now' \in {now, now + 1}
  PROVE  GameDay \in Int /\ GameDay' \in Int /\ GameDay <= GameDay'
<1> DEFINE a == now - DayReset
           n == DayLength
<1>1. a \in Int /\ n \in Nat \ {0} /\ now' - DayReset \in {a, a + 1}
  <2>1. DayReset \in Nat
    BY DEF SocialAssumption
  <2>2. DayLength \in Nat \ {0}
    BY DEF SocialAssumption
  <2>3. a \in Int
    BY <2>1
  <2>4. now' - DayReset \in {a, a + 1}
    <3>1. CASE now' = now
      BY <3>1
    <3>2. CASE now' = now + 1
      <4>1. (now + 1) - DayReset = (now - DayReset) + 1
        BY <2>1
      <4> QED BY <3>2, <4>1
    <3> QED BY <3>1, <3>2
  <2> QED BY <2>2, <2>3, <2>4
<1>2. GameDay = a \div n /\ GameDay' \in {a \div n, (a + 1) \div n}
  BY <1>1 DEF GameDay
<1> HIDE DEF a, n
<1>3. ASSUME NEW c \in Int
      PROVE  c \div n \in Int /\ c % n \in 0..(n - 1) /\ c = n * (c \div n) + (c % n)
  BY <1>1
<1> DEFINE x == a \div n
           y == (a + 1) \div n
<1>4. /\ x \in Int /\ a % n \in 0..(n - 1) /\ a = n * x + (a % n)
      /\ y \in Int /\ (a + 1) % n \in 0..(n - 1) /\ a + 1 = n * y + ((a + 1) % n)
  BY <1>1, <1>3
<1> HIDE DEF x, y
<1>5. n * y + n > n * x
  <2> DEFINE u == n * x
             v == n * y
             i == a % n
             j == (a + 1) % n
  <2>1. /\ u \in Int /\ i \in 0..(n - 1) /\ a = u + i
        /\ v \in Int /\ j \in 0..(n - 1) /\ a + 1 = v + j
    BY <1>1, <1>4
  <2> HIDE DEF u, v, i, j
  <2>2. v + n > u
    BY <1>1, <2>1
  <2> QED BY <2>2 DEF u, v
<1>6. x <= y
  <2> SUFFICES ASSUME y + 1 <= x PROVE FALSE
    BY <1>4
  <2>1. n * (y + 1) <= n * x
    BY <1>1, <1>4
  <2> QED BY <1>1, <1>4, <1>5, <2>1
<1> QED BY <1>1, <1>2, <1>4, <1>6 DEF x, y

\* The total that is set on a day is the latest one.
LEMMA SetTotalKeeps ==
  ASSUME CountsSound, GameDay \in Int, UNCHANGED now, NEW p, NEW k, NEW n \in Nat,
         n >= Latest(p, k), SetTotal(p, k, n)
  PROVE  CountsSound' /\ \A q, c : Latest(q, c)' >= Latest(q, c)
<1> DEFINE row == [player |-> p, key |-> k, day |-> GameDay, count |-> n, at |-> now]
<1>1. /\ totals' = (totals \ Today(p, k)) \cup {row} /\ GameDay' = GameDay
      /\ Today(p, k) = {x \in totals : x.player = p /\ x.key = k /\ x.day = GameDay}
  BY DEF SetTotal, Today, RowsOf, GameDay
<1>2. row.player = p /\ row.key = k /\ row.day = GameDay /\ row.count = n
  OBVIOUS
<1> HIDE DEF row
<1>3. CountsSound'
  <2>1. \A x \in totals' : x.count \in Nat /\ x.day \in Int /\ x.day <= GameDay'
    BY <1>1, <1>2 DEF CountsSound
  <2>2. PICK b \in Nat : \A x \in totals : x.count <= b
    BY DEF CountsSound
  <2>3. CASE n <= b
    BY <1>1, <1>2, <2>1, <2>2, <2>3 DEF CountsSound
  <2>4. CASE b < n
    <3>1. \A x \in totals' : x.count <= n
      BY <1>1, <1>2, <2>1, <2>2, <2>4 DEF CountsSound
    <3> QED BY <2>1, <3>1 DEF CountsSound
  <2> QED BY <2>2, <2>3, <2>4
<1>4. ASSUME NEW q, NEW c PROVE Latest(q, c)' >= Latest(q, c)
  <2>1. CASE q = p /\ c = k
    <3> DEFINE last == {x \in RowsOf(p, k) : \A y \in RowsOf(p, k) : y.day <= x.day}
    <3>1. row \in RowsOf(p, k)' /\ \A x \in RowsOf(p, k)' : x.day <= GameDay
      BY <1>1, <1>2 DEF RowsOf, CountsSound
    <3>2. \A x \in RowsOf(p, k)' : x.day = GameDay => x = row
      BY <1>1, <1>2 DEF RowsOf
    <3>3. \A x \in RowsOf(p, k)' : x.day \in Int
      BY <1>1, <1>2 DEF RowsOf, CountsSound
    <3>4. last' = {row}
      BY <1>2, <3>1, <3>2, <3>3
    <3>5. Latest(p, k)' = Highest({row})
      BY <3>4 DEF Latest, Highest
    <3>6. Highest({row}) = n
      <4> DEFINE S == {0} \cup {x.count : x \in {row}}
      <4>1. S = {0, n}
        BY <1>2
      <4>2. S \subseteq Int /\ S # {} /\ n \in Int /\ \A m \in S : m <= n
        BY <4>1
      <4>3. Highest({row}) = Max(S)
        BY DEF Highest
      <4> HIDE DEF S
      <4>4. Max(S) \in S /\ \A m \in S : m <= Max(S)
        BY <4>2, BoundedMax, Zenon
      <4> QED BY <4>1, <4>3, <4>4
    <3> QED BY <2>1, <3>5, <3>6
  <2>2. CASE ~(q = p /\ c = k)
    <3>1. RowsOf(q, c)' = RowsOf(q, c)
      BY <1>1, <1>2, <2>2 DEF RowsOf
    <3>2. Latest(q, c)' = Latest(q, c)
      BY <3>1 DEF Latest, Highest
    <3> QED BY <3>2, LatestBounds
  <2> QED BY <2>1, <2>2
<1> QED BY <1>3, <1>4

\* A count goes on from the latest total.
LEMMA AddedBounds ==
  ASSUME CountsSound, GameDay \in Int, NEW p, NEW c
  PROVE  Added(p, c) \in Nat /\ Added(p, c) >= Latest(p, c)
<1>1. Today(p, c) \subseteq totals /\ RowsOf(p, c) \subseteq totals
  BY DEF Today, RowsOf
<1>2. Highest(Today(p, c)) \in Nat /\ Highest(RowsOf(p, c)) \in Nat
  BY <1>1, HighestBounds
<1>3. CASE Today(p, c) = {}
  <2>1. Added(p, c) = Highest(RowsOf(p, c)) + 1
    BY <1>3 DEF Added
  <2> QED BY <1>2, <2>1, LatestBounds
<1>4. CASE Today(p, c) # {}
  <2> DEFINE rows == RowsOf(p, c)
  <2>1. \A x \in rows : x.day \in Int /\ x.day <= GameDay
    BY DEF RowsOf, CountsSound
  <2>2. Today(p, c) = {x \in rows : x.day = GameDay}
    BY DEF Today
  <2>3. {x \in rows : \A y \in rows : y.day <= x.day} = Today(p, c)
    BY <1>4, <2>1, <2>2
  <2>4. Latest(p, c) = Highest(Today(p, c))
    BY <2>3 DEF Latest
  <2>5. Added(p, c) = Highest(Today(p, c)) + 1
    BY <1>4 DEF Added
  <2> QED BY <1>2, <2>4, <2>5
<1> QED BY <1>3, <1>4

LEMMA CountsStep ==
  ASSUME SocialAssumption, Serving, CountsSound, now' \in {now, now + 1},
         UNCHANGED countVars \/ (CountStep /\ UNCHANGED now)
  PROVE  CountsSound' /\ \A p, c : Latest(p, c)' >= Latest(p, c)
<1>0. now \in Nat /\ GameDay \in Int /\ GameDay' \in Int /\ GameDay <= GameDay'
  BY DaysAscend DEF Serving
<1>1. CASE UNCHANGED totals
  <2>1. \A p, c : Latest(p, c)' = Latest(p, c)
    BY <1>1 DEF Latest, RowsOf, Highest
  <2>2. CountsSound'
    BY <1>0, <1>1 DEF CountsSound
  <2> QED BY <2>1, <2>2, LatestBounds
<1>2. ASSUME NEW p, NEW k, NEW n \in Nat, n >= Latest(p, k), SetTotal(p, k, n), UNCHANGED now
      PROVE  CountsSound' /\ \A q, c : Latest(q, c)' >= Latest(q, c)
  BY <1>0, <1>2, SetTotalKeeps
<1>3. ASSUME NEW r \in Calls, AddAction(r), UNCHANGED now
      PROVE  CountsSound' /\ \A p, c : Latest(p, c)' >= Latest(p, c)
  <2> DEFINE p == call[r].player
             k == call[r].key
  <2>1. SetTotal(p, k, Added(p, k))
    BY <1>3 DEF AddAction
  <2>2. Added(p, k) \in Nat /\ Added(p, k) >= Latest(p, k)
    BY <1>0, AddedBounds
  <2> HIDE DEF p, k
  <2> QED BY <1>2, <1>3, <2>1, <2>2
<1>4. ASSUME NEW r \in Calls, ProjectCards(r) \/ ProjectWins(r), UNCHANGED now
      PROVE  CountsSound' /\ \A p, c : Latest(p, c)' >= Latest(p, c)
  <2> DEFINE p == call[r].player
             n == call[r].count
  <2>1. n \in Nat
    BY <1>4 DEF Serving, CallsSound, Sound, ProjectCards, ProjectWins
  <2>2. PICK k : Project(p, k, n)
    BY <1>4 DEF ProjectCards, ProjectWins
  <2> HIDE DEF p, n
  <2>3. UNCHANGED totals \/ (n > Highest(RowsOf(p, k)) /\ SetTotal(p, k, n))
    BY <2>2 DEF Project, Exceeds
  <2>4. Latest(p, k) \in Nat /\ Highest(RowsOf(p, k)) \in Nat /\ Latest(p, k) <= Highest(RowsOf(p, k))
    BY LatestBounds
  <2> QED BY <1>1, <1>2, <1>4, <2>1, <2>3, <2>4
<1>5. ASSUME NEW r \in Calls, SyncStates(r) PROVE UNCHANGED totals
  BY <1>5 DEF SyncStates
<1> QED BY <1>1, <1>3, <1>4, <1>5 DEF CountStep, countVars

-----------------------------------------------------------------------------
(* Rewards.                                                                *)

\* What the ranks of a player's trophies pay, and the account of the player.
RankDust(p) == Total([t \in Trophies |-> SandOf(1, ranks[p][t])])

DustAccounted(p) ==
  dust[p] = RankDust(p) + Cardinality(claimed[p]) + Cardinality(tutorials[p])
            + Total(rewarded[p])

LevelsAccounted(p) == \A l \in 2..level[p] : rewarded[p][l] >= 1

RewardTypes ==
  /\ ranks \in [Players -> [Trophies -> Ranks \cup {0}]]
  /\ claimed \in [Players -> SUBSET Missions]
  /\ tutorials \in [Players -> SUBSET Tutorials]
  /\ level \in [Players -> Levels \cup {1}]
  /\ rewarded \in [Players -> [Levels -> Nat]]
  /\ dust \in [Players -> Nat]

\* No request levels up from a level that was not reached.
LevelsReached == \A r \in Calls : call[r].pc = "level" => call[r].from <= level[call[r].player]

RewardsSound ==
  /\ RewardTypes
  /\ \A p \in Players : DustAccounted(p) /\ LevelsAccounted(p)

LEMMA RewardsFollow == ASSUME RewardsSound PROVE RewardsAccounted
BY DEF RewardsSound, RewardsAccounted, DustAccounted, LevelsAccounted, RankDust

LEMMA RankNumbers ==
  ASSUME ProgressionAssumption
  PROVE  Ranks \cup {0} \subseteq Nat
<1> DEFINE n == Cardinality(Ranks)
<1>1. IsFiniteSet(Ranks) /\ Ranks = 1..n
  BY DEF ProgressionAssumption
<1>2. n \in Nat
  BY <1>1, FS_CardinalityType
<1> HIDE DEF n
<1> QED BY <1>1, <1>2

LEMMA SandSums ==
  ASSUME ProgressionAssumption, NEW j \in Ranks \cup {0}, NEW k \in Ranks \cup {0}, j <= k
  PROVE  /\ SandOf(1, j) \in Nat /\ SandOf(j + 1, k) \in Nat /\ SandOf(1, k) \in Nat
         /\ SandOf(1, k) = SandOf(1, j) + SandOf(j + 1, k)
<1> DEFINE S == 1..j
           T == (j + 1)..k
           f == [i \in S |-> Sand[i]]
           g == [i \in T |-> Sand[i]]
           h == [i \in 1..k |-> Sand[i]]
<1>1. /\ Ranks = 1..Cardinality(Ranks) /\ Cardinality(Ranks) \in Nat
      /\ Sand \in [Ranks -> Nat] /\ IsFiniteSet(Ranks)
  BY FS_CardinalityType DEF ProgressionAssumption
<1> DEFINE n == Cardinality(Ranks)
<1>2. n \in Nat /\ Ranks = 1..n
  BY <1>1
<1> HIDE DEF n
<1>3. j \in Nat /\ k \in Nat /\ j <= n /\ k <= n
  BY <1>2
<1>4. S \subseteq Ranks /\ T \subseteq Ranks /\ S \cup T = 1..k /\ S \cap T = {}
  BY <1>2, <1>3
<1>5. IsFiniteSet(S) /\ IsFiniteSet(T)
  BY <1>1, <1>4, FS_Subset
<1>6. /\ f \in [S -> Nat] /\ g \in [T -> Nat] /\ h \in [S \cup T -> Nat]
      /\ (\A i \in S : h[i] = f[i]) /\ (\A i \in T : h[i] = g[i])
  BY <1>1, <1>4
<1>7. SandOf(1, j) = Total(f) /\ SandOf(j + 1, k) = Total(g) /\ SandOf(1, k) = Total(h)
  BY DEF SandOf
<1> HIDE DEF S, T, f, g, h
<1>8. Splits(S, f, T, g, h)
  BY <1>4, <1>5, <1>6 DEF Splits
<1> QED BY <1>7, <1>8, TotalSplits

LEMMA RewardNumbers ==
  ASSUME ProgressionAssumption, RewardTypes, NEW p \in Players
  PROVE  /\ RankDust(p) \in Nat /\ Total(rewarded[p]) \in Nat /\ dust[p] \in Nat
         /\ IsFiniteSet(claimed[p]) /\ Cardinality(claimed[p]) \in Nat
         /\ IsFiniteSet(tutorials[p]) /\ Cardinality(tutorials[p]) \in Nat
<1>1. /\ IsFiniteSet(Levels) /\ IsFiniteSet(Trophies) /\ IsFiniteSet(Missions)
      /\ IsFiniteSet(Tutorials)
  BY DEF ProgressionAssumption
<1>2. RankDust(p) \in Nat
  <2> DEFINE f == [t \in Trophies |-> SandOf(1, ranks[p][t])]
  <2>1. \A t \in Trophies : ranks[p][t] \in Ranks \cup {0} /\ ranks[p][t] <= ranks[p][t]
    <3>1. Ranks \cup {0} \subseteq Nat
      BY RankNumbers
    <3> QED BY <3>1 DEF RewardTypes
  <2>2. \A t \in Trophies : SandOf(1, ranks[p][t]) \in Nat
    BY <2>1, SandSums
  <2>3. f \in [Trophies -> Nat]
    BY <2>2
  <2> HIDE DEF f
  <2>4. Total(f) \in Nat
    BY <1>1, <2>3, TotalIsNat
  <2> QED BY <2>4 DEF f, RankDust
<1>3. rewarded[p] \in [Levels -> Nat] /\ dust[p] \in Nat
  BY DEF RewardTypes
<1>4. Total(rewarded[p]) \in Nat
  BY <1>1, <1>3, TotalIsNat
<1>5. claimed[p] \subseteq Missions /\ tutorials[p] \subseteq Tutorials
  BY DEF RewardTypes
<1>6. IsFiniteSet(claimed[p]) /\ IsFiniteSet(tutorials[p])
  BY <1>1, <1>5, FS_Subset
<1> QED BY <1>2, <1>3, <1>4, <1>6, FS_CardinalityType

\* A reward changes the account of one player.
Others(p) ==
  \A q \in Players \ {p} :
    /\ ranks'[q] = ranks[q] /\ claimed'[q] = claimed[q] /\ tutorials'[q] = tutorials[q]
    /\ level'[q] = level[q] /\ rewarded'[q] = rewarded[q] /\ dust'[q] = dust[q]

\* The steps that reward, of which each keeps the accounts and lowers no level.
Rewarded == RewardsSound' /\ \A p \in Players : level'[p] >= level[p]

LEMMA OnePlayer ==
  ASSUME ProgressionAssumption, RewardsSound, NEW p \in Players, Others(p), RewardTypes',
         DustAccounted(p)', LevelsAccounted(p)', level'[p] >= level[p]
  PROVE  Rewarded
<1>1. ASSUME NEW q \in Players, q # p PROVE DustAccounted(q)' /\ LevelsAccounted(q)'
  <2>1. DustAccounted(q) /\ LevelsAccounted(q)
    BY DEF RewardsSound
  <2>2. /\ ranks'[q] = ranks[q] /\ claimed'[q] = claimed[q] /\ tutorials'[q] = tutorials[q]
        /\ level'[q] = level[q] /\ rewarded'[q] = rewarded[q] /\ dust'[q] = dust[q]
    BY <1>1 DEF Others
  <2>3. RankDust(q)' = RankDust(q)
    BY <2>2 DEF RankDust
  <2> QED BY <2>1, <2>2, <2>3 DEF DustAccounted, LevelsAccounted
<1>2. \A q \in Players : level'[q] \in Int /\ level[q] \in Int /\ level'[q] >= level[q]
  <2>1. \A q \in Players : level'[q] \in Levels \cup {1} /\ level[q] \in Levels \cup {1}
    BY DEF RewardsSound, RewardTypes
  <2>2. \A q \in Players : level'[q] \in Int /\ level[q] \in Int
    BY <2>1, LevelBounds
  <2> QED BY <2>2 DEF Others
<1> QED BY <1>1, <1>2 DEF Rewarded, RewardsSound

LEMMA CompleteRewarded ==
  ASSUME ProgressionAssumption, Serving, RewardsSound, NEW r \in Calls, CompleteTrophies(r)
  PROVE  Rewarded
<1>0. PICK p \in Players, t \in Trophies, k \in Ranks :
        call[r].player = p /\ call[r].trophy = t /\ call[r].rank = k
  BY DEF Serving, CallsSound, Sound, CompleteTrophies
<1> DEFINE j == ranks[p][t]
<1>1. j \in Ranks \cup {0}
  BY DEF RewardsSound, RewardTypes
<1>2. /\ k > j /\ ranks' = [ranks EXCEPT ![p][t] = k]
      /\ dust' = [dust EXCEPT ![p] = dust[p] + SandOf(j + 1, k)]
      /\ UNCHANGED <<claimed, tutorials, level, rewarded>>
  BY <1>0 DEF CompleteTrophies, Pay, RanksPaid
<1>3. j \in Nat /\ k \in Nat /\ j <= k
  <2>1. Ranks \cup {0} \subseteq Nat
    BY RankNumbers
  <2> QED BY <1>1, <1>2, <2>1
<1>4. /\ SandOf(1, k) = SandOf(1, j) + SandOf(j + 1, k)
      /\ SandOf(1, j) \in Nat /\ SandOf(j + 1, k) \in Nat /\ SandOf(1, k) \in Nat
  BY <1>1, <1>3, SandSums
<1>6. RewardTypes'
  <2>1. ranks' \in [Players -> [Trophies -> Ranks \cup {0}]]
    BY <1>1, <1>2 DEF RewardsSound, RewardTypes
  <2>2. dust' \in [Players -> Nat]
    BY <1>1, <1>2, <1>4 DEF RewardsSound, RewardTypes
  <2> QED BY <1>2, <2>1, <2>2 DEF RewardsSound, RewardTypes
<1>7. Others(p)
  BY <1>1, <1>2 DEF Others, RewardsSound, RewardTypes
<1>8. RankDust(p)' = RankDust(p) + SandOf(j + 1, k) /\ RankDust(p) \in Nat
  <2> DEFINE f == [u \in Trophies |-> SandOf(1, ranks[p][u])]
             g == [u \in Trophies |-> SandOf(1, ranks'[p][u])]
  <2>1. /\ RankDust(p) = Total(f) /\ RankDust(p)' = Total(g)
    BY DEF RankDust, SandOf, Total
  <2>2. ranks'[p][t] = k /\ \A u \in Trophies \ {t} : ranks'[p][u] = ranks[p][u]
    BY <1>1, <1>2 DEF RewardsSound, RewardTypes
  <2>3. \A u \in Trophies : SandOf(1, ranks[p][u]) \in Nat /\ SandOf(1, ranks'[p][u]) \in Nat
    <3>1. Ranks \cup {0} \subseteq Nat
      BY RankNumbers
    <3>2. \A u \in Trophies : ranks[p][u] \in Ranks \cup {0} /\ ranks'[p][u] \in Ranks \cup {0}
      BY <1>1, <1>6 DEF RewardsSound, RewardTypes
    <3>3. \A i \in Ranks \cup {0} : SandOf(1, i) \in Nat
      <4>1. ASSUME NEW i \in Ranks \cup {0} PROVE SandOf(1, i) \in Nat
        <5>1. i <= i
          BY <3>1
        <5> QED BY <5>1, SandSums
      <4> QED BY <4>1
    <3> QED BY <3>2, <3>3
  <2>4. f \in [Trophies -> Nat] /\ g \in [Trophies -> Nat] /\ IsFiniteSet(Trophies)
    BY <2>3 DEF ProgressionAssumption
  <2>5. f[t] = SandOf(1, j) /\ g[t] = SandOf(1, k) /\ \A u \in Trophies \ {t} : g[u] = f[u]
    BY <1>1, <2>2
  <2> HIDE DEF f, g
  <2>6. Changes(Trophies, f, t, g)
    BY <1>1, <2>4, <2>5 DEF Changes
  <2>7. Total(g) + f[t] = Total(f) + g[t] /\ Total(f) \in Nat /\ Total(g) \in Nat
    BY <2>4, <2>6, TotalChanges, TotalIsNat
  <2>8. Total(g) = Total(f) + SandOf(j + 1, k)
    <3> DEFINE u == SandOf(1, j)
               v == SandOf(j + 1, k)
               w == SandOf(1, k)
               x == Total(f)
               y == Total(g)
    <3>1. u \in Nat /\ v \in Nat /\ w = u + v
      BY <1>4
    <3>2. x \in Nat /\ y \in Nat /\ y + u = x + w
      BY <2>5, <2>7
    <3> HIDE DEF u, v, w, x, y
    <3>3. y = x + v
      BY <3>1, <3>2
    <3> QED BY <3>3 DEF v, x, y
  <2> QED BY <2>1, <2>7, <2>8
<1>9. DustAccounted(p)'
  <2>1. dust'[p] = dust[p] + SandOf(j + 1, k)
    BY <1>1, <1>2 DEF RewardsSound, RewardTypes
  <2>2. DustAccounted(p)
    BY <1>1 DEF RewardsSound
  <2>3. /\ Cardinality(claimed[p]) \in Nat /\ Cardinality(tutorials[p]) \in Nat
        /\ Total(rewarded[p]) \in Nat
    BY <1>1, RewardNumbers DEF RewardsSound
  <2>4. /\ Cardinality(claimed[p])' = Cardinality(claimed[p])
        /\ Cardinality(tutorials[p])' = Cardinality(tutorials[p])
        /\ Total(rewarded[p])' = Total(rewarded[p])
    BY <1>2 DEF Total
  <2> QED BY <1>4, <1>8, <2>1, <2>2, <2>3, <2>4 DEF DustAccounted
<1>10. LevelsAccounted(p)' /\ level'[p] >= level[p]
  <2>1. LevelsAccounted(p) /\ level[p] \in Int
    BY <1>1, LevelBounds DEF RewardsSound, RewardTypes
  <2>2. level' = level /\ rewarded' = rewarded
    BY <1>2
  <2>3. LevelsAccounted(p)'
    BY <2>1, <2>2 DEF LevelsAccounted
  <2> QED BY <2>1, <2>2, <2>3
<1> QED BY <1>1, <1>6, <1>7, <1>9, <1>10, OnePlayer

LEMMA MissionsRewarded ==
  ASSUME ProgressionAssumption, RewardsSound, NEW p \in Players, NEW ms \in SUBSET Missions,
         ClaimMissions(p, ms)
  PROVE  Rewarded
<1> DEFINE more == ms \ claimed[p]
           n == Cardinality(more)
<1>1. /\ claimed' = [claimed EXCEPT ![p] = claimed[p] \cup ms]
      /\ dust' = [dust EXCEPT ![p] = dust[p] + n]
      /\ ranks' = ranks /\ tutorials' = tutorials /\ level' = level /\ rewarded' = rewarded
  BY DEF ClaimMissions, Pay
<1>2. IsFiniteSet(more) /\ n \in Nat
  <2>1. IsFiniteSet(Missions) /\ more \subseteq Missions
    BY DEF ProgressionAssumption
  <2>2. IsFiniteSet(more)
    BY <2>1, FS_Subset
  <2> QED BY <2>2, FS_CardinalityType
<1>3. claimed'[p] = claimed[p] \cup more /\ claimed[p] \cap more = {} /\ dust'[p] = dust[p] + n
  BY <1>1 DEF RewardsSound, RewardTypes
<1>4. RewardTypes'
  <2>1. claimed' \in [Players -> SUBSET Missions]
    BY <1>1 DEF RewardsSound, RewardTypes
  <2>2. dust' \in [Players -> Nat]
    BY <1>1, <1>2 DEF RewardsSound, RewardTypes
  <2> QED BY <1>1, <2>1, <2>2 DEF RewardsSound, RewardTypes
<1>5. Others(p)
  BY <1>1 DEF Others, RewardsSound, RewardTypes
<1> HIDE DEF more
<1>6. Cardinality(claimed[p] \cup more) = Cardinality(claimed[p]) + n
  <2> DEFINE S == claimed[p]
  <2>1. IsFiniteSet(S) /\ Cardinality(S) \in Nat /\ S \cap more = {}
    BY <1>3, RewardNumbers DEF RewardsSound
  <2> HIDE DEF S
  <2>2. Cardinality(S \cap more) = 0
    BY <2>1, FS_EmptySet
  <2>3. Cardinality(S \cup more) = Cardinality(S) + Cardinality(more) - Cardinality(S \cap more)
    BY <1>2, <2>1, FS_Union
  <2> QED BY <1>2, <2>1, <2>2, <2>3 DEF S
<1> HIDE DEF n
<1>7. DustAccounted(p)'
  <2>1. DustAccounted(p)
    BY DEF RewardsSound
  <2>2. /\ RankDust(p) \in Nat /\ Cardinality(claimed[p]) \in Nat
        /\ Cardinality(tutorials[p]) \in Nat /\ Total(rewarded[p]) \in Nat
    BY RewardNumbers DEF RewardsSound
  <2>3. RankDust(p)' = RankDust(p)
    BY <1>1 DEF RankDust
  <2>4. Cardinality(claimed[p])' = Cardinality(claimed[p]) + n
    BY <1>3, <1>6
  <2>5. /\ Cardinality(tutorials[p])' = Cardinality(tutorials[p])
        /\ Total(rewarded[p])' = Total(rewarded[p])
    BY <1>1 DEF Total
  <2> QED BY <1>2, <1>3, <2>1, <2>2, <2>3, <2>4, <2>5 DEF DustAccounted
<1>8. LevelsAccounted(p)' /\ level'[p] >= level[p]
  <2>1. LevelsAccounted(p) /\ level[p] \in Int
    BY LevelBounds DEF RewardsSound, RewardTypes
  <2>2. LevelsAccounted(p)'
    BY <1>1, <2>1 DEF LevelsAccounted
  <2> QED BY <1>1, <2>1, <2>2
<1> QED BY <1>4, <1>5, <1>7, <1>8, OnePlayer

LEMMA TutorialRewarded ==
  ASSUME ProgressionAssumption, RewardsSound, NEW p \in Players, NEW t \in Tutorials,
         GrantTutorial(p, t)
  PROVE  Rewarded
<1>1. /\ t \notin tutorials[p]
      /\ tutorials' = [tutorials EXCEPT ![p] = tutorials[p] \cup {t}]
      /\ dust' = [dust EXCEPT ![p] = dust[p] + 1]
      /\ ranks' = ranks /\ claimed' = claimed /\ level' = level /\ rewarded' = rewarded
  BY DEF GrantTutorial, Pay
<1>2. tutorials'[p] = tutorials[p] \cup {t} /\ dust'[p] = dust[p] + 1
  BY <1>1 DEF RewardsSound, RewardTypes
<1>3. RewardTypes'
  <2>1. tutorials' \in [Players -> SUBSET Tutorials]
    BY <1>1 DEF RewardsSound, RewardTypes
  <2>2. dust' \in [Players -> Nat]
    BY <1>1 DEF RewardsSound, RewardTypes
  <2> QED BY <1>1, <2>1, <2>2 DEF RewardsSound, RewardTypes
<1>4. Others(p)
  BY <1>1 DEF Others, RewardsSound, RewardTypes
<1>5. Cardinality(tutorials[p] \cup {t}) = Cardinality(tutorials[p]) + 1
  <2>1. IsFiniteSet(tutorials[p])
    BY RewardNumbers DEF RewardsSound
  <2> QED BY <1>1, <2>1, FS_AddElement
<1>6. DustAccounted(p)'
  <2>1. DustAccounted(p)
    BY DEF RewardsSound
  <2>2. /\ RankDust(p) \in Nat /\ Cardinality(claimed[p]) \in Nat
        /\ Cardinality(tutorials[p]) \in Nat /\ Total(rewarded[p]) \in Nat
    BY RewardNumbers DEF RewardsSound
  <2>3. RankDust(p)' = RankDust(p)
    BY <1>1 DEF RankDust
  <2>4. Cardinality(tutorials[p])' = Cardinality(tutorials[p]) + 1
    BY <1>2, <1>5
  <2>5. /\ Cardinality(claimed[p])' = Cardinality(claimed[p])
        /\ Total(rewarded[p])' = Total(rewarded[p])
    BY <1>1 DEF Total
  <2> QED BY <1>2, <2>1, <2>2, <2>3, <2>4, <2>5 DEF DustAccounted
<1>7. LevelsAccounted(p)' /\ level'[p] >= level[p]
  <2>1. LevelsAccounted(p) /\ level[p] \in Int
    BY LevelBounds DEF RewardsSound, RewardTypes
  <2>2. LevelsAccounted(p)'
    BY <1>1, <2>1 DEF LevelsAccounted
  <2> QED BY <1>1, <2>1, <2>2
<1> QED BY <1>3, <1>4, <1>6, <1>7, OnePlayer

\* The levels that are rewarded follow one that was reached.
LEMMA LevelRewarded ==
  ASSUME ProgressionAssumption, Serving, LevelsReached, RewardsSound, NEW r \in Calls,
         CommitLevelUp(r)
  PROVE  Rewarded
<1>0. PICK p \in Players, from \in Levels \cup {1}, target \in Levels \cup {1} :
        call[r].player = p /\ call[r].from = from /\ call[r].target = target
  BY DEF Serving, CallsSound, Sound, CommitLevelUp
<1> DEFINE R == (from + 1)..target
           n == Cardinality(R)
           old == rewarded[p]
           new == [l \in Levels |-> old[l] + (IF l \in R THEN 1 ELSE 0)]
<1>1. /\ target > level[p] /\ from <= level[p]
      /\ level' = [level EXCEPT ![p] = target]
      /\ rewarded' = [rewarded EXCEPT ![p] = new]
      /\ dust' = [dust EXCEPT ![p] = dust[p] + n]
      /\ ranks' = ranks /\ claimed' = claimed /\ tutorials' = tutorials
  BY <1>0 DEF CommitLevelUp, Pay, LevelsRewarded, LevelsReached
<1>2. PICK b \in Nat : Levels = 2..(b + 1)
  BY LevelBounds
<1>3. /\ from \in Nat /\ target \in Nat /\ level[p] \in Nat
      /\ from >= 1 /\ level[p] >= 1 /\ target <= b + 1
  BY <1>2 DEF RewardsSound, RewardTypes
<1>4. R \subseteq Levels /\ IsFiniteSet(R) /\ n \in Nat
  <2>1. R \subseteq Levels
    BY <1>2, <1>3
  <2>2. IsFiniteSet(R)
    BY <2>1, FS_Subset DEF ProgressionAssumption
  <2> QED BY <2>1, <2>2, FS_CardinalityType
<1>5. old \in [Levels -> Nat] /\ new \in [Levels -> Nat]
  BY DEF RewardsSound, RewardTypes
<1>6. /\ rewarded'[p] = new /\ level'[p] = target /\ dust'[p] = dust[p] + n
      /\ \A l \in Levels : new[l] = old[l] + (IF l \in R THEN 1 ELSE 0)
  BY <1>1 DEF RewardsSound, RewardTypes
<1> HIDE DEF new
<1>7. RewardTypes'
  <2>1. rewarded' \in [Players -> [Levels -> Nat]]
    BY <1>1, <1>5 DEF RewardsSound, RewardTypes
  <2>2. dust' \in [Players -> Nat]
    BY <1>1, <1>4 DEF RewardsSound, RewardTypes
  <2>3. level' \in [Players -> Levels \cup {1}]
    BY <1>1 DEF RewardsSound, RewardTypes
  <2> QED BY <1>1, <2>1, <2>2, <2>3 DEF RewardsSound, RewardTypes
<1>8. Others(p)
  BY <1>1 DEF Others, RewardsSound, RewardTypes
<1>9. Total(new) = Total(old) + n
  <2>1. Raises(Levels, old, R, new)
    BY <1>4, <1>5, <1>6 DEF Raises, ProgressionAssumption
  <2> HIDE DEF R
  <2> QED BY <2>1, TotalRaises
<1> HIDE DEF n
<1>10. DustAccounted(p)'
  <2>1. DustAccounted(p)
    BY DEF RewardsSound
  <2>2. /\ RankDust(p) \in Nat /\ Cardinality(claimed[p]) \in Nat
        /\ Cardinality(tutorials[p]) \in Nat /\ Total(old) \in Nat
    BY RewardNumbers DEF RewardsSound
  <2>3. RankDust(p)' = RankDust(p)
    BY <1>1 DEF RankDust
  <2>4. Total(rewarded[p])' = Total(old) + n
    <3>1. Total(rewarded[p])' = Total(new)
      BY <1>6 DEF Total
    <3> QED BY <1>9, <3>1
  <2>5. /\ Cardinality(claimed[p])' = Cardinality(claimed[p])
        /\ Cardinality(tutorials[p])' = Cardinality(tutorials[p])
    BY <1>1
  <2> QED BY <1>4, <1>6, <2>1, <2>2, <2>3, <2>4, <2>5 DEF DustAccounted
<1>11. LevelsAccounted(p)'
  <2>1. ASSUME NEW l \in 2..target PROVE new[l] >= 1
    <3>1. l \in Levels
      BY <1>2, <1>3
    <3>2. CASE l <= level[p]
      <4>1. old[l] >= 1 /\ old[l] \in Nat
        BY <1>3, <1>5, <3>1, <3>2 DEF RewardsSound, LevelsAccounted
      <4> QED BY <1>6, <3>1, <4>1
    <3>3. CASE ~(l <= level[p])
      <4>1. l \in R /\ old[l] \in Nat
        BY <1>1, <1>3, <1>5, <3>1, <3>3
      <4> QED BY <1>6, <3>1, <4>1
    <3> QED BY <3>2, <3>3
  <2> QED BY <1>6, <2>1 DEF LevelsAccounted
<1>12. level'[p] >= level[p]
  BY <1>1, <1>3, <1>6
<1> QED BY <1>7, <1>8, <1>10, <1>11, <1>12, OnePlayer

LEMMA RewardsStep ==
  ASSUME ProgressionAssumption, Serving, LevelsReached, RewardsSound,
         UNCHANGED rewardVars \/ RewardStep
  PROVE  Rewarded
<1>1. CASE UNCHANGED rewardVars
  <2>1. /\ ranks' = ranks /\ claimed' = claimed /\ tutorials' = tutorials
        /\ level' = level /\ rewarded' = rewarded /\ dust' = dust
    BY <1>1 DEF rewardVars
  <2>2. RewardTypes'
    BY <2>1 DEF RewardsSound, RewardTypes
  <2>3. ASSUME NEW p \in Players
        PROVE  DustAccounted(p)' /\ LevelsAccounted(p)' /\ level'[p] >= level[p]
    <3>1. DustAccounted(p) /\ LevelsAccounted(p) /\ level[p] \in Int
      BY LevelBounds DEF RewardsSound, RewardTypes
    <3>2. DustAccounted(p)'
      BY <2>1, <3>1 DEF DustAccounted, RankDust
    <3>3. LevelsAccounted(p)'
      BY <2>1, <3>1 DEF LevelsAccounted
    <3> QED BY <2>1, <3>1, <3>2, <3>3
  <2> QED BY <2>2, <2>3 DEF Rewarded, RewardsSound
<1>2. CASE RewardStep
  BY <1>2, CompleteRewarded, LevelRewarded, MissionsRewarded, TutorialRewarded DEF RewardStep
<1> QED BY <1>1, <1>2

LEMMA LevelsStep ==
  ASSUME ProgressionAssumption, Serving, LevelsReached, RewardsSound, Rewarded,
         \/ Serves
         \/ \E r \in Calls, p \in Players, q \in Players, route \in Routes :
              ReadThanks(r, p, q, route)
  PROVE  LevelsReached'
<1>0. /\ DOMAIN call = Calls
      /\ \A r \in Calls : call[r].pc = "level" =>
           call[r].player \in Players /\ call[r].from \in Levels \cup {1}
  BY DEF Serving, CallsSound, Sound
<1>1. \A p \in Players : level[p] \in Levels \cup {1} /\ level'[p] \in Levels \cup {1}
                         /\ level'[p] >= level[p]
  BY DEF Rewarded, RewardsSound, RewardTypes
<1>2. \A l \in Levels \cup {1} : l \in Int
  BY LevelBounds
<1>3. ASSUME NEW r \in Calls, call[r].pc = "level"
      PROVE  call[r].from <= level'[call[r].player]
  <2> DEFINE p == call[r].player
  <2>1. p \in Players /\ call[r].from \in Int
    BY <1>0, <1>2, <1>3
  <2>2. level[p] \in Int /\ level'[p] \in Int /\ level'[p] >= level[p]
    BY <1>1, <1>2, <2>1
  <2>3. call[r].from <= level[p]
    BY <1>3 DEF LevelsReached
  <2> HIDE DEF p
  <2>4. call[r].from <= level'[p]
    BY <2>1, <2>2, <2>3
  <2> QED BY <2>4 DEF p
<1>4. CASE UNCHANGED call
  BY <1>3, <1>4 DEF LevelsReached
<1>5. ASSUME NEW r \in Calls, NEW c, Sets(r, c),
             c.pc = "level" => c.player \in Players /\ c.from = level[c.player]
      PROVE  LevelsReached'
  <2>1. \A i \in Calls : call'[i] = IF i = r THEN c ELSE call[i]
    BY <1>0, <1>5 DEF Sets
  <2>2. c.pc = "level" => c.from <= level'[c.player]
    BY <1>1, <1>2, <1>5
  <2> QED BY <1>3, <2>1, <2>2 DEF LevelsReached
<1>6. CASE Serves
  BY <1>4, <1>5, <1>6 DEF Serves, Fresh, Sound
<1>7. ASSUME NEW r \in Calls, NEW p \in Players, NEW q \in Players, NEW route \in Routes,
             ReadThanks(r, p, q, route)
      PROVE  LevelsReached'
  <2>1. \/ Sets(r, Count(p, "thank"))
        \/ Sets(r, [pc |-> "thank", player |-> p, target |-> q, route |-> route,
                    day |-> GameDay])
    BY <1>7 DEF ReadThanks, Begin, Sets
  <2>2. \E c : Sets(r, c) /\ c.pc # "level"
    BY <2>1 DEF Count
  <2> QED BY <1>5, <2>2
<1> QED BY <1>6, <1>7

-----------------------------------------------------------------------------
(* The inductive invariant.                                                *)

IInv ==
  /\ Serving
  /\ RequestsPending
  /\ ThanksCounted
  /\ FeedPaid
  /\ CardsCounted
  /\ RowsSound
  /\ SyncSkipsNothing
  /\ CountsSound
  /\ LevelsReached
  /\ RewardsSound

LEMMA InitInv ==
  ASSUME SocialAssumption, ProgressionAssumption, Init
  PROVE  IInv
<1> USE DEF Init, SocialInit
<1>1. Serving
  <2>1. Sound(NoCall)
    BY DEF Sound, NoCall
  <2>2. CallsSound
    BY <2>1 DEF CallsSound
  <2>3. RunsSound
    BY DEF RunsSound, NoRun
  <2> QED BY <2>2, <2>3 DEF Serving
<1>2. RequestsPending
  BY DEF RequestsPending
<1>3. ThanksCounted
  <2>1. \A p, d : SentOn(p, d) = {} /\ Waiting(p, d) = {}
    BY DEF SentOn, Waiting, NoCall
  <2> QED BY <2>1, FS_EmptySet DEF ThanksCounted
<1>4. FeedPaid
  <2>1. None \notin Feeds
    BY DEF SocialAssumption
  <2>2. \A p, f : ~Challenged(p, f)
    BY DEF Challenged
  <2>3. \A p \in Players, f \in Feeds : SnoopCost(f) \in Nat
    BY CostBounds
  <2> QED BY <2>1, <2>2, <2>3 DEF FeedPaid
<1>5. CardsCounted
  <2>1. \A p, c : Given(p, c) = {} /\ Received(p, c) = {} /\ Won(p, c) = {}
    BY DEF Given, Received, Won
  <2>2. Cardinality({}) = 0 /\ IsFiniteSet({}) /\ Copies \in Nat
    BY FS_EmptySet DEF SocialAssumption
  <2>3. \A p \in Players, c \in Cards : Balanced(p, c)
    <3>1. \A p \in Players, c \in Cards : owned[p][c] = Copies /\ opened[p][c] = 0
      OBVIOUS
    <3>2. Balance(Copies, 0, 0, 0, 0)
      BY <2>2 DEF Balance
    <3> QED BY <2>1, <2>2, <3>1, <3>2 DEF Balanced
  <2>4. CardsAccounted
    BY <2>3, AccountedIsBalanced
  <2> QED BY <2>2, <2>4 DEF CardsCounted
<1>6. RowsSound /\ SyncSkipsNothing
  BY DEF RowsSound, SyncSkipsNothing
<1>7. CountsSound /\ LevelsReached
  BY DEF CountsSound, LevelsReached, NoCall
<1>8. RewardsSound
  <2>1. RewardTypes
    BY DEF RewardTypes
  <2>2. ASSUME NEW p \in Players PROVE DustAccounted(p) /\ LevelsAccounted(p)
    <3> DEFINE f == [t \in Trophies |-> SandOf(1, ranks[p][t])]
    <3>1. Total(rewarded[p]) = 0
      BY TotalOfZeros
    <3>2. \A t \in Trophies : SandOf(1, 0) = 0 /\ ranks[p][t] = 0
      <4>1. 1..0 = {}
        OBVIOUS
      <4>2. SandOf(1, 0) = 0
        BY <4>1, TotalOfZeros DEF SandOf
      <4> QED BY <4>2
    <3>3. \A t \in DOMAIN f : f[t] = 0
      BY <3>2
    <3>4. RankDust(p) = Total(f)
      BY DEF RankDust
    <3> HIDE DEF f
    <3>5. RankDust(p) = 0
      BY <3>3, <3>4, TotalOfZeros
    <3>6. Cardinality(claimed[p]) = 0 /\ Cardinality(tutorials[p]) = 0
      BY FS_EmptySet
    <3>7. dust[p] = 0 /\ 2..level[p] = {}
      OBVIOUS
    <3> QED BY <3>1, <3>5, <3>6, <3>7 DEF DustAccounted, LevelsAccounted
  <2> QED BY <2>1, <2>2 DEF RewardsSound
<1> QED BY <1>1, <1>2, <1>3, <1>4, <1>5, <1>6, <1>7, <1>8 DEF IInv

LEMMA NextInv ==
  ASSUME SocialAssumption, ProgressionAssumption, IInv, [Next]_vars
  PROVE  IInv' /\ \A p, c : Latest(p, c)' >= Latest(p, c)
<1>0. Reading
  BY DEF IInv, Reading, CardsCounted, RewardsSound, RewardTypes
<1>1. Steps
  BY NextSteps DEF IInv, Serving
<1>2. /\ Serving' /\ now' \in {now, now + 1}
      /\ \/ Serves
         \/ \E r \in Calls, p \in Players, q \in Players, route \in Routes :
              ReadThanks(r, p, q, route)
  BY <1>0, ServingKept DEF IInv
<1>3. RequestsPending'
  BY <1>1, RequestsPendingStep DEF IInv, Steps
<1>4. ThanksCounted'
  BY <1>0, ThanksCountedStep DEF IInv
<1>5. FeedPaid'
  BY <1>1, FeedPaidStep DEF IInv, Steps
<1>6. CardsCounted'
  BY <1>1, CardsStep DEF IInv, Steps
<1>7. RowsSound' /\ SyncSkipsNothing'
  BY <1>1, <1>2, SyncStep DEF IInv, Steps
<1>8. CountsSound' /\ \A p, c : Latest(p, c)' >= Latest(p, c)
  BY <1>1, <1>2, CountsStep DEF IInv, Steps
<1>9. Rewarded
  BY <1>1, RewardsStep DEF IInv, Steps
<1>10. LevelsReached'
  BY <1>2, <1>9, LevelsStep DEF IInv
<1>11. RewardsSound'
  BY <1>9 DEF Rewarded
<1> QED BY <1>2, <1>3, <1>4, <1>5, <1>6, <1>7, <1>8, <1>10, <1>11 DEF IInv

LEMMA Invariant == Spec => []IInv
<1>1. Init => IInv
  BY InitInv, SocialAssumption, ProgressionAssumption
<1>2. IInv /\ [Next]_vars => IInv'
  BY NextInv, SocialAssumption, ProgressionAssumption
<1> QED BY <1>1, <1>2, PTL DEF Spec

(* Requests between any two players are answered, withdrawn and ended in   *)
(* any order: none is pending in both directions or between friends        *)
(* (social.go:121).                                                        *)
THEOREM FriendsAreNotAsked == Spec => []RequestsPending
<1>1. IInv => RequestsPending
  BY DEF IInv
<1> QED BY <1>1, Invariant, PTL

(* However many cards, gifts and challenges there are, the copies of a     *)
(* player are those on record, and no gift takes the last one.             *)
THEOREM CardsAreAccounted == Spec => []CardsAccounted
<1>1. IInv => CardsAccounted
  BY DEF IInv, CardsCounted
<1> QED BY <1>1, Invariant, PTL

(* For any prices, limits and clock, an entry of the feed is paid once, by *)
(* the snoop or by the challenge (feed.go:191).                            *)
THEOREM FeedIsPaidOnce == Spec => []FeedPaidOnce
<1>1. IInv => FeedPaidOnce
  BY FeedPaidOnceFollows DEF IInv
<1> QED BY <1>1, Invariant, PTL

(* Any number of requests served at once passes the daily limit of thanks  *)
(* by less than that number (card_social.go:168).                          *)
THEOREM ThanksAreBounded == Spec => []ThanksBounded
<1>1. IInv => ThanksBounded
  BY CountedBounds, SocialAssumption DEF IInv
<1> QED BY <1>1, Invariant, PTL

(* With any number of counters, days and requests, a row that no           *)
(* synchronisation gave is asked for by the next, unless it was counted in *)
(* the very second that one of them gave (startup_servers.gen.go:272).     *)
THEOREM SyncIsComplete == Spec => []SyncSkipsNothing
<1>1. IInv => SyncSkipsNothing
  BY DEF IInv
<1> QED BY <1>1, Invariant, PTL

(* The dust of every player is what trophies, missions, tutorials and      *)
(* levels paid, each once however claims repeat and race, for any ranks,   *)
(* payments and levels, and no level is passed without its rewards.        *)
THEOREM RewardsAreAccounted == Spec => []RewardsAccounted
<1>1. IInv => RewardsAccounted
  BY RewardsFollow DEF IInv
<1> QED BY <1>1, Invariant, PTL

(* No count and no projection of an old read lowers a total, on whatever   *)
(* game days they fall (action_states.go:60).                              *)
THEOREM TotalsAreKept == Spec => TotalsNeverDecrease
<1>1. ASSUME IInv, [Next]_vars
      PROVE  [\A p \in Players, c \in Counters : Latest(p, c)' >= Latest(p, c)]_vars
  BY <1>1, NextInv, SocialAssumption, ProgressionAssumption
<1> QED BY <1>1, Invariant, PTL DEF Spec, TotalsNeverDecrease
=============================================================================
