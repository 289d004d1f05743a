SPECIFICATION Spec
CONSTANTS
  p1 = p1
  p2 = p2
  f1 = f1
  c1 = c1
  collector = collector
  winner = winner
  Players = {p1, p2, p3}
  Cards = {c1, c2}
  Feeds = {f1, f2}
  Routes = {shop, gift, feed}
  Txs = {x1}
  Calls = {r1, r2}
  Viewers = {p1}
  Mixes <- Mixed
  Owner <- FeedOwner
  Shown <- FeedCards
  Drawn <- FeedDraw
  Price <- CardPrice
  Copies = 2
  MaxOpenings = 1
  Unlock = 1
  DayLength = 2
  DayReset = 1
  ThankLimit = 1
  PowerLimit = 2
  PowerPeriod = 1
  ChargerTime = 1
  Chargers = 1
  FeedLifetime = 1
  None = None
  Battles = {b1, b2}
  Runs = {i1, i2}
  Trophies = {collector, winner}
  Counted <- TrophyCounters
  Amounts <- TrophyAmounts
  Sand <- Pays
  MaxWins = 2
  Missions = {m1, m2}
  Tutorials = {t1, t2}
  RequiredExp <- LevelExp
SYMMETRY Symmetry
INVARIANTS
  RequestsPending
  CardsAccounted
  FeedPaidOnce
  ThanksBounded
  RewardsAccounted
  SyncSkipsNothing
PROPERTIES
  TotalsNeverDecrease
CHECK_DEADLOCK FALSE
