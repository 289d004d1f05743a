SPECIFICATION Spec
CONSTANTS
  Cards = {c1, c2}
  Txs = {t1, t2}
  Uuids = {u1, u2}
  TutorialTx = t0
  TutorialCard = c1
  Calls = {r1, r2}
  Mixes = {{"open", "exchange"}, {"special", "tutorial", "exchange"}}
  Ten = 2
  Price = 1
  MaxPower = 2
  Period = 2
  Week = 2
  CardPrice = 3
  StartGold = 1
  StartTickets = 1
  MaxTime = 2
  None = None
SYMMETRY Symmetry
INVARIANTS
  PacksPaid
  BooksBalance
  SpecialPacksPaid
