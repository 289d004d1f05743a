SPECIFICATION InventorySpec
CONSTANTS
  CardIds = {c1}
  Languages = {1, 4, 5}
  ShopTxs = {t1, t2}
  Skinned = c1
  Sold = c1
  ExchangeCards = 1
  ExchangeSand = 1
  RequiredSkins = 2
  ProductPrice = 1
  MaxAmount = 2
  StartSand = 5
  MaxCopies = 2
  MaxEdit = 1
INVARIANTS
  LanguagesAddUp
  ExchangesPaid
PROPERTIES
  LanguagesFollowTotals
