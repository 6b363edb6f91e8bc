SPECIFICATION HSpec
CONSTANTS
  Gold = Gold
  Contract = token
  Users = {Alice, Bob}
  Recipients = {Alice, Bob}
  Ids = {t1}
  Prices = {}
  Listings = {}
  Expiries = {NeverExpires}
  NeverExpires = NeverExpires
  AnyPurchaser = AnyPurchaser
  None = None
  ModuleLists <- NoModules
  ListContracts = {}
  ModeratorSets = {}
  NoList = NoList
  MaxAmount = 1000
  DEFAULT_LIMIT = 1
  MAX_LIMIT = 2
  MaxHeight = 0
INVARIANTS BurnedIdsReserved
