SPECIFICATION Spec
CONSTANTS
  Gold = Gold
  Contract = token
  Users = {Alice, Bob}
  Recipients = {Alice, Bob}
  Ids = {t1}
  Prices <- OnePrice
  Listings = {}
  Expiries = {1}
  NeverExpires = NeverExpires
  AnyPurchaser = AnyPurchaser
  None = None
  ModuleLists <- ListModules
  ListContracts = {list1}
  ModeratorSets <- AllModerate
  NoList = NoList
  MaxAmount = 1000
  DEFAULT_LIMIT = 1
  MAX_LIMIT = 2
  MaxHeight = 1
PROPERTIES RefusedOwnerMayOnlyLose
SYMMETRY UserSymmetry
