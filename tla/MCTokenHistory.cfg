SPECIFICATION HSpec
CONSTANTS
  Gold = Gold
  Contract = token
  Users = {Alice, Bob}
  Recipients = {Alice, Bob}
  Ids = {t1}
  Prices <- OnePrice
  Listings = {}
  Expiries = {1, NeverExpires}
  NeverExpires = NeverExpires
  AnyPurchaser = AnyPurchaser
  None = None
  ModuleLists <- NoModules
  ListContracts = {}
  ModeratorSets = {}
  NoList = NoList
  MaxAmount = 1000
  DEFAULT_LIMIT = 1
  MAX_LIMIT = 2
  MaxHeight = 1
INVARIANTS TypeOK OneApprovalPerSpender GrantsAreHonoured NumTokensExact PagesMissNoOperator
PROPERTIES MovesAreAuthorised ArchivedForGood ImplementsRegistry
SYMMETRY UserSymmetry
