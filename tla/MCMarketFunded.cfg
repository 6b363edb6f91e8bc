SPECIFICATION MCSpec
CONSTANTS
  Alice = Alice
  Shop = Shop
  Artist = Artist
  Gold = Gold
  Contract = token
  Users = {Alice, Bob, Shop}
  Vendors = {Shop}
  Recipients = {Alice, Bob, Shop}
  Accounts = {Alice, Bob, Shop, Artist, token}
  Ids = {t1}
  Denoms = {Gold}
  Prices <- MCPrices
  Listings = {}
  Funds <- MCFunds
  Endowment <- MCEndowment
  ZeroCoinsRefused = TRUE
  Expiries = {NeverExpires}
  NeverExpires = NeverExpires
  AnyPurchaser = AnyPurchaser
  None = None
  NoTx = NoTx
  ModuleLists <- MCModuleLists
  ListContracts = {}
  ModeratorSets = {}
  NoList = NoList
  MaxAmount = 1000
  DEFAULT_LIMIT = 1
  MAX_LIMIT = 2
  MaxHeight = 0
  MaxCalls = 1
INVARIANTS SalesAreFunded
