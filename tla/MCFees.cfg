SPECIFICATION Spec
CHECK_DEADLOCK FALSE
CONSTANTS
  Seller = Seller
  Artist = Artist
  State = State
  Gold = Gold
  Silver = Silver
  Currency = Gold
  Accounts = {Seller, Artist, State}
  Denoms = {Gold, Silver}
  FeeModules <- MCFeeModules
  MaxModules = 2
  MaxAmount = 1250
  MaxPrice = 13
INVARIANTS SettledAsAgreed RefusedWhenUnpayable
