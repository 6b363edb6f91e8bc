SPECIFICATION Spec
CONSTANTS
  Alice = Alice
  Bob = Bob
  Nowhere = Nowhere
  Gold = Gold
  Silver = Silver
  Contract = splitter
  Users = {Alice, Bob}
  Accounts = {Alice, Bob, splitter}
  ListContracts = {list1}
  ModeratorSets <- MCModeratorSets
  NoList = NoList
  Denoms = {Gold, Silver}
  RecipientLists <- MCRecipientLists
  Funds <- MCFunds
  Endowment <- MCEndowment
  ZeroCoinsRefused = TRUE
PROPERTIES LockedConfigKept
