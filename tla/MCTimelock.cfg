SPECIFICATION FairSpec
CONSTANTS
  Alice = Alice
  Bob = Bob
  BadAddress = BadAddress
  Coin = Coin
  Contract = timelock
  Users = {Alice, Bob}
  Accounts = {Alice, Bob, timelock}
  Recipients = {Alice, Bob, BadAddress}
  ListContracts = {list1}
  ModeratorSets <- MCModeratorSets
  NoList = NoList
  Denoms = {Coin}
  Funds <- MCFunds
  Endowment <- MCEndowment
  Expirations <- MCExpirations
  BlockTimes = {2}
  MaxHeight = 1
INVARIANTS TypeOK Solvent
PROPERTIES EscrowBinding KeepsBoxesApart RefusedMayDoNothing EscrowsArePaid
