SPECIFICATION MCSpec
CONSTANTS
  Users = {Alice, Bob}
  Symbols = {AAA, BBB}
  Strings <- MCStrings
  CodeIds = {1, 2, 3, 4}
  Unset = Unset
  KindOf <- MCKindOf
  Self = factory
  ModuleLists <- MCModuleLists
  Configurations <- MCConfigurations
  nowhere = nowhere
  MaxContracts = 3
SYMMETRY FactorySymmetry
INVARIANTS TypeOK ModulesOfItsOwn
PROPERTIES ImplementsFactory CreationTakesNoSymbol DeadEndsStay NewEntriesAreTokens
