------------------------------- MODULE MCToken -------------------------------
(***************************************************************************)
(* The token contract on small instances.                                  *)
(***************************************************************************)
EXTENDS Token, TLC

CONSTANTS Gold

UserSymmetry == Permutations(Users)

OnePrice == {CoinOf(Gold, 1)}
NoModules == {<<>>}
ListModules == {<<m>> : m \in {Whitelist(l) : l \in ListContracts} \cup {Blacklist(l) : l \in ListContracts}}
  \cup {<<Whitelist(l), Blacklist(l)>> : l \in ListContracts}
AllModerate == {Users}

==============================================================================
