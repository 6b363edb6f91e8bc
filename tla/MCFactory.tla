------------------------------ MODULE MCFactory ------------------------------
(***************************************************************************)
(* Creations on a small instance.                                          *)
(***************************************************************************)
EXTENDS Creation, TLC

CONSTANT nowhere   \* a string that is no address of a contract
MCStrings == Contracts \cup {nowhere}

\* Code id 4 is a list of the creator's own.
MCKindOf == <<"token", "receipt", "list", "list">>

\* The configurations: the right one, one with the receipts' and the lists' code ids
\* exchanged, and one that takes the receipts' code for the tokens'.
MCConfigurations ==
  { [token |-> 1, receipt |-> 2, list |-> 3],
    [token |-> 1, receipt |-> 3, list |-> 2],
    [token |-> 2, receipt |-> 2, list |-> 3] }

Definition(kind, address, code, moderated) ==
  [kind |-> kind, address |-> address, code |-> code, moderated |-> moderated]

\* No modules; a list and receipts by code id in both orders, with a code id that the
\* creator names; a list by address; two lists, which the validation refuses.
MCModuleLists ==
  LET list     == Definition("whitelist", Unset, Unset, TRUE)
      receipts == Definition("receipt", Unset, 4, TRUE)
      placed   == Definition("blacklist", 2, Unset, FALSE)
  IN  { <<>>, <<list, receipts>>, <<receipts, list>>, <<receipts, placed>>, <<list, placed>> }

\* Bound: the configurations above, and one contract instantiated elsewhere.
Bounded ==
  /\ config' \in Configurations
  /\ Cardinality({c \in DOMAIN contracts' : contracts'[c].code = Unset}) <= 1

MCSpec == Init /\ [][Next /\ Bounded]_creationVars

\* Users and symbols are interchangeable.
FactorySymmetry == Permutations(Users) \cup Permutations(Symbols)
==============================================================================
