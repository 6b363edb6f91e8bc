---------------------------- MODULE AddressList ----------------------------
(***************************************************************************)
(* The address list contract (contracts/andromeda_addresslist) and the     *)
(* address list module by which another contract consults it before it     *)
(* executes anything (modules/address_list.rs).                            *)
(*                                                                         *)
(* Many address list contracts may be deployed on one chain, so the state  *)
(* is one record per deployed contract.                                    *)
(***************************************************************************)
EXTENDS Storage

CONSTANTS Users,          \* the addresses that sign messages
          ListContracts,  \* the addresses an address list contract may get
          ModeratorSets,  \* the moderator lists an instantiation may name
          NoList,         \* "no address list module is configured"
          Contract        \* the address of the contract that has the module

VARIABLE lists            \* deployed contract -> its stored state

ASSUME AddressListAssumption == ModeratorSets \subseteq SUBSET Users

ListState == [owner : Users \cup {Contract}, moderators : SUBSET Users, included : SUBSET Users]

AddressListType ==
  DOMAIN lists \subseteq ListContracts /\ \A l \in DOMAIN lists : lists[l] \in ListState

----------------------------------------------------------------------------
\* instantiate: the sender becomes the owner, the list is empty.  The address
\* of the new contract is fresh.
InstantiateList(l, sender, moderators) ==
  /\ l \in ListContracts \ DOMAIN lists
  /\ lists' = Save(lists, l, [owner |-> sender, moderators |-> moderators, included |-> {}])

IsModerator(l, sender) == sender \in lists[l].moderators

AddAddress(l, sender, address) ==
  /\ IsModerator(l, sender)
  /\ lists' = [lists EXCEPT ![l].included = @ \cup {address}]

\* An address that is not included is removed silently, without an error.
RemoveAddress(l, sender, address) ==
  /\ IsModerator(l, sender)
  /\ lists' = [lists EXCEPT ![l].included = @ \ {address}]

\* execute_update_owner; the owner of an address list may do nothing else.
UpdateListOwner(l, sender, new) ==
  /\ sender = lists[l].owner
  /\ lists' = [lists EXCEPT ![l].owner = new]

\* Every transaction on the deployed address lists.
ListNext ==
  \/ \E l \in ListContracts, s \in Users, mods \in ModeratorSets : InstantiateList(l, s, mods)
  \/ \E l \in DOMAIN lists, s, a \in Users :
       \/ AddAddress(l, s, a)
       \/ RemoveAddress(l, s, a)
       \/ UpdateListOwner(l, s, a)

----------------------------------------------------------------------------
(***************************************************************************)
(* The module.  It is configured with the address of a contract or with a  *)
(* code id from which a contract is instantiated, whose address the reply  *)
(* stores; either way its configuration comes down to the contract that    *)
(* get_contract_address gives and to the kind of list (white or black).    *)
(* Nothing checks that the configured address is an address list contract. *)
(***************************************************************************)
AddressListModules == [contract : ListContracts, inclusive : BOOLEAN]

\* query_includes_address, as the contract answers it now.
IncludesAddress(l, address) == address \in lists[l].included

\* is_authorized: the query to an address that is no address list contract is
\* an error, and so is an answer other than the one the list's kind asks for.
IsAuthorized(module, sender) ==
  /\ module.contract \in DOMAIN lists
  /\ IncludesAddress(module.contract, sender) = module.inclusive

\* The on_execute hook that precedes every message of a contract.
OnExecute(module, sender) == module # NoList => IsAuthorized(module, sender)

\* on_instantiate, with the reply that stores the new contract's address: a
\* module given by address is taken as it is; one given by code id makes
\* the contract instantiate an address list, which it then owns.
OnInstantiate(module) ==
  \/ UNCHANGED lists
  \/ /\ module # NoList
     /\ \E mods \in ModeratorSets : InstantiateList(module.contract, Contract, mods)
============================================================================
