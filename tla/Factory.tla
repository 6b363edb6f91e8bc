------------------------------- MODULE Factory -------------------------------
(***************************************************************************)
(* The factory contract (contracts/andromeda_factory): it instantiates     *)
(* token contracts and keeps their addresses under their symbols.          *)
(*                                                                         *)
(* Here a creation is one step.  The chain carries it out in several: the  *)
(* token contract is instantiated, then the contracts of its modules, and  *)
(* each answers with a reply; the module Creation has these steps and      *)
(* implements this one.                                                    *)
(***************************************************************************)
EXTENDS Storage, Naturals

CONSTANTS Users,          \* the addresses that sign messages
          Symbols,        \* the symbols that InstantiateMsg::validate accepts
          Contracts,      \* the addresses a new contract may get
          Strings,        \* what update_address may be given: contracts and other strings
          CodeIds,        \* the code ids of the three kinds of contract
          Unset           \* no code id, no symbol

VARIABLES addresses,      \* SYM_ADDRESS: symbol -> address
          config,         \* CONFIG: the three code ids
          factoryOwner,   \* CONTRACT_OWNER
          deployed        \* contract -> what others can find out about it

factoryVars == <<addresses, config, factoryOwner, deployed>>

Config == [token : CodeIds, receipt : CodeIds, list : CodeIds]

\* What is known of a contract: it answers the query for its owner, and a token
\* contract the query for its symbol.  "code" is the code id it was made from if the
\* factory had it made.
Deployment ==
  [owner : Users \cup Contracts, symbol : Symbols \cup {Unset}, code : CodeIds \cup {Unset}]

TypeOK ==
  /\ DOMAIN addresses \subseteq Symbols /\ \A s \in DOMAIN addresses : addresses[s] \in Strings \cup Contracts
  /\ config \in Config
  /\ factoryOwner \in Users
  /\ DOMAIN deployed \subseteq Contracts /\ \A c \in DOMAIN deployed : deployed[c] \in Deployment

----------------------------------------------------------------------------
IsAddressDefined(symbol) == symbol \in DOMAIN addresses

\* The owner that the contract registered for a symbol answers with; the query is an
\* error if the symbol is not registered or no contract is there to answer.
KnowsOwner(symbol) == IsAddressDefined(symbol) /\ addresses[symbol] \in DOMAIN deployed

\* Mutant of MayRepoint: the factory's owner need not ask the contract.
OwnerMayRepoint(sender, symbol) ==
  \/ sender = factoryOwner /\ IsAddressDefined(symbol)
  \/ KnowsOwner(symbol) /\ sender = deployed[addresses[symbol]].owner

\* is_creator or is_contract_owner: the error of the first precedes the second.
MayRepoint(sender, symbol) ==
  /\ KnowsOwner(symbol)
  /\ sender \in {deployed[addresses[symbol]].owner, factoryOwner}

\* create, with all the replies.  The new token contract gets the address "c"; the
\* contracts of its modules, which it owns, get the addresses in the domain of
\* "parts", which says what each is meant to be.  Messages with a name or with modules
\* that the validation refuses change nothing, and neither does a failing creation.
Create(sender, symbol, parts, c) ==
  /\ ~IsAddressDefined(symbol)
  /\ c \in Contracts \ DOMAIN deployed
  /\ DOMAIN parts \subseteq Contracts \ (DOMAIN deployed \cup {c})
  /\ deployed' =
       [d \in DOMAIN deployed \cup {c} \cup DOMAIN parts |->
          IF d \in DOMAIN deployed THEN deployed[d]
          ELSE IF d = c THEN [owner |-> sender, symbol |-> symbol, code |-> config.token]
          ELSE [owner |-> c, symbol |-> Unset, code |-> config[parts[d]]]]
  /\ addresses' = Save(addresses, symbol, c)
  /\ UNCHANGED <<config, factoryOwner>>

\* Mutant of UpdateAddress: symbol and address are swapped when they are stored.
StoreSwapped(sender, symbol, new) ==
  /\ MayRepoint(sender, symbol)
  /\ addresses' = Save(addresses, new, symbol)
  /\ UNCHANGED <<config, factoryOwner, deployed>>

\* update_address: the new address is any string.
UpdateAddress(sender, symbol, new) ==
  /\ MayRepoint(sender, symbol)
  /\ addresses' = Save(addresses, symbol, new)
  /\ UNCHANGED <<config, factoryOwner, deployed>>

\* update_code_id: the code ids named replace those stored.
UpdateCodeId(sender, kinds, new) ==
  /\ kinds # {}
  /\ sender = factoryOwner
  /\ config' = [k \in DOMAIN config |-> IF k \in kinds THEN new[k] ELSE config[k]]
  /\ UNCHANGED <<addresses, factoryOwner, deployed>>

\* execute_update_owner
UpdateOwner(sender, new) ==
  /\ sender = factoryOwner
  /\ factoryOwner' = new
  /\ UNCHANGED <<addresses, config, deployed>>

\* execute_update_owner, of a contract that the factory may know; a contract that
\* owns another never sends this message.
ContractOwnerChanges(c, new) ==
  /\ c \in DOMAIN deployed
  /\ deployed[c].owner \in Users
  /\ deployed' = [deployed EXCEPT ![c].owner = new]
  /\ UNCHANGED <<addresses, config, factoryOwner>>

\* A contract is instantiated by a user, with or without a symbol.
DeployElsewhere(sender, symbol, c) ==
  /\ c \in Contracts \ DOMAIN deployed
  /\ deployed' = Save(deployed, c, [owner |-> sender, symbol |-> symbol, code |-> Unset])
  /\ UNCHANGED <<addresses, config, factoryOwner>>

----------------------------------------------------------------------------
\* instantiate
Init ==
  /\ addresses = EmptyMap
  /\ config \in Config
  /\ factoryOwner \in Users
  /\ deployed = EmptyMap

\* A message to the factory that "u" sends.
FactoryMessage(u) ==
  \/ \E s \in Symbols, c \in Contracts, made \in SUBSET Contracts :
       \E parts \in [made -> {"receipt", "list"}] : Create(u, s, parts, c)
  \/ \E s \in Symbols, a \in Strings : UpdateAddress(u, s, a)
  \/ \E kinds \in SUBSET {"token", "receipt", "list"}, new \in Config : UpdateCodeId(u, kinds, new)
  \/ \E new \in Users : UpdateOwner(u, new)

Elsewhere ==
  \E u \in Users, c \in Contracts :
    ContractOwnerChanges(c, u) \/ \E s \in Symbols \cup {Unset} : DeployElsewhere(u, s, c)

Next == (\E u \in Users : FactoryMessage(u)) \/ Elsewhere

Spec == Init /\ [][Next]_factoryVars

----------------------------------------------------------------------------
\* A symbol belongs to its first token for good: no later creation, in whatever
\* order with re-pointings, takes its entry over or frees it (is_address_defined, and
\* a reply that stores under the symbol the contract reports).
CreationTakesNoSymbol ==
  [][\A s \in DOMAIN addresses :
       /\ s \in DOMAIN addresses'
       /\ DOMAIN deployed' # DOMAIN deployed => addresses'[s] = addresses[s]]_factoryVars

\* A symbol that points at an address where no contract answers is stuck there, for
\* the factory's owner too: is_creator fails before is_contract_owner is asked.
DeadEndsStay ==
  [][\A s \in DOMAIN addresses : addresses[s] \notin DOMAIN deployed =>
       s \in DOMAIN addresses' /\ addresses'[s] = addresses[s]]_factoryVars
==============================================================================
