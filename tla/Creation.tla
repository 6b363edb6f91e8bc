------------------------------ MODULE Creation ------------------------------
(***************************************************************************)
(* A creation as the chain carries it out.  The factory answers Create     *)
(* with a message that instantiates a token contract; that contract's      *)
(* instantiate handler answers with messages that instantiate the          *)
(* contracts of its modules.  Each message is carried out with everything  *)
(* it brings about, and then the contract that sent it gets a reply with   *)
(* the new address or the error (ReplyOn::Always).  All of them know the   *)
(* new contract only from that reply.                                      *)
(*                                                                         *)
(* The chain looks at the code id only: it instantiates whatever code that *)
(* is, with whatever message comes, if the code can parse the message.     *)
(***************************************************************************)
EXTENDS Storage, Integers, Sequences, FiniteSets

CONSTANTS Users, Symbols, Strings, CodeIds, Unset,   \* as in Factory
          KindOf,         \* code id -> "token", "receipt" or "list"
          Self,           \* the factory's address
          ModuleLists,    \* the module definitions a creator may ask for
          Configurations, \* the code ids the factory's owner may give
          MaxContracts    \* bound: the contracts instantiated in a behaviour

VARIABLES addresses, config, factoryOwner,   \* the factory's state
          contracts,      \* address -> what the contract there has stored
          tx              \* the creation being carried out, or NoTx

creationVars == <<addresses, config, factoryOwner, contracts, tx>>

\* The chain numbers its contracts.
Contracts == 1..MaxContracts
NextAddress == Cardinality(DOMAIN contracts) + 1

\* No transaction is being carried out.
NoTx == [frames |-> <<>>, failed |-> FALSE, before |-> EmptyMap]

\* A module definition: its kind, the address or the code id it gives, and whether
\* it gives moderators.
ModuleDefinition ==
  [kind : {"whitelist", "blacklist", "receipt"}, address : Strings \cup {Unset},
   code : CodeIds \cup {Unset}, moderated : BOOLEAN]

ASSUME CreationAssumption ==
  /\ MaxContracts \in Nat
  /\ Contracts \subseteq Strings
  /\ Unset \notin Symbols \cup Strings
  /\ Self \notin Contracts
  /\ Users \cap Contracts = {}
  /\ Configurations \subseteq [token : CodeIds, receipt : CodeIds, list : CodeIds]
  /\ ModuleLists \subseteq Seq(ModuleDefinition)
  /\ KindOf \in [CodeIds -> {"token", "receipt", "list"}]

----------------------------------------------------------------------------
IsList(m) == m.kind \in {"whitelist", "blacklist"}

\* Module::validate of the two modules that have a contract: one of each, and an
\* address or else a code id with moderators.
ValidModules(modules) ==
  \A i \in DOMAIN modules :
    /\ \A j \in DOMAIN modules : IsList(modules[j]) = IsList(modules[i]) => j = i
    /\ modules[i].address # Unset \/ (modules[i].code # Unset /\ modules[i].moderated)

\* Mutant of AssignCodes: a code id that the creator names is left in place.
AssignMissingCodes(modules) ==
  [i \in DOMAIN modules |->
     IF modules[i].code # Unset THEN modules[i]
     ELSE [modules[i] EXCEPT !.code = IF IsList(modules[i]) THEN config.list ELSE config.receipt]]

\* What create makes of a creator's modules.
AssignCodes(modules) ==
  [i \in DOMAIN modules |->
     [modules[i] EXCEPT !.code = IF IsList(modules[i]) THEN config.list ELSE config.receipt]]

REPLY_CREATE_TOKEN == 1
REPLY_RECEIPT == 1
REPLY_ADDRESS_LIST == 2

\* A message that instantiates a contract: what it is meant to be, the code to use
\* and, for a token contract, the rest of the InstantiateMsg.
TokenInstantiation(sender, symbol, modules) ==
  [id |-> REPLY_CREATE_TOKEN, asked |-> "token", code |-> config.token,
   minter |-> sender, symbol |-> symbol, modules |-> modules]

\* Mutant of ModuleInstantiation: receipts and lists have the same reply id.
ModuleInstantiationOneId(m) ==
  [id |-> REPLY_RECEIPT, asked |-> IF IsList(m) THEN "list" ELSE "receipt", code |-> m.code,
   minter |-> Unset, symbol |-> Unset, modules |-> <<>>]

ModuleInstantiation(m) ==
  [id |-> IF IsList(m) THEN REPLY_ADDRESS_LIST ELSE REPLY_RECEIPT,
   asked |-> IF IsList(m) THEN "list" ELSE "receipt", code |-> m.code,
   minter |-> Unset, symbol |-> Unset, modules |-> <<>>]

\* on_instantiate of a module: no message if it has an address.
OnInstantiate(m) == IF m.address = Unset THEN <<ModuleInstantiation(m)>> ELSE <<>>

\* on_instantiate of valid modules, of which there are two at most, in their order.
ModuleInstantiations(modules) ==
  (IF Len(modules) >= 1 THEN OnInstantiate(modules[1]) ELSE <<>>)
    \o (IF Len(modules) >= 2 THEN OnInstantiate(modules[2]) ELSE <<>>)

----------------------------------------------------------------------------
\* Messages are parsed by the fields they have: a receipt contract is content with
\* the minter of a token's message, a list with the moderators of a receipt's.
Parses(kind, asked) ==
  \/ kind = asked
  \/ kind = "receipt" /\ asked = "token"
  \/ kind = "list" /\ asked = "receipt"

\* instantiate of that code succeeds with this message.
Instantiable(m) ==
  /\ Parses(KindOf[m.code], m.asked)
  /\ KindOf[m.code] = "token" => ValidModules(m.modules)

\* What a new contract stores: CONTRACT_OWNER is the minter of a token contract and
\* the sender for the other two; the addresses of the modules' contracts
\* (ADDRESS_LIST_CONTRACT, RECEIPT_CONTRACT) come later.
NewContract(m, sender) ==
  IF KindOf[m.code] = "token"
  THEN [kind |-> "token", code |-> m.code, owner |-> m.minter, symbol |-> m.symbol,
        modules |-> m.modules, list |-> Unset, receipt |-> Unset]
  ELSE [kind |-> KindOf[m.code], code |-> m.code, owner |-> sender, symbol |-> Unset,
        modules |-> <<>>, list |-> Unset, receipt |-> Unset]

\* The messages in the response of its instantiate handler.
Response(m) == IF KindOf[m.code] = "token" THEN ModuleInstantiations(m.modules) ELSE <<>>

\* A contract whose messages are being carried out: those still to come, the first of
\* them possibly under way, and the contracts as they were before it ran.
Frame(who, todo) == [who |-> who, todo |-> todo, undo |-> contracts]

Top == Head(tx.frames)

\* get_reply_address: the address of the contract just instantiated.
ReplyAddress == Top.who

\* The frame below, whose first message has been carried out by the one on top.
Caller == tx.frames[2]
OneMessageLess(frame) == [frame EXCEPT !.todo = Tail(@)]
FramesAfterReply == <<OneMessageLess(Caller)>> \o Tail(Tail(tx.frames))

----------------------------------------------------------------------------
\* What is known of the contracts outside, as Factory has it.
Summary(cs) ==
  [c \in DOMAIN cs |-> [owner |-> cs[c].owner, symbol |-> cs[c].symbol, code |-> cs[c].code]]

Now == INSTANCE Factory WITH deployed <- Summary(contracts)

\* Mutant of Create: whether the symbol is in use is not checked.
CreateAgain(sender, symbol, modules) ==
  /\ tx = NoTx
  /\ LET message == TokenInstantiation(sender, symbol, AssignCodes(modules))
     IN  /\ NextAddress + Len(modules) <= MaxContracts
         /\ tx' = [frames |-> <<Frame(Self, <<message>>)>>, failed |-> FALSE, before |-> addresses]
  /\ UNCHANGED <<addresses, config, factoryOwner, contracts>>

\* create
Create(sender, symbol, modules) ==
  /\ tx = NoTx
  /\ ~Now!IsAddressDefined(symbol)
  /\ LET message == TokenInstantiation(sender, symbol, AssignCodes(modules))
     IN  /\ NextAddress + Len(modules) <= MaxContracts
         /\ tx' = [frames |-> <<Frame(Self, <<message>>)>>, failed |-> FALSE, before |-> addresses]
  /\ UNCHANGED <<addresses, config, factoryOwner, contracts>>

\* The next message of the contract on top.
Waiting == tx # NoTx /\ ~tx.failed /\ Top.todo # <<>>

Instantiate ==
  /\ Waiting
  /\ LET m == Head(Top.todo)
     IN  /\ Instantiable(m)
         /\ contracts' = Save(contracts, NextAddress, NewContract(m, Top.who))
         /\ tx' = [tx EXCEPT !.frames = <<Frame(NextAddress, Response(m))>> \o @]
  /\ UNCHANGED <<addresses, config, factoryOwner>>

\* The contract that sent the message gets the error for a reply, and returns it.
InstantiateFails ==
  /\ Waiting
  /\ ~Instantiable(Head(Top.todo))
  /\ tx' = [tx EXCEPT !.failed = TRUE]
  /\ UNCHANGED <<addresses, config, factoryOwner, contracts>>

\* The messages of the contract on top have been carried out, those of its caller
\* perhaps not.
Finished == tx # NoTx /\ ~tx.failed /\ Top.todo = <<>> /\ Len(tx.frames) > 1

\* on_receipt_reply and on_address_list_reply, in a token contract.
TokenReply ==
  /\ Finished
  /\ Caller.who # Self
  /\ contracts' =
       CASE Head(Caller.todo).id = REPLY_RECEIPT      -> [contracts EXCEPT ![Caller.who].receipt = ReplyAddress]
         [] Head(Caller.todo).id = REPLY_ADDRESS_LIST -> [contracts EXCEPT ![Caller.who].list = ReplyAddress]
  /\ tx' = [tx EXCEPT !.frames = FramesAfterReply]
  /\ UNCHANGED <<addresses, config, factoryOwner>>

\* Mutant of FactoryReply: the address is stored under the symbol that was asked for.
FactoryReplyUnasked ==
  /\ Finished
  /\ Caller.who = Self
  /\ addresses' = Save(addresses, Head(Caller.todo).symbol, ReplyAddress)
  /\ tx' = [tx EXCEPT !.frames = FramesAfterReply]
  /\ UNCHANGED <<config, factoryOwner, contracts>>

\* on_token_creation_reply: the address is stored under the symbol that the new
\* contract answers with.
FactoryReply ==
  /\ Finished
  /\ Caller.who = Self
  /\ contracts[ReplyAddress].kind = "token"
  /\ addresses' = Save(addresses, contracts[ReplyAddress].symbol, ReplyAddress)
  /\ tx' = [tx EXCEPT !.frames = FramesAfterReply]
  /\ UNCHANGED <<config, factoryOwner, contracts>>

\* A contract that is no token contract does not answer with a symbol.
FactoryReplyFails ==
  /\ Finished
  /\ Caller.who = Self
  /\ contracts[ReplyAddress].kind # "token"
  /\ tx' = [tx EXCEPT !.frames = Tail(@), !.failed = TRUE]
  /\ UNCHANGED <<addresses, config, factoryOwner, contracts>>

\* What the contract on top has done is undone; its caller gets the error for a reply
\* and returns it in turn (the beginning of both reply handlers), or there is none
\* and the transaction has failed.
Abort ==
  /\ tx # NoTx /\ tx.failed
  /\ contracts' = Top.undo
  /\ tx' = IF Len(tx.frames) = 1 THEN NoTx ELSE [tx EXCEPT !.frames = Tail(@)]
  /\ UNCHANGED <<addresses, config, factoryOwner>>

Commit ==
  /\ tx # NoTx /\ ~tx.failed /\ Top.todo = <<>> /\ Len(tx.frames) = 1
  /\ tx' = NoTx
  /\ UNCHANGED <<addresses, config, factoryOwner, contracts>>

----------------------------------------------------------------------------
\* The other messages to the factory, each a transaction of its own.
UpdateAddress(sender, symbol, new) ==
  tx = NoTx /\ UNCHANGED <<contracts, tx>> /\ Now!UpdateAddress(sender, symbol, new)

UpdateCodeId(sender, kinds, new) ==
  tx = NoTx /\ UNCHANGED <<contracts, tx>> /\ Now!UpdateCodeId(sender, kinds, new)

UpdateOwner(sender, new) ==
  tx = NoTx /\ UNCHANGED <<contracts, tx>> /\ Now!UpdateOwner(sender, new)

\* execute_update_owner of any of the contracts.
ContractOwnerChanges(c, sender, new) ==
  /\ tx = NoTx
  /\ sender = contracts[c].owner
  /\ contracts' = [contracts EXCEPT ![c].owner = new]
  /\ UNCHANGED <<addresses, config, factoryOwner, tx>>

\* A user instantiates a contract that has no modules.
DeployElsewhere(sender, kind, symbol) ==
  /\ tx = NoTx
  /\ NextAddress \in Contracts
  /\ contracts' = Save(contracts, NextAddress,
       [kind |-> kind, code |-> Unset, owner |-> sender,
        symbol |-> IF kind = "token" THEN symbol ELSE Unset,
        modules |-> <<>>, list |-> Unset, receipt |-> Unset])
  /\ UNCHANGED <<addresses, config, factoryOwner, tx>>

Init ==
  /\ addresses = EmptyMap
  /\ config \in Configurations
  /\ factoryOwner \in Users
  /\ contracts = EmptyMap
  /\ tx = NoTx

Deliver ==
  Instantiate \/ InstantiateFails \/ TokenReply \/ FactoryReply \/ FactoryReplyFails \/ Abort \/ Commit

\* A message that "u" sends.
Message(u) ==
  \/ \E s \in Symbols, ms \in ModuleLists : Create(u, s, ms)
  \/ \E s \in Symbols, a \in Strings : UpdateAddress(u, s, a)
  \/ \E kinds \in SUBSET {"token", "receipt", "list"}, new \in Configurations : UpdateCodeId(u, kinds, new)
  \/ \E new \in Users : UpdateOwner(u, new) \/ \E c \in DOMAIN contracts : ContractOwnerChanges(c, u, new)
  \/ \E kind \in {"token", "receipt", "list"}, s \in Symbols : DeployElsewhere(u, kind, s)

Next == (\E u \in Users : Message(u)) \/ Deliver

Spec == Init /\ [][Next]_creationVars

----------------------------------------------------------------------------
\* What others can see: the state between transactions.
Committed ==
  IF tx = NoTx THEN [addresses |-> addresses, contracts |-> contracts]
  ELSE [addresses |-> tx.before, contracts |-> tx.frames[Len(tx.frames)].undo]

F == INSTANCE Factory WITH
  addresses <- Committed.addresses, deployed <- Summary(Committed.contracts)

\* A creation is atomic: however deep the messages nest and wherever one of them fails,
\* others see nothing of it or all of it, with one configuration's code ids.
ImplementsFactory == F!Spec

TypeOK == F!TypeOK
CreationTakesNoSymbol == F!CreationTakesNoSymbol
DeadEndsStay == F!DeadEndsStay

\* Whichever of the three kinds of contract the configured code ids name, an entry that a
\* creation makes names a token contract of that symbol, although code that takes the
\* message for one of its own is instantiated without an error (the query in the reply).
NewEntriesAreTokens ==
  [][\A s \in DOMAIN addresses' \ DOMAIN addresses :
       addresses'[s] \in DOMAIN contracts' /\ contracts'[addresses'[s]].kind = "token"
         /\ contracts'[addresses'[s]].symbol = s]_creationVars

\* The contract that a token contract uses for its module m, as query_module_info
\* reports it.
ContractOf(token, m) ==
  IF m.address # Unset THEN m.address ELSE IF IsList(m) THEN token.list ELSE token.receipt

\* Contract d was made for module m of token contract c, and is what it should be.
MadeFor(cs, c, m, d) ==
  /\ d \in DOMAIN cs
  /\ cs[d].owner = c
  /\ cs[d].code = m.code
  /\ IsList(m) => cs[d].kind = "list"

\* The modules of c that came without an address have contracts of their own.
OwnModulesOf(cs, c) ==
  \A i \in DOMAIN cs[c].modules :
    cs[c].modules[i].address = Unset =>
      /\ MadeFor(cs, c, cs[c].modules[i], ContractOf(cs[c], cs[c].modules[i]))
      /\ \A j \in DOMAIN cs[c].modules \ {i} :
           cs[c].modules[j].address = Unset =>
             ContractOf(cs[c], cs[c].modules[j]) # ContractOf(cs[c], cs[c].modules[i])

OwnModules(cs) == \A c \in DOMAIN cs : OwnModulesOf(cs, c)

\* Each module that came without an address has a contract of its own: instantiated
\* for this token contract and owned by it for good, not mistaken for the other
\* module's (the replies come one by one, told apart by their ids), and a list really
\* is a list.
ModulesOfItsOwn == tx = NoTx => OwnModules(contracts)
=============================================================================
