------------------------------ MODULE Timelock ------------------------------
(***************************************************************************)
(* The timelock contract (contracts/andromeda_timelock): an address leaves *)
(* coins with the contract, which pays them to the recipient it named when *)
(* it asks for them after the expiration.                                  *)
(*                                                                         *)
(* A transaction is one step: the funds attached to the message move to    *)
(* the contract, the handler runs, and the payment in its response moves   *)
(* from the contract; a handler that fails leaves no trace, and is not a   *)
(* step.  Funds attached to a message that has no use for them stay with   *)
(* the contract.                                                           *)
(***************************************************************************)
EXTENDS AddressList, Bank, Integers, Functions

CONSTANTS Recipients,     \* the strings a depositor may give as recipient
          Expirations,    \* the expirations a depositor may ask for
          Funds,          \* the coins a message may carry
          Endowment,      \* what each user holds at the start
          BlockTimes,     \* the times that may pass between two blocks
          MaxHeight       \* bound: the last block of a behaviour

VARIABLES held,           \* HELD_FUNDS: depositor -> escrow
          addressList,    \* STATE: the address list module, or NoList
          contractOwner,  \* CONTRACT_OWNER
          bank,           \* account -> coins
          block           \* height and time of the current block

contractVars == <<held, addressList, contractOwner>>
vars == <<held, addressList, contractOwner, lists, bank, block>>

AtTime(t) == [kind |-> "AtTime", at |-> t]
AtHeight(h) == [kind |-> "AtHeight", at |-> h]
Never == [kind |-> "Never", at |-> 0]
NoExpiration == [kind |-> "None", at |-> 0]

ASSUME TimelockAssumption ==
  /\ Users \subseteq Accounts
  /\ Contract \in Accounts \ Users
  /\ Funds \subseteq Coins
  /\ \A e \in Expirations : e.kind \in {"AtTime", "AtHeight", "Never", "None"} /\ e.at \in Nat
  /\ Endowment \in Coins
  /\ BlockTimes \subseteq Nat \ {0}
  /\ MaxHeight \in Nat
  /\ NoList \notin AddressListModules

Escrow == [coins : Coins, expiration : Expirations, recipient : Accounts]

Blocks == [height : Nat, time : Nat]

HeldType == DOMAIN held \subseteq Users /\ \A u \in DOMAIN held : held[u] \in Escrow

TypeOK ==
  /\ HeldType
  /\ addressList \in AddressListModules \cup {NoList}
  /\ contractOwner \in Users
  /\ AddressListType
  /\ bank \in [Accounts -> Coins]
  /\ block \in Blocks

----------------------------------------------------------------------------
\* Mutant of ValidEscrow: the recipient is not validated.
AnyRecipient(escrow) ==
  /\ ~IsEmpty(escrow.coins)
  /\ escrow.expiration.kind = "AtTime" => escrow.expiration.at >= block.time
  /\ escrow.expiration.kind # "Never"

\* Escrow::validate: of the expirations in the past only AtTime is refused.
ValidEscrow(escrow) ==
  /\ ~IsEmpty(escrow.coins)
  /\ escrow.recipient \in Accounts
  /\ escrow.expiration.kind = "AtTime" => escrow.expiration.at >= block.time
  /\ escrow.expiration.kind # "Never"

\* Mutant of StillLocked: the comparison with the height is off by one.
LockedAtExpiration(escrow) ==
  \/ escrow.expiration.kind = "AtTime" /\ escrow.expiration.at > block.time
  \/ escrow.expiration.kind = "AtHeight" /\ escrow.expiration.at >= block.height

\* Mutant of StillLocked: only the time is compared.
LockedByTimeOnly(escrow) == escrow.expiration.kind = "AtTime" /\ escrow.expiration.at > block.time

\* The match on the expiration in execute_release_funds.
StillLocked(escrow) ==
  \/ escrow.expiration.kind = "AtTime" /\ escrow.expiration.at > block.time
  \/ escrow.expiration.kind = "AtHeight" /\ escrow.expiration.at > block.height

\* Mutant of Execute: the address list is not consulted.
Ungated(sender, funds) == Covers(bank[sender], funds)

\* What precedes every handler: the funds arrive, the address list agrees.
Execute(sender, funds) ==
  /\ Covers(bank[sender], funds)
  /\ OnExecute(addressList, sender)

Received(sender, funds) == Transfer(bank, sender, Contract, funds)

\* hold_funds: an escrow is never overwritten.
KeepEscrow(sender, escrow) == sender \notin DOMAIN held /\ held' = Save(held, sender, escrow)

\* release_funds
DropEscrow(sender) == sender \in DOMAIN held /\ held' = Delete(held, sender)

\* Mutant of ReleaseFunds: the escrow is paid but not removed.
ReleaseAndKeep(sender, funds) ==
  /\ Execute(sender, funds)
  /\ sender \in DOMAIN held
  /\ ~StillLocked(held[sender])
  /\ Covers(Received(sender, funds)[Contract], held[sender].coins)
  /\ bank' = Transfer(Received(sender, funds), Contract, held[sender].recipient, held[sender].coins)
  /\ UNCHANGED <<held, addressList, contractOwner, lists, block>>

\* Mutant of ReleaseFunds: the coins go to whoever asks for them.
ReleaseToSender(sender, funds) ==
  /\ Execute(sender, funds)
  /\ sender \in DOMAIN held
  /\ ~StillLocked(held[sender])
  /\ Covers(Received(sender, funds)[Contract], held[sender].coins)
  /\ bank' = Transfer(Received(sender, funds), Contract, sender, held[sender].coins)
  /\ DropEscrow(sender)
  /\ UNCHANGED <<addressList, contractOwner, lists, block>>

\* execute_hold_funds
HoldFunds(sender, funds, expiration, recipient) ==
  LET escrow == [coins |-> funds, expiration |-> expiration, recipient |-> recipient]
  IN  /\ Execute(sender, funds)
      /\ ValidEscrow(escrow)
      /\ KeepEscrow(sender, escrow)
      /\ bank' = Received(sender, funds)
      /\ UNCHANGED <<addressList, contractOwner, lists, block>>

\* execute_release_funds
ReleaseFunds(sender, funds) ==
  /\ Execute(sender, funds)
  /\ sender \in DOMAIN held
  /\ ~StillLocked(held[sender])
  /\ Covers(Received(sender, funds)[Contract], held[sender].coins)
  /\ bank' = Transfer(Received(sender, funds), Contract, held[sender].recipient, held[sender].coins)
  /\ DropEscrow(sender)
  /\ UNCHANGED <<addressList, contractOwner, lists, block>>

UpdateOwner(sender, funds, new) ==
  /\ Execute(sender, funds)
  /\ sender = contractOwner
  /\ contractOwner' = new
  /\ bank' = Received(sender, funds)
  /\ UNCHANGED <<held, addressList, lists, block>>

UpdateAddressList(sender, funds, module) ==
  /\ Execute(sender, funds)
  /\ sender = contractOwner
  /\ OnInstantiate(module)
  /\ addressList' = module
  /\ bank' = Received(sender, funds)
  /\ UNCHANGED <<held, contractOwner, block>>

\* The chain goes on to the next block.
NextBlock ==
  /\ block.height < MaxHeight
  /\ \E t \in BlockTimes : block' = [height |-> block.height + 1, time |-> block.time + t]
  /\ UNCHANGED <<contractVars, lists, bank>>

\* A transaction on one of the address list contracts.
ListTransaction == ListNext /\ UNCHANGED <<contractVars, bank, block>>

----------------------------------------------------------------------------
\* instantiate: with a module of either kind, or none, by a user who becomes
\* the owner.
Init ==
  /\ held = EmptyMap
  /\ contractOwner \in Users
  /\ \/ addressList \in AddressListModules \cup {NoList} /\ lists = EmptyMap
     \/ /\ addressList \in AddressListModules
        /\ \E mods \in ModeratorSets :
             lists = Save(EmptyMap, addressList.contract,
                          [owner |-> Contract, moderators |-> mods, included |-> {}])
  /\ bank = [a \in Accounts |-> IF a \in Users THEN Endowment ELSE NoCoins]
  /\ block = [height |-> 0, time |-> 0]

Next ==
  \/ \E s \in Users, f \in Funds \cup {NoCoins} :
       \/ \E e \in Expirations, r \in Recipients : HoldFunds(s, f, e, r)
       \/ ReleaseFunds(s, f)
       \/ \E new \in Users : UpdateOwner(s, f, new)
       \/ \E module \in AddressListModules \cup {NoList} : UpdateAddressList(s, f, module)
  \/ NextBlock
  \/ ListTransaction

Spec == Init /\ [][Next]_vars

\* A depositor who wants the coins back keeps asking for them, and the chain
\* keeps making blocks; nothing else has to happen.
Fairness ==
  /\ WF_vars(NextBlock)
  /\ \A u \in Users : WF_vars(ReleaseFunds(u, NoCoins))

FairSpec == Spec /\ Fairness

----------------------------------------------------------------------------
\* The moment an escrow names as its end has come; an escrow that names none
\* may end at once.
Matured(escrow) ==
  CASE escrow.expiration.kind = "AtTime" -> block.time >= escrow.expiration.at
    [] escrow.expiration.kind = "AtHeight" -> block.height >= escrow.expiration.at
    [] OTHER -> escrow.expiration.kind = "None"

\* An escrow is binding: whatever its depositor, its recipient, the owner or
\* the moderators of the address list do, its coins, expiration and recipient
\* stay as they were deposited for as long as it is held, and it is held until
\* its expiration (execute_hold_funds must not overwrite an escrow,
\* execute_release_funds must not end one early).
EscrowBinding ==
  [][\A u \in DOMAIN held :
       IF u \in DOMAIN held' THEN held'[u] = held[u] ELSE Matured(held[u])]_vars

\* The address list gates everything and everyone: while it refuses a depositor
\* the escrow cannot leave the contract (nobody else may ask for it), and while
\* it refuses the owner neither the owner nor the list can be replaced, so an
\* owner who configures a list that refuses the owner depends on its moderators.
RefusedMayDoNothing ==
  [][/\ \A u \in DOMAIN held : ~OnExecute(addressList, u) => u \in DOMAIN held'
     /\ ~OnExecute(addressList, contractOwner) => UNCHANGED <<contractOwner, addressList>>]_vars

\* Nobody's coins are stuck for good because of another depositor: one who keeps
\* asking is paid after the expiration, or is at some moment refused by the address
\* list, the only thing that may keep the coins locked.
EscrowsArePaid ==
  \A u \in Users : u \in DOMAIN held ~> (u \notin DOMAIN held \/ ~OnExecute(addressList, u))

----------------------------------------------------------------------------
Total(escrows, d) == SumFunction([u \in DOMAIN escrows |-> escrows[u].coins[d]])

\* The contract's balance covers the escrows of all depositors together:
\* execute_release_funds takes from one balance what execute_hold_funds has put
\* there for every depositor.
Solvent == \A d \in Denoms : bank[Contract][d] >= Total(held, d)

boxes == [u \in DOMAIN held |-> [coins |-> held[u].coins, recipient |-> held[u].recipient]]

ownCoins ==
  [bank EXCEPT ![Contract] = [d \in Denoms |-> bank[Contract][d] - Total(held, d)]]

V == INSTANCE Vault WITH
  box <- boxes, purse <- ownCoins,
  Depositors <- Users, Keeper <- Contract, Payments <- Funds \cup {NoCoins},
  Endowed <- [a \in Accounts |-> IF a \in Users THEN Endowment ELSE NoCoins]

\* The timelock implements the vault: the common balance behaves as a box per
\* depositor, and coins sent along with other messages, which no handler
\* returns, are never spent.
KeepsBoxesApart == V!Spec
=============================================================================
