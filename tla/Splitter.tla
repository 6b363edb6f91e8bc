------------------------------ MODULE Splitter ------------------------------
(***************************************************************************)
(* The splitter contract (contracts/andromeda_splitter): the coins sent to *)
(* it are divided at once among a list of recipients, by percentages, and  *)
(* what is left over goes back to the sender.                              *)
(*                                                                         *)
(* A Send is carried out as the chain does it: the funds arrive and the    *)
(* handler runs, the payments of its response are made one by one, and if  *)
(* one of them fails everything is undone.  The other messages make no     *)
(* payments and are one step.  No message comes in between.                *)
(***************************************************************************)
EXTENDS AddressList, Bank, Integers, SequencesExt

CONSTANTS RecipientLists,  \* the lists of [addr, percent] an owner may propose
          Funds,           \* the coins a message may carry
          Endowment,       \* what each user holds at the start
          ZeroCoinsRefused \* whether the bank refuses to send a coin of amount 0

VARIABLES recipients, locked, addressList,  \* SPLITTER
          contractOwner,                    \* CONTRACT_OWNER
          bank,                             \* account -> coins
          tx                                \* the Send being carried out, or NoTx

config == <<recipients, locked, addressList>>
vars == <<recipients, locked, addressList, contractOwner, lists, bank, tx>>

\* No Send is being carried out.
NoTx == [messages |-> <<>>, sent |-> 0]

ASSUME SplitterAssumption ==
  /\ Users \subseteq Accounts
  /\ Contract \in Accounts \ Users
  /\ Funds \subseteq Coins /\ Endowment \in Coins
  /\ \A list \in RecipientLists : /\ list \in Seq(Range(list))
                                  /\ \A i \in DOMAIN list : list[i].percent \in Nat
  /\ ZeroCoinsRefused \in BOOLEAN
  /\ NoList \notin AddressListModules

----------------------------------------------------------------------------
PercentSum(list) == SumFunction([i \in DOMAIN list |-> list[i].percent])

\* Mutant of ValidRecipients: the sum is not limited.
AnyRecipients(list) == list # <<>>

\* validate_recipient_list: the addresses themselves are not validated.
ValidRecipients(list) == list # <<>> /\ PercentSum(list) <= 100

\* What the splitter stores: a list of recipients that passed the validation.
StoreType ==
  /\ recipients \in RecipientLists /\ ValidRecipients(recipients)
  /\ locked \in BOOLEAN
  /\ addressList \in AddressListModules \cup {NoList}
  /\ contractOwner \in Users

TypeOK ==
  /\ StoreType /\ AddressListType
  /\ bank \in [Accounts -> Coins]
  /\ tx # NoTx => /\ tx.sender \in Users /\ tx.funds \in Funds
                  /\ tx.undo \in [Accounts -> Coins]
                  /\ tx.sent \in 0..Len(tx.messages)

\* multiply_ratio(percent, 100), coin by coin.
Share(funds, percent) == [d \in Denoms |-> (funds[d] * percent) \div 100]

Shares(funds, list, d) == [i \in DOMAIN list |-> Share(funds, list[i].percent)[d]]

\* What the shares of all recipients leave of the funds.
Remainder(funds, list) == [d \in Denoms |-> funds[d] - SumFunction(Shares(funds, list, d))]

\* The denominations that a list of coins names.
Named(coins) == {d \in Denoms : coins[d] > 0}

\* Mutant of Messages: the remainder stays with the contract.
MessagesKeepingRemainder(sender, funds) ==
  [i \in DOMAIN recipients |-> [to |-> recipients[i].addr, coins |-> Share(funds, recipients[i].percent),
                                named |-> Named(funds)]]

\* The payments of a Send, in order: every recipient's share of each coin that was
\* sent, were it 0, and what is left back to the sender.
Messages(sender, funds) ==
  LET left == Remainder(funds, recipients)
  IN  [i \in DOMAIN recipients |-> [to |-> recipients[i].addr, coins |-> Share(funds, recipients[i].percent),
                                    named |-> Named(funds)]]
        \o IF IsEmpty(left) THEN <<>> ELSE <<[to |-> sender, coins |-> left, named |-> Named(left)]>>

\* Mutant of Execute: the address list is not consulted.
Ungated(sender, funds) == tx = NoTx /\ Covers(bank[sender], funds)

\* What precedes every handler: the funds arrive, the address list agrees.
Execute(sender, funds) ==
  /\ tx = NoTx
  /\ Covers(bank[sender], funds)
  /\ OnExecute(addressList, sender)

Received(sender, funds) == Transfer(bank, sender, Contract, funds)

\* execute_send: the subtraction from remainder_funds must not go below zero.
Send(sender, funds) ==
  /\ Execute(sender, funds)
  /\ ~IsEmpty(funds)
  /\ Cardinality(Named(funds)) < 5
  /\ Covers(Remainder(funds, recipients), NoCoins)
  /\ bank' = Received(sender, funds)
  /\ tx' = [sender |-> sender, funds |-> funds, undo |-> bank, messages |-> Messages(sender, funds), sent |-> 0]
  /\ UNCHANGED <<config, contractOwner, lists>>

Waiting == tx # NoTx /\ tx.sent < Len(tx.messages)

\* The bank makes a payment to an address that exists, of coins that are there and, if
\* it insists, of no coin of amount 0.
Sendable(message) ==
  /\ message.to \in Accounts
  /\ Covers(bank[Contract], message.coins)
  /\ ZeroCoinsRefused => \A d \in message.named : message.coins[d] > 0

DeliverPayment ==
  LET message == tx.messages[tx.sent + 1]
  IN  /\ Waiting
      /\ Sendable(message)
      /\ bank' = Transfer(bank, Contract, message.to, message.coins)
      /\ tx' = [tx EXCEPT !.sent = @ + 1]
      /\ UNCHANGED <<config, contractOwner, lists>>

\* Mutant of Fail: the others are paid all the same.
FailAlone ==
  /\ Waiting
  /\ ~Sendable(tx.messages[tx.sent + 1])
  /\ tx' = [tx EXCEPT !.sent = @ + 1]
  /\ UNCHANGED <<config, contractOwner, lists, bank>>

\* A payment fails, and with it the transaction: SubMsg::new asks for no reply.
Fail ==
  /\ Waiting
  /\ ~Sendable(tx.messages[tx.sent + 1])
  /\ bank' = tx.undo
  /\ tx' = NoTx
  /\ UNCHANGED <<config, contractOwner, lists>>

Commit ==
  /\ tx # NoTx /\ ~Waiting
  /\ tx' = NoTx
  /\ UNCHANGED <<config, contractOwner, lists, bank>>

\* Mutant of UpdateRecipients: the list is not validated.
UpdateRecipientsUnchecked(sender, funds, list) ==
  /\ Execute(sender, funds)
  /\ sender = contractOwner
  /\ recipients' = list
  /\ bank' = Received(sender, funds)
  /\ UNCHANGED <<locked, addressList, contractOwner, lists, tx>>

\* The lock is read, and the error for it built, but not returned.
UpdateRecipients(sender, funds, list) ==
  /\ Execute(sender, funds)
  /\ sender = contractOwner
  /\ ValidRecipients(list)
  /\ recipients' = list
  /\ bank' = Received(sender, funds)
  /\ UNCHANGED <<locked, addressList, contractOwner, lists, tx>>

UpdateLock(sender, funds, lock) ==
  /\ Execute(sender, funds)
  /\ sender = contractOwner
  /\ locked' = lock
  /\ bank' = Received(sender, funds)
  /\ UNCHANGED <<recipients, addressList, contractOwner, lists, tx>>

\* As in UpdateRecipients, the lock has no effect.
UpdateAddressList(sender, funds, module) ==
  /\ Execute(sender, funds)
  /\ sender = contractOwner
  /\ OnInstantiate(module)
  /\ addressList' = module
  /\ bank' = Received(sender, funds)
  /\ UNCHANGED <<recipients, locked, contractOwner, tx>>

UpdateOwner(sender, funds, new) ==
  /\ Execute(sender, funds)
  /\ sender = contractOwner
  /\ contractOwner' = new
  /\ bank' = Received(sender, funds)
  /\ UNCHANGED <<config, lists, tx>>

\* A transaction on one of the address list contracts.
ListTransaction == tx = NoTx /\ ListNext /\ UNCHANGED <<config, contractOwner, bank, tx>>

----------------------------------------------------------------------------
Init ==
  /\ recipients \in {list \in RecipientLists : ValidRecipients(list)}
  /\ locked = FALSE
  /\ contractOwner \in Users
  /\ \/ addressList \in AddressListModules \cup {NoList} /\ lists = EmptyMap
     \/ /\ addressList \in AddressListModules
        /\ \E mods \in ModeratorSets :
             lists = Save(EmptyMap, addressList.contract,
                          [owner |-> Contract, moderators |-> mods, included |-> {}])
  /\ bank = [a \in Accounts |-> IF a \in Users THEN Endowment ELSE NoCoins]
  /\ tx = NoTx

Next ==
  \/ \E s \in Users, f \in Funds \cup {NoCoins} :
       \/ Send(s, f)
       \/ \E list \in RecipientLists : UpdateRecipients(s, f, list)
       \/ \E lock \in BOOLEAN : UpdateLock(s, f, lock)
       \/ \E module \in AddressListModules \cup {NoList} : UpdateAddressList(s, f, module)
       \/ \E new \in Users : UpdateOwner(s, f, new)
  \/ DeliverPayment \/ Fail \/ Commit
  \/ ListTransaction

Spec == Init /\ [][Next]_vars

----------------------------------------------------------------------------
\* What a user who pays every recipient directly makes of the balances: the recipients
\* get their shares, and the payer pays the shares and nothing more.
DirectPayment(balances, payer, funds) ==
  LET owed(a, d) == SumFunctionOnSet(Shares(funds, recipients, d),
                                     {i \in DOMAIN recipients : recipients[i].addr = a})
  IN  [a \in Accounts |-> [d \in Denoms |->
         balances[a][d] + owed(a, d)
           - IF a = payer THEN SumFunction(Shares(funds, recipients, d)) ELSE 0]]

\* Nothing stands against paying this recipient.
Payable(funds, r) ==
  /\ r.addr \in Accounts
  /\ ZeroCoinsRefused => \A d \in Denoms : funds[d] > 0 => Share(funds, r.percent)[d] > 0

\* The splitter is a conduit: when a Send is through, it has had the effect of the
\* sender paying every recipient directly, so the splitter keeps nothing of what it
\* divides, spends nothing it was left with, and makes or loses no coin by rounding;
\* or else one of the recipients could not be paid, and the balances are what they
\* were before the funds arrived.  Outside of Sends coins only come in.
Conduit ==
  [][/\ tx # NoTx /\ tx' = NoTx =>
          bank' = IF \A i \in DOMAIN recipients : Payable(tx.funds, recipients[i])
                  THEN DirectPayment(tx.undo, tx.sender, tx.funds) ELSE tx.undo
     /\ tx' # NoTx => tx'.undo = IF tx = NoTx THEN bank ELSE tx.undo
     /\ tx = NoTx /\ bank' # bank => \E s \in Users, f \in Funds : bank' = Received(s, f)]_vars

\* Whatever list the owner has configured, no amount of any coin makes the
\* subtraction of the shares from the remainder underflow (a panic that would
\* refuse every Send).
SharesNeverExceedFunds ==
  \A f \in Funds, d \in Denoms : SumFunction(Shares(f, recipients, d)) <= f[d]

\* The address list binds the owner as well: while it refuses the owner, nobody
\* can change what the splitter does or who owns it.
RefusedOwnerIsPowerless ==
  [][~OnExecute(addressList, contractOwner) => UNCHANGED <<config, contractOwner>>]_vars

\* The documentation of ExecuteMsg: recipients and address list may only be
\* updated while the contract is not locked.
LockedConfigKept == [][locked => UNCHANGED <<recipients, addressList>>]_vars
=============================================================================
