-------------------------------- MODULE Market --------------------------------
(***************************************************************************)
(* A transfer of a token as the chain carries it out.  The handler of the  *)
(* token contract stores the new owner and returns messages: the payments  *)
(* of the transfer agreement, a receipt, and for SendNft the call of the   *)
(* recipient contract.  The chain delivers them one at a time; a contract  *)
(* that is called may itself send a message to the token contract, whose   *)
(* own messages are delivered before those that still wait.  If one        *)
(* fails, everything the transaction has done is undone.                   *)
(*                                                                         *)
(* The other messages of the token contract make no messages.  They are    *)
(* sent between the transfers, and by the contracts called within one.     *)
(***************************************************************************)
EXTENDS Token, Bank, Settlement

CONSTANTS Vendors,          \* those of the users that are contracts
          Funds,            \* the coins a message may carry
          Endowment,        \* what each user that is no contract holds at first
          ZeroCoinsRefused, \* whether the bank refuses to send a coin of amount 0
          NoTx,             \* no transaction is being carried out
          MaxCalls          \* bound: messages that called contracts send in a transaction

VARIABLES bank,             \* account -> coins
          receipts, numReceipts, receiptConfig, receiptOwner,  \* the receipt contract
          tx                \* the transaction being carried out, or NoTx

ASSUME MarketAssumption ==
  /\ Users \cup {Contract} \subseteq Accounts /\ Vendors \subseteq Users
  /\ MaxAmount \in Nat /\ MaxCalls \in Nat
  /\ \A p \in Prices : p \in [denom : Denoms, amount : Nat]
  /\ Funds \subseteq Coins /\ Endowment \in Coins
  /\ \A ms \in ModuleLists :
       /\ ms \in Seq(Range(ms))
       /\ \A m \in Range(ms) : m.kind \in {"tax", "royalty"} =>
            /\ m.receivers \in Seq(Range(m.receivers))
            /\ \/ m.rate.kind = "flat" /\ m.rate.coin \in [denom : Denoms, amount : Nat]
               \/ m.rate.kind = "percent" /\ m.rate.pct \in Nat

receiptVars == <<receipts, numReceipts, receiptConfig, receiptOwner>>
marketVars == <<vars, bank, receiptVars, tx>>

\* The receipt a sale generates holds the event of the agreed transfer.
AgreedTransferEvents == Agreement

RC == INSTANCE Receipt WITH
  Senders <- Users \cup {Contract}, Contents <- AgreedTransferEvents, ReceiptIds <- {1},
  config <- receiptConfig

AsCoins(coin) == [d \in Denoms |-> IF d = coin.denom THEN coin.amount ELSE 0]

\* The messages in a response.
BankSend(payment) == [kind |-> "send", to |-> payment.to, coin |-> payment.coin]
Store(event) == [kind |-> "store", event |-> event]
Receive(contract, id) == [kind |-> "receive", contract |-> contract, id |-> id]

\* The parts of a transaction that a failure undoes.
Now == [tokens |-> tokens, operators |-> operators, numTokens |-> numTokens,
        contractOwner |-> contractOwner, bank |-> bank, receipts |-> receipts]

----------------------------------------------------------------------------
\* Mutant of SaleMessages: the seller is not paid.
SaleMessagesUnpaid(token) ==
  IF token.agreement # None /\ HasReceiptModule(modules) THEN <<Store(token.agreement)>> ELSE <<>>

\* TransferAgreement::on_transfer: the payments, then the receipt, if the contract
\* has a receipt module.  A token without an agreement changes hands for nothing.
SaleMessages(token) ==
  IF token.agreement = None THEN <<>>
  ELSE LET ps == PaymentsOf(token)
       IN  [i \in DOMAIN ps |-> BankSend(ps[i])]
             \o IF HasReceiptModule(modules) THEN <<Store(token.agreement)>> ELSE <<>>

SalesIn(token) ==
  IF token.agreement = None THEN <<>>
  ELSE <<[seller |-> token.owner, price |-> token.agreement.amount]>>

Begin(sender, funds, id, messages) ==
  /\ tx = NoTx
  /\ Covers(bank[sender], funds)
  /\ bank' = Transfer(bank, sender, Contract, funds)
  /\ tx' = [sender |-> sender, funds |-> funds, undo |-> Now, calls |-> 0,
            sales |-> SalesIn(tokens[id]), queue |-> SaleMessages(tokens[id]) \o messages]
  /\ UNCHANGED receiptVars

BeginTransfer(sender, funds, recipient, id) ==
  TransferNft(sender, recipient, id) /\ Begin(sender, funds, id, <<>>)

BeginSend(sender, funds, contract, id) ==
  SendNft(sender, contract, id) /\ Begin(sender, funds, id, <<Receive(contract, id)>>)

----------------------------------------------------------------------------
Waiting(kind) == tx # NoTx /\ tx.queue # <<>> /\ Head(tx.queue).kind = kind

Delivered == tx' = [tx EXCEPT !.queue = Tail(@)]

\* The bank can carry out this payment of the contract's.
Sendable(message) ==
  /\ message.to \in Accounts
  /\ Covers(bank[Contract], AsCoins(message.coin))
  /\ ZeroCoinsRefused => message.coin.amount > 0

DeliverPayment ==
  /\ Waiting("send")
  /\ Sendable(Head(tx.queue))
  /\ bank' = Transfer(bank, Contract, Head(tx.queue).to, AsCoins(Head(tx.queue).coin))
  /\ Delivered
  /\ UNCHANGED <<vars, receiptVars>>

DeliverReceipt ==
  /\ Waiting("store")
  /\ RC!StoreReceipt(Contract, Head(tx.queue).event)
  /\ Delivered
  /\ UNCHANGED <<vars, bank>>

\* The contract that has received a token.
Called == Waiting("receive") /\ Head(tx.queue).contract \in Vendors
MayMessage == Called /\ tx.calls < MaxCalls

\* It accepts the token.
Accept ==
  /\ Called
  /\ Delivered
  /\ UNCHANGED <<vars, bank, receiptVars>>

\* It accepts the token and transfers it, or another one, in its turn.
SellOn(id, messages) ==
  /\ tx' = [tx EXCEPT !.queue = SaleMessages(tokens[id]) \o messages \o Tail(@),
                      !.sales = @ \o SalesIn(tokens[id]),
                      !.calls = @ + 1]
  /\ UNCHANGED <<bank, receiptVars>>

AcceptAndTransfer(recipient, id) ==
  MayMessage /\ TransferNft(Head(tx.queue).contract, recipient, id) /\ SellOn(id, <<>>)

AcceptAndSend(contract, id) ==
  MayMessage /\ SendNft(Head(tx.queue).contract, contract, id) /\ SellOn(id, <<Receive(contract, id)>>)

\* A message whose response holds no messages.
QuietMessage(sender) ==
  \/ \E id \in Ids : ApprovalMessage(sender, id) \/ EditMessage(sender, id) \/ Burn(sender, id)
  \/ \E a \in Users : AccountMessage(sender, a)

AcceptAndMessage ==
  /\ MayMessage
  /\ QuietMessage(Head(tx.queue).contract)
  /\ tx' = [tx EXCEPT !.queue = Tail(@), !.calls = @ + 1]
  /\ UNCHANGED <<bank, receiptVars>>

\* A message fails: the bank cannot pay, the receipt contract does not know the
\* token contract as a minter, the recipient is no contract or refuses the token.
Fail ==
  /\ \/ Waiting("send") /\ ~Sendable(Head(tx.queue))
     \/ Waiting("store") /\ ~RC!CanMintReceipt(Contract)
     \/ Waiting("receive")
  /\ tokens' = tx.undo.tokens
  /\ operators' = tx.undo.operators
  /\ numTokens' = tx.undo.numTokens
  /\ contractOwner' = tx.undo.contractOwner
  /\ bank' = tx.undo.bank
  /\ receipts' = tx.undo.receipts
  /\ tx' = NoTx
  /\ UNCHANGED <<modules, minter, lists, height, numReceipts, receiptConfig, receiptOwner>>

Commit ==
  /\ tx # NoTx
  /\ tx.queue = <<>>
  /\ tx' = NoTx
  /\ UNCHANGED <<vars, bank, receiptVars>>

\* Its funds stay with the contract.
OtherMessage(sender, funds) ==
  /\ tx = NoTx
  /\ Covers(bank[sender], funds)
  /\ bank' = Transfer(bank, sender, Contract, funds)
  /\ QuietMessage(sender)
  /\ UNCHANGED <<receiptVars, tx>>

\* A block ends, or somebody changes an address list, between two transactions.
Elsewhere == tx = NoTx /\ (NextBlock \/ ListTransaction) /\ UNCHANGED <<bank, receiptVars, tx>>

----------------------------------------------------------------------------
\* The receipt contract is one that the token contract has instantiated, or one
\* of another owner, whose address the module was given.
MarketInit ==
  /\ Init
  /\ bank = [a \in Accounts |-> IF a \in Users \ Vendors THEN Endowment ELSE NoCoins]
  /\ receipts = EmptyMap
  /\ numReceipts = 0
  /\ receiptConfig = [minter |-> minter, moderators |-> {}]
  /\ receiptOwner \in {Contract, minter}
  /\ tx = NoTx

Deliver ==
  \/ DeliverPayment
  \/ DeliverReceipt
  \/ Accept
  \/ \E r \in Recipients, id \in Ids : AcceptAndTransfer(r, id) \/ AcceptAndSend(r, id)
  \/ AcceptAndMessage
  \/ Fail
  \/ Commit

\* A contract may be the sender of the first message too: something outside the
\* model has called it.
MarketNext ==
  \/ \E s \in Users, f \in Funds \cup {NoCoins} :
       \/ \E r \in Recipients, id \in Ids : BeginTransfer(s, f, r, id) \/ BeginSend(s, f, r, id)
       \/ OtherMessage(s, f)
  \/ Deliver
  \/ Elsewhere

MarketSpec == MarketInit /\ [][MarketNext]_marketVars

----------------------------------------------------------------------------
Done == tx # NoTx /\ tx.queue = <<>>

\* No balance is overdrawn, and what a transaction stores is what its contracts may store.
MarketTypeOK ==
  /\ TypeOK
  /\ bank \in [Accounts -> Coins]
  /\ RC!TypeOK
  /\ tx # NoTx =>
       /\ tx.sender \in Users /\ tx.funds \in Coins /\ tx.calls \in 0..MaxCalls
       /\ tx.undo.bank \in [Accounts -> Coins]

\* What the sales of a transaction come to: for the contract, and for an account.
CostOfSales(d) ==
  SumFunction([i \in DOMAIN tx.sales |-> Cost(modules, tx.sales[i].price, d)])
DueOfSales(a, d) ==
  SumFunction([i \in DOMAIN tx.sales |-> Due(a, tx.sales[i].seller, modules, tx.sales[i].price, d)])

\* When every message of a transaction has been delivered, every account holds
\* exactly what it held before, more or less what the transaction's sales come to:
\* sellers the price less royalties, receivers their fees, the contract the funds
\* sent less the whole cost; also when a recipient contract sells on in between.
SettledWhenDone ==
  Done =>
    \A a \in Accounts, d \in Denoms :
      bank[a][d]
        + (IF a = tx.sender THEN tx.funds[d] ELSE 0)
        + (IF a = Contract THEN CostOfSales(d) ELSE 0)
      = tx.undo.bank[a][d]
        + (IF a = Contract THEN tx.funds[d] ELSE 0)
        + DueOfSales(a, d)

\* A token that changes hands while it has an agreement is paid for or stays: no
\* transaction leaves an owner with neither the token nor the seller's part of the
\* price agreed before it, whatever the contracts called in it do.  An owner that is
\* such a contract may itself change the agreement or burn the token, and the token
\* contract, if it is the owner, pays itself.
SoldMeansPaid ==
  Done =>
    \A id \in DOMAIN tx.undo.tokens :
      LET before == tx.undo.tokens[id]
      IN  /\ before.agreement # None
          /\ before.owner \notin Vendors \cup {Contract}
          /\ id \in DOMAIN tokens => tokens[id].owner # before.owner
          =>
            \A d \in Denoms :
              bank[before.owner][d] + (IF before.owner = tx.sender THEN tx.funds[d] ELSE 0)
                >= tx.undo.bank[before.owner][d] + SellersPart(modules, before.agreement.amount, d)
==============================================================================
