-------------------------------- MODULE Fees --------------------------------
(***************************************************************************)
(* What an agreed transfer of a token costs whom: the fee of a rate        *)
(* (modules/common.rs), and the payments that the tax and royalty modules  *)
(* of the token contract make of the agreed price (modules/taxable.rs,     *)
(* modules/royalties.rs, TransferAgreement::on_transfer).                  *)
(*                                                                         *)
(* A payment is a BankMsg::Send with one coin.  A list of payments always  *)
(* has the owner's in front, so the empty list stands for a refusal: the   *)
(* handler returns an error or panics and the transaction is undone.       *)
(***************************************************************************)
EXTENDS Naturals, SequencesExt

CONSTANT MaxAmount        \* Uint128::MAX

CoinOf(denom, amount) == [denom |-> denom, amount |-> amount]
Payment(to, coin) == [to |-> to, coin |-> coin]

Flat(coin) == [kind |-> "flat", coin |-> coin]
Percent(pct) == [kind |-> "percent", pct |-> pct]

Refused == <<>>

\* Taxable::validate and Royalty::validate: a fee is of something, though a royalty may
\* be of more than 100%.
RateGiven(rate) ==
  CASE rate.kind = "flat"    -> /\ rate.coin = CoinOf(rate.coin.denom, rate.coin.amount)
                                /\ rate.coin.amount \in Nat \ {0}
    [] rate.kind = "percent" -> rate.pct \in Nat \ {0}
    [] OTHER                 -> FALSE

----------------------------------------------------------------------------
\* Mutant of PercentFee: the remainder is dropped.
PercentFeeRoundedDown(pct, amount) == (amount * pct) \div 100

\* The fee of a percentage: what multiplying and dividing loses is found by
\* reversing the computation, and rounded up in favour of the receiver.
PercentFee(pct, amount) ==
  LET fee == (amount * pct) \div 100
      reversed == (fee * 100) \div pct
  IN  IF amount > reversed THEN fee + 1 ELSE fee

CalculateFee(rate, payment) ==
  IF rate.kind = "flat" THEN rate.coin
  ELSE CoinOf(payment.denom, PercentFee(rate.pct, payment.amount))

\* The panics of calculate_fee: an amount too large to multiply, a percentage
\* above 100.  (A percentage of 0, which would divide by 0, no module allows.)
FeePanics(rate, payment) ==
  \/ payment.amount > MaxAmount \div 100
  \/ rate.kind = "percent" /\ (rate.pct > 100 \/ rate.pct = 0)

----------------------------------------------------------------------------
\* deduct_payment takes from the first payment to this address.
FirstPaymentTo(payments, to) == SelectInSeq(payments, LAMBDA p : p.to = to)

\* Mutant of CanDeduct: the owner must keep something.
CanDeductStrictly(payments, to, coin) ==
  LET i == FirstPaymentTo(payments, to)
  IN  /\ i # 0
      /\ payments[i].coin.denom = coin.denom
      /\ payments[i].coin.amount > coin.amount

\* deduct_payment and deduct_funds find the coin, and enough of it.
CanDeduct(payments, to, coin) ==
  LET i == FirstPaymentTo(payments, to)
  IN  /\ i # 0
      /\ payments[i].coin.denom = coin.denom
      /\ payments[i].coin.amount >= coin.amount

DeductPayment(payments, to, coin) ==
  [payments EXCEPT ![FirstPaymentTo(payments, to)].coin.amount = @ - coin.amount]

AddPayment(payments, to, coin) == Append(payments, Payment(to, coin))

\* Taxable: every receiver gets the tax on top of the price.
ApplyTax(payments, tax, price) ==
  LET fee == CalculateFee(tax.rate, price)
  IN  IF FeePanics(tax.rate, price) THEN Refused
      ELSE FoldLeft(LAMBDA ps, r : AddPayment(ps, r, fee), payments, tax.receivers)

\* Mutant of PayRoyalty: nothing is deducted.
PayRoyaltyOnTop(payments, owner, receiver, fee) ==
  IF payments = Refused THEN Refused ELSE AddPayment(payments, receiver, fee)

\* Royalty, for one receiver: out of the owner's payment.
PayRoyalty(payments, owner, receiver, fee) ==
  IF payments = Refused \/ ~CanDeduct(payments, owner, fee) THEN Refused
  ELSE AddPayment(DeductPayment(payments, owner, fee), receiver, fee)

ApplyRoyalty(payments, royalty, owner, price) ==
  LET fee == CalculateFee(royalty.rate, price)
  IN  IF FeePanics(royalty.rate, price) THEN Refused
      ELSE FoldLeft(LAMBDA ps, r : PayRoyalty(ps, owner, r, fee), payments, royalty.receivers)

\* One module's on_agreed_transfer hook; the other modules have none.
ApplyModule(payments, module, owner, price) ==
  IF payments = Refused THEN Refused
  ELSE CASE module.kind = "tax"     -> ApplyTax(payments, module, price)
         [] module.kind = "royalty" -> ApplyRoyalty(payments, module, owner, price)
         [] OTHER                   -> payments

\* Modules::on_agreed_transfer, in the order in which the modules are stored,
\* starting from the payment of the price to the owner.
AgreedPayments(modules, owner, price) ==
  FoldLeft(LAMBDA ps, m : ApplyModule(ps, m, owner, price), <<Payment(owner, price)>>, modules)
=============================================================================
