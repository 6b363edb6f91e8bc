--------------------------------- MODULE Sale ---------------------------------
(***************************************************************************)
(* The payments of one agreed transfer (TransferAgreement::on_transfer),   *)
(* for any list of fee modules and any price, against the settlement they  *)
(* should come to.                                                         *)
(***************************************************************************)
EXTENDS Fees, Settlement, Bank

CONSTANTS Seller,           \* the owner of the token
          Currency,         \* the denomination of the price
          FeeModules,       \* the fee modules a list may be made of
          MaxModules,       \* bound: the length of a list
          MaxPrice          \* bound: the highest price

VARIABLES modules, price

ASSUME SaleAssumption ==
  /\ Seller \in Accounts /\ Currency \in Denoms
  /\ MaxAmount \in Nat /\ MaxModules \in Nat
  /\ \A m \in FeeModules : /\ m.kind \in {"tax", "royalty"}
                           /\ m.receivers \in Seq(Range(m.receivers))
                           /\ RateGiven(m.rate)
                           /\ m.rate.kind = "flat" => m.rate.coin.denom \in Denoms

\* A price after another is agreed, under one list of modules.
Init == modules \in BoundedSeq(FeeModules, MaxModules) /\ price = 0
Next == price < MaxPrice /\ price' = price + 1 /\ UNCHANGED modules
Spec == Init /\ [][Next]_<<modules, price>>

agreed == CoinOf(Currency, price)
payments == AgreedPayments(modules, Seller, agreed)

----------------------------------------------------------------------------
\* A fee that cannot be computed.
Panics == \E i \in DOMAIN modules :
  \/ price > MaxAmount \div 100
  \/ modules[i].rate.kind = "percent" /\ modules[i].rate.pct > 100

\* Every address is paid what it is due: the receivers their fees, each rounded
\* up, and the seller the price less the royalties, while taxes come on top
\* of the price (Taxable and Royalty hooks, deduct_payment, calculate_fee).
SettledAsAgreed ==
  payments # Refused =>
    \A a \in Accounts, d \in Denoms :
      SumFunction([i \in DOMAIN payments |->
                     IF payments[i].to = a THEN InDenom(payments[i].coin, d) ELSE 0])
      = Due(a, Seller, modules, agreed, d)

\* A sale is refused exactly when the price cannot bear its royalties: they are
\* more than the price, or in another denomination, or a fee cannot be computed.
RefusedWhenUnpayable ==
  payments = Refused <=>
    \/ Panics
    \/ \E d \in Denoms : FeesOfKind("royalty", modules, agreed, d) > InDenom(agreed, d)
===============================================================================
