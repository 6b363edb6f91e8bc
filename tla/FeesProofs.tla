------------------------------ MODULE FeesProofs ------------------------------
(***************************************************************************)
(* Proofs about the sales of Sale, for any list of tax and royalty modules *)
(* and any price.  What the hooks make of a list of payments, hook by hook *)
(* and receiver by receiver, is followed by the lemmas of CommonProofs up  *)
(* to AgreedIsDue; here that is related to the properties of Sale.         *)
(***************************************************************************)
EXTENDS Sale, CommonProofs

\* Who may be paid: the seller, every address of the bank, and every receiver.
Payees == Accounts \cup UNION {Range(m.receivers) : m \in FeeModules}

IInv == modules \in BoundedSeq(FeeModules, MaxModules) /\ price \in Nat

LEMMA SaleInvariant == Spec => []IInv
<1>1. Init => IInv
  BY DEF Init, IInv
<1>2. IInv /\ [Next]_<<modules, price>> => IInv'
  BY DEF IInv, Next
<1> QED
  BY <1>1, <1>2, PTL DEF Spec

\* A list that a sale may be made under, and its price, are such as the lemmas ask for.
LEMMA SaleFits ==
  ASSUME IInv
  PROVE  /\ DOMAIN modules = 1..Len(modules) /\ Len(modules) \in Nat
         /\ ModuleList(modules, Payees, Denoms)
         /\ Seller \in Payees
         /\ agreed \in [denom : Denoms, amount : Nat]
         /\ agreed.amount = price /\ PriceIn(agreed, Denoms)
         /\ \A i \in DOMAIN modules : modules[i] \in FeeModules /\ TakesFees(modules[i])
<1>1. PICK n \in 0..MaxModules : modules \in [1..n -> FeeModules]
  BY DEF IInv, BoundedSeq, SeqOf
<1>2. n \in Nat /\ DOMAIN modules = 1..n /\ Len(modules) = n
  <2>1. n \in Nat
    BY SaleAssumption
  <2>2. modules \in Seq(FeeModules)
    BY <1>1, <2>1
  <2> QED
    BY <1>1, <2>1, <2>2
<1>3. ASSUME NEW m \in FeeModules
      PROVE  FeesGiven(m, Payees, Denoms) /\ TakesFees(m)
  <2>1. /\ m.kind \in {"tax", "royalty"} /\ m.receivers \in Seq(Range(m.receivers)) /\ RateGiven(m.rate)
        /\ m.rate.kind = "flat" => m.rate.coin.denom \in Denoms
    BY SaleAssumption
  <2>2. Range(m.receivers) \subseteq Payees
    BY DEF Payees
  <2>3. m.receivers \in Seq(Payees)
    BY <2>1, <2>2
  <2> QED
    BY <2>1, <2>3 DEF FeesGiven, TakesFees
<1>4. ModuleList(modules, Payees, Denoms)
  BY <1>1, <1>2, <1>3 DEF ModuleList
<1>5. agreed = [denom |-> Currency, amount |-> price] /\ Currency \in Denoms /\ price \in Nat
  BY SaleAssumption DEF agreed, CoinOf, IInv
<1>6. agreed \in [denom : Denoms, amount : Nat] /\ agreed.amount = price /\ PriceIn(agreed, Denoms)
  BY <1>5 DEF PriceIn
<1>7. Seller \in Payees
  BY SaleAssumption DEF Payees
<1> QED
  BY <1>1, <1>2, <1>3, <1>4, <1>6, <1>7

\* Every address is paid what it is due: the fees of every list of tax and royalty
\* modules, each rounded up once, and the price less the royalties for the seller.
THEOREM SaleSettles == Spec => []SettledAsAgreed
<1>1. IInv => SettledAsAgreed
  <2> SUFFICES ASSUME IInv, payments # Refused, NEW a \in Accounts, NEW d \in Denoms
               PROVE  SumFunction([i \in DOMAIN payments |->
                                     IF payments[i].to = a THEN InDenom(payments[i].coin, d) ELSE 0])
                        = Due(a, Seller, modules, agreed, d)
    BY DEF SettledAsAgreed
  <2>1. ReceivedBy(AgreedPayments(modules, Seller, agreed), {a}, d) = Due(a, Seller, modules, agreed, d)
    BY SaleFits, AgreedIsDue DEF payments
  <2>2. Income(payments, {a}, d)
          = [i \in DOMAIN payments |-> IF payments[i].to = a THEN InDenom(payments[i].coin, d) ELSE 0]
    BY DEF Income, Brings
  <2> QED
    BY <2>1, <2>2 DEF ReceivedBy, payments
<1> QED
  BY <1>1, SaleInvariant, PTL

\* A sale is refused exactly when a fee cannot be computed or the royalties are more
\* than the price, in whatever order the modules stand and are paid.
THEOREM SaleIsRefused == Spec => []RefusedWhenUnpayable
<1>1. IInv => RefusedWhenUnpayable
  <2> SUFFICES ASSUME IInv
               PROVE  RefusedWhenUnpayable
    OBVIOUS
  <2> PICK n : n = Len(modules)
    OBVIOUS
  <2>1. payments = Refused <=> ~PriceBears(modules, n, agreed, Denoms)
    <3>1. AgreedPayments(modules, Seller, agreed) = Refused
            <=> ~PriceBears(modules, Len(modules), agreed, Denoms)
      <4>1. /\ AgreedPayments(modules, Seller, agreed) = Refused
                 <=> ~PriceBears(modules, Len(modules), agreed, Denoms)
            /\ AgreedPayments(modules, Seller, agreed) # Refused =>
                 ReceivedBy(AgreedPayments(modules, Seller, agreed), {Seller}, Currency)
                   = Due(Seller, Seller, modules, agreed, Currency)
        BY SaleFits, AgreedIsDue
      <4> QED
        BY <4>1
    <3> QED
      BY <3>1 DEF payments
  <2>2. Panics <=> ~NonePanics(modules, n, agreed)
    <3>1. DOMAIN modules = 1..n /\ agreed.amount = price
      BY SaleFits
    <3>2. ASSUME NEW i \in 1..n
          PROVE  ModulePanics(modules[i], agreed)
                   <=> \/ price > MaxAmount \div 100
                       \/ modules[i].rate.kind = "percent" /\ modules[i].rate.pct > 100
      <4>1. TakesFees(modules[i]) /\ RateGiven(modules[i].rate)
        BY <3>1, SaleFits, SaleAssumption
      <4>2. modules[i].rate.kind = "percent" => modules[i].rate.pct # 0
        BY <4>1 DEF RateGiven
      <4> QED
        BY <3>1, <4>1, <4>2 DEF ModulePanics, FeePanics
    <3> QED
      BY <3>1, <3>2 DEF Panics, NonePanics
  <2>3. ASSUME NonePanics(modules, n, agreed)
        PROVE  \A d \in Denoms :
                 FeesOfKind("royalty", modules, agreed, d) = RoyaltiesUpTo(modules, n, agreed, d)
    <3> SUFFICES ASSUME NEW d \in Denoms
                 PROVE  FeesOfKind("royalty", modules, agreed, d) = RoyaltiesUpTo(modules, n, agreed, d)
      OBVIOUS
    <3>1. /\ FeesOfKind("royalty", modules, agreed, d) = RoyaltiesUpTo(modules, Len(modules), agreed, d)
          /\ FeesTo(Seller, modules, agreed, d) = FeesUpTo(modules, Len(modules), agreed, d, {Seller})
      BY <2>3, SaleFits, SettlementSums
    <3> QED
      BY <3>1
  <2>4. ASSUME NonePanics(modules, n, agreed), NEW d \in Denoms
        PROVE  RoyaltiesUpTo(modules, n, agreed, d) \in Nat /\ InDenom(agreed, d) \in Nat
    <3>1. n \in 0..Len(modules)
      BY SaleFits
    <3>2. RoyaltiesUpTo(modules, n, agreed, d) \in Nat /\ FeesUpTo(modules, n, agreed, d, {Seller}) \in Nat
      BY <2>4, <3>1, SaleFits, FeeSums
    <3> QED
      BY <3>2, SaleFits DEF InDenom
  <2> QED
    BY <2>1, <2>2, <2>3, <2>4 DEF RefusedWhenUnpayable, PriceBears
<1> QED
  BY <1>1, SaleInvariant, PTL

\* No fee is more than the price it is a percentage of, and it is the least whole
\* amount that is no less than the percentage (calculate_fee).
THEOREM FeeIsRoundedUpOnce ==
  ASSUME NEW pct \in 1..100, NEW amount \in Nat
  PROVE  PercentFee(pct, amount) = RoundedUp(pct, amount) /\ PercentFee(pct, amount) <= amount
BY PercentFeeIsTheFeeDue
=============================================================================
