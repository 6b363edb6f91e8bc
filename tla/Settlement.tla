------------------------------ MODULE Settlement ------------------------------
(***************************************************************************)
(* What an agreed transfer owes to whom, said without lists of payments,   *)
(* order or deductions: the reference that the payments of Fees and their  *)
(* delivery in Market are checked against.                                 *)
(***************************************************************************)
EXTENDS Integers, FiniteSets, Functions

\* The smallest amount that is at least the given percentage of the price.
RoundedUp(pct, price) ==
  CHOOSE n \in 0..price : 100 * n >= pct * price /\ (n > 0 => 100 * (n - 1) < pct * price)

\* What one receiver of a fee module is due, in a denomination, of a price.
FeeDue(m, price, denom) ==
  IF m.rate.kind = "flat" THEN IF m.rate.coin.denom = denom THEN m.rate.coin.amount ELSE 0
  ELSE IF price.denom = denom THEN RoundedUp(m.rate.pct, price.amount) ELSE 0

FeeModulesOf(modules, kinds) == {i \in DOMAIN modules : modules[i].kind \in kinds}

\* How many times a module names one of these addresses as a receiver.
TimesNamed(m, addrs) == Cardinality({j \in DOMAIN m.receivers : m.receivers[j] \in addrs})

\* The fees that come to an address: one for each time a module names it.
FeesTo(a, modules, price, denom) ==
  SumFunction([i \in FeeModulesOf(modules, {"tax", "royalty"}) |->
                 FeeDue(modules[i], price, denom) * TimesNamed(modules[i], {a})])

FeesOfKind(kind, modules, price, denom) ==
  SumFunction([i \in FeeModulesOf(modules, {kind}) |->
                 FeeDue(modules[i], price, denom) * Cardinality(DOMAIN modules[i].receivers)])

InDenom(coin, denom) == IF coin.denom = denom THEN coin.amount ELSE 0

\* The seller's part: the price without the royalties.
SellersPart(modules, price, denom) ==
  InDenom(price, denom) - FeesOfKind("royalty", modules, price, denom)

\* What an address is due, and what all of them are due together.
Due(a, seller, modules, price, denom) ==
  FeesTo(a, modules, price, denom)
    + (IF a = seller THEN SellersPart(modules, price, denom) ELSE 0)

Cost(modules, price, denom) ==
  InDenom(price, denom) + FeesOfKind("tax", modules, price, denom)
===============================================================================
