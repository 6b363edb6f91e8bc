------------------------------- MODULE MCMarket -------------------------------
(***************************************************************************)
(* Sales on small instances.                                               *)
(***************************************************************************)
EXTENDS Market

CONSTANTS Alice, Shop, Artist, Gold

MCPrices == {CoinOf(Gold, 2)}
MCFunds == {[d \in Denoms |-> 2]}
MCEndowment == [d \in Denoms |-> 2]

MCModuleLists ==
  { <<>>,
    <<Tax(Percent(50), <<Artist>>), ReceiptModule, Royalty(Flat(CoinOf(Gold, 1)), <<Alice>>)>>,
    <<Royalty(Percent(60), <<Artist, Alice>>)>> }

\* Bound: only Alice instantiates the token contract.
MCInit == MarketInit /\ minter = Alice
\* Bound: the token contract keeps its owner; the shop may be an operator of Alice's, and
\* nobody holds another grant.
Bounded ==
  /\ contractOwner' = contractOwner
  /\ DOMAIN operators' \subseteq {<<Alice, Shop>>}
  /\ \A id \in DOMAIN tokens' : tokens'[id].approvals = {}

MCSpec == MCInit /\ [][MarketNext /\ Bounded]_marketVars

\* TransferAgreement is documented to let the purchaser transfer the token "as
\* long as funds are provided equalling the amount defined in the agreement".
SalesAreFunded ==
  Done => \A i \in DOMAIN tx.sales : Covers(tx.funds, AsCoins(tx.sales[i].price))
===============================================================================
