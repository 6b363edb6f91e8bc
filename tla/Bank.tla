-------------------------------- MODULE Bank --------------------------------
(***************************************************************************)
(* The bank of the chain: who holds how much of which denomination.  It is *)
(* external to the repository.  A contract meets it in two ways: the funds *)
(* attached to a message are moved to the contract before its handler runs *)
(* (MessageInfo.funds), and each BankMsg::Send of a handler's response     *)
(* moves coins from the contract, or fails and takes the whole transaction *)
(* with it.                                                                *)
(* A list of coins is a function from denominations to amounts: the chain  *)
(* merges and sorts the coins of a message and drops the zero ones.        *)
(***************************************************************************)
EXTENDS Naturals

CONSTANTS Accounts,     \* every address that may hold coins
          Denoms        \* the denominations in use

Coins == [Denoms -> Nat]

NoCoins == [d \in Denoms |-> 0]

IsEmpty(coins) == \A d \in Denoms : coins[d] = 0

\* An account that holds "purse" can pay "coins".
Covers(purse, coins) == \A d \in Denoms : coins[d] <= purse[d]

\* The balances after "from" has paid "coins" to "to"; from = to changes nothing.
Transfer(bank, from, to, coins) ==
  [a \in DOMAIN bank |->
    [d \in Denoms |-> IF from = to THEN bank[a][d]
                      ELSE IF a = from THEN bank[a][d] - coins[d]
                      ELSE IF a = to THEN bank[a][d] + coins[d]
                      ELSE bank[a][d]]]
=============================================================================
