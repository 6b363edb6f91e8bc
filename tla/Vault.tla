-------------------------------- MODULE Vault --------------------------------
(***************************************************************************)
(* What the timelock promises its depositors about the coins: each of them *)
(* has a box of its own.  What is in a box is nobody's to spend, leaves    *)
(* the box only as a whole and only for the recipient named when it was    *)
(* closed, and the keeper never pays for one box out of another, or out of *)
(* its own purse.  Clock, address list and ownership are not part of it.   *)
(***************************************************************************)
EXTENDS Bank, Storage

CONSTANTS Depositors, Keeper, Payments, Endowed

VARIABLES box,      \* depositor -> coins and recipient
          purse     \* account -> the coins that are its own

vaultVars == <<box, purse>>

Init == box = EmptyMap /\ purse = Endowed

\* A depositor puts coins into its empty box.
Deposit(u, coins, recipient) ==
  /\ u \notin DOMAIN box
  /\ Covers(purse[u], coins)
  /\ box' = Save(box, u, [coins |-> coins, recipient |-> recipient])
  /\ purse' = [purse EXCEPT ![u] = [d \in Denoms |-> @[d] - coins[d]]]

\* A depositor gives coins to the keeper.
Give(u, coins) ==
  /\ Covers(purse[u], coins)
  /\ purse' = Transfer(purse, u, Keeper, coins)
  /\ UNCHANGED box

\* The box of a depositor is emptied into the purse of its recipient; the
\* request may carry a gift to the keeper.
Payout(u, gift) ==
  LET given == Transfer(purse, u, Keeper, gift)
  IN  /\ u \in DOMAIN box
      /\ Covers(purse[u], gift)
      /\ purse' = [given EXCEPT ![box[u].recipient] = [d \in Denoms |-> @[d] + box[u].coins[d]]]
      /\ box' = Delete(box, u)

Next ==
  \E u \in Depositors, coins \in Payments :
    \/ \E r \in Accounts : Deposit(u, coins, r)
    \/ Give(u, coins)
    \/ Payout(u, coins)

Spec == Init /\ [][Next]_vaultVars
==============================================================================
