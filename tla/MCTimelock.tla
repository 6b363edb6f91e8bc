------------------------------ MODULE MCTimelock ------------------------------
(***************************************************************************)
(* The timelock, and its coins as an abstract vault, on small instances.   *)
(***************************************************************************)
EXTENDS Timelock

CONSTANTS Alice, Bob, BadAddress, Coin

MCFunds == {[d \in Denoms |-> n] : n \in {1, 2}}
MCEndowment == [d \in Denoms |-> 2]
MCExpirations == {NoExpiration, Never, AtHeight(1), AtTime(2)}
MCModeratorSets == {{Alice}}
===============================================================================
