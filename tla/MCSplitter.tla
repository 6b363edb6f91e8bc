------------------------------ MODULE MCSplitter ------------------------------
(***************************************************************************)
(* The splitter on small instances.                                        *)
(***************************************************************************)
EXTENDS Splitter

CONSTANTS Alice, Bob, Nowhere, Gold, Silver

To(addr, percent) == [addr |-> addr, percent |-> percent]

\* No recipient, too much in all, an address that does not exist, an address
\* twice, the splitter itself; shares that divide the funds and shares that do not.
MCRecipientLists ==
  { <<>>,
    <<To(Alice, 100), To(Bob, 50)>>,
    <<To(Alice, 34), To(Nowhere, 33)>>,
    <<To(Alice, 50), To(Bob, 34), To(Alice, 16)>>,
    <<To(Bob, 33), To(Contract, 50)>> }

Both(g, s) == [d \in Denoms |-> IF d = Gold THEN g ELSE s]

MCFunds == {Both(4, 0), Both(7, 7)}
MCEndowment == Both(7, 7)

MCModeratorSets == {{Alice}}
===============================================================================
