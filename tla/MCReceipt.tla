------------------------------ MODULE MCReceipt ------------------------------
(***************************************************************************)
(* The receipt contract on a small instance, with a history: how many      *)
(* receipts StoreReceipt messages have minted.                             *)
(***************************************************************************)
EXTENDS Receipt, FiniteSets

CONSTANT MaxMinted        \* bound: receipts minted in a behaviour

VARIABLE minted           \* how many StoreReceipt messages have succeeded

MintStep == \E s \in Senders, c \in Contents : StoreReceipt(s, c)

OtherStep ==
  \E s \in Senders :
    \/ \E c \in Contents, id \in ReceiptIds : EditReceipt(s, id, c)
    \/ \E new \in Senders : UpdateOwner(s, new)

HInit == Init /\ minted = 0
HNext == \/ minted < MaxMinted /\ MintStep /\ minted' = minted + 1
         \/ OtherStep /\ UNCHANGED minted

HSpec == HInit /\ [][HNext]_<<receiptVars, minted>>

\* No receipt is there that was not minted: an edit never makes one (read_receipt
\* in execute_edit_receipt), so there are at most as many receipts, with ids no
\* greater, than StoreReceipt messages.
NoForgedReceipts == DOMAIN receipts \subseteq 1..minted

\* StoreReceipt is documented to mint a new receipt and generate its id: every one
\* minted is there, under an id of its own.
EveryReceiptKept == Cardinality(DOMAIN receipts) = minted
==============================================================================
