------------------------------- MODULE Receipt -------------------------------
(***************************************************************************)
(* The receipt contract (contracts/andromeda_receipt): it stores receipts  *)
(* under numbers.  Its minter, its moderators and its owner may both mint  *)
(* a receipt and edit one.                                                 *)
(***************************************************************************)
EXTENDS Storage, Naturals

CONSTANTS Senders,        \* the addresses that send messages
          Contents,       \* the events a receipt may hold
          ReceiptIds      \* the ids an edit may name

VARIABLES receipts,       \* RECEIPT: id -> contents
          numReceipts,    \* NUM_RECEIPT
          config,         \* CONFIG: minter and moderators
          receiptOwner    \* CONTRACT_OWNER

receiptVars == <<receipts, numReceipts, config, receiptOwner>>

TypeOK ==
  /\ DOMAIN receipts \subseteq Nat \ {0}
  /\ \A id \in DOMAIN receipts : receipts[id] \in Contents
  /\ numReceipts \in Nat
  /\ config \in [minter : Senders, moderators : SUBSET Senders]
  /\ receiptOwner \in Senders

----------------------------------------------------------------------------
CanMintReceipt(sender) ==
  sender = receiptOwner \/ sender = config.minter \/ sender \in config.moderators

\* Mutant of NextReceiptId: the number stored is used as it is.
LastReceiptId == numReceipts

\* increment_num_receipt: the number after the one stored; it is not stored.
NextReceiptId == numReceipts + 1

StoreReceipt(sender, contents) ==
  /\ CanMintReceipt(sender)
  /\ receipts' = Save(receipts, NextReceiptId, contents)
  /\ UNCHANGED <<numReceipts, config, receiptOwner>>

\* Mutant of EditReceipt: the receipt is not looked up first.
EditAnything(sender, id, contents) ==
  /\ CanMintReceipt(sender)
  /\ receipts' = Save(receipts, id, contents)
  /\ UNCHANGED <<numReceipts, config, receiptOwner>>

\* execute_edit_receipt: read_receipt fails for an id that has none.
EditReceipt(sender, id, contents) ==
  /\ CanMintReceipt(sender)
  /\ id \in DOMAIN receipts
  /\ receipts' = Save(receipts, id, contents)
  /\ UNCHANGED <<numReceipts, config, receiptOwner>>

\* execute_update_owner
UpdateOwner(sender, new) ==
  /\ sender = receiptOwner
  /\ receiptOwner' = new
  /\ UNCHANGED <<receipts, numReceipts, config>>

Init ==
  /\ receipts = EmptyMap
  /\ numReceipts = 0
  /\ config \in [minter : Senders, moderators : SUBSET Senders]
  /\ receiptOwner \in Senders

Next ==
  \E s \in Senders :
    \/ \E c \in Contents : StoreReceipt(s, c) \/ \E id \in ReceiptIds : EditReceipt(s, id, c)
    \/ \E new \in Senders : UpdateOwner(s, new)

Spec == Init /\ [][Next]_receiptVars
==============================================================================
