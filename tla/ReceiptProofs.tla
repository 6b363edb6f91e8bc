---------------------------- MODULE ReceiptProofs ----------------------------
(***************************************************************************)
(* Theorems about the receipt contract, for every set of senders and       *)
(* contents.  The strengthening of NoForgedReceipts is that NUM_RECEIPT is *)
(* never written, which bounds the ids that can be announced.              *)
(***************************************************************************)
EXTENDS MCReceipt, TLAPS

NothingCounted == numReceipts = 0 /\ DOMAIN receipts \subseteq {1}

IInv == TypeOK /\ NothingCounted /\ NoForgedReceipts /\ minted \in Nat

LEMMA InitInv == HInit => IInv
BY DEF HInit, Init, EmptyMap, IInv, TypeOK, NothingCounted, NoForgedReceipts

LEMMA StepInv == IInv /\ [HNext]_<<receiptVars, minted>> => IInv'
<1> SUFFICES ASSUME IInv, [HNext]_<<receiptVars, minted>>
             PROVE  IInv'
  OBVIOUS
<1> USE DEF IInv, TypeOK, NothingCounted, NoForgedReceipts
<1>1. ASSUME NEW s \in Senders, NEW c \in Contents, StoreReceipt(s, c), minted' = minted + 1
      PROVE  IInv'
  <2>1. receipts' = Save(receipts, 1, c) /\ UNCHANGED <<numReceipts, config, receiptOwner>>
    BY <1>1 DEF StoreReceipt, NextReceiptId
  <2>2. DOMAIN receipts' = DOMAIN receipts \cup {1}
    BY <2>1 DEF Save
  <2>3. \A id \in DOMAIN receipts' : receipts'[id] \in Contents
    BY <2>1 DEF Save
  <2>4. 1 \in 1..minted' /\ 1..minted \subseteq 1..minted' /\ minted' \in Nat
    BY <1>1
  <2> QED
    BY <2>1, <2>2, <2>3, <2>4
<1>2. ASSUME NEW s \in Senders, NEW c \in Contents, NEW id \in ReceiptIds, EditReceipt(s, id, c),
             UNCHANGED minted
      PROVE  IInv'
  <2>1. DOMAIN receipts' = DOMAIN receipts /\ \A i \in DOMAIN receipts' : receipts'[i] \in Contents
    BY <1>2 DEF EditReceipt, Save
  <2> QED
    BY <1>2, <2>1 DEF EditReceipt
<1>3. ASSUME NEW s \in Senders, NEW new \in Senders, UpdateOwner(s, new), UNCHANGED minted
      PROVE  IInv'
  BY <1>3 DEF UpdateOwner
<1>4. CASE UNCHANGED <<receiptVars, minted>>
  BY <1>4 DEF receiptVars
<1> QED
  BY <1>1, <1>2, <1>3, <1>4 DEF HNext, MintStep, OtherStep

\* What a receipt contract stores is well formed in every reachable state.
THEOREM TypeCorrect == HSpec => []TypeOK
<1>1. IInv => TypeOK
  BY DEF IInv
<1> QED
  BY <1>1, InitInv, StepInv, PTL DEF HSpec

\* No receipt is there that was not minted, in any receipt contract: an edit loads the
\* receipt before it stores (execute_edit_receipt).
THEOREM NothingForged == HSpec => []NoForgedReceipts
<1>1. IInv => NoForgedReceipts
  BY DEF IInv
<1> QED
  BY <1>1, InitInv, StepInv, PTL DEF HSpec

\* However many receipts are minted, at most the first id is ever in use: the number
\* that increment_num_receipt computes is not stored.
THEOREM OneReceiptAtMost == HSpec => [](DOMAIN receipts \subseteq {1})
<1>1. IInv => DOMAIN receipts \subseteq {1}
  BY DEF IInv, NothingCounted
<1> QED
  BY <1>1, InitInv, StepInv, PTL DEF HSpec
==============================================================================
