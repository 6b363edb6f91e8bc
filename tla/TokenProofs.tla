----------------------------- MODULE TokenProofs -----------------------------
(***************************************************************************)
(* Theorems about the token contract and the transactions it begins, for   *)
(* every set of users, ids, prices, expirations and module lists.          *)
(*                                                                         *)
(* The inductive invariant is the conjunction of TypeOK, NumTokensExact    *)
(* and OneApprovalPerSpender.  The action properties and the refinement    *)
(* need no more than the guards of the actions and the type.               *)
(*                                                                         *)
(* SettledWhenDone and SoldMeansPaid speak of the end of a transaction.    *)
(* MarketInv says what holds before: the balances settle once the payments *)
(* that still wait are counted in, every token that was offered is still   *)
(* so or has been sold, and a seller the bank does not know is one whose   *)
(* payment still waits.  Between two transactions it says only that what   *)
(* is stored has its type, so undoing a transaction preserves it.          *)
(***************************************************************************)
EXTENDS TokenHistory, Market, CommonProofs, FiniteSetTheorems, SequenceTheorems, TLAPS

IInv == TypeOK /\ NumTokensExact /\ OneApprovalPerSpender

----------------------------------------------------------------------------
\* The tokens stored are finitely many, so that they can be counted.
LEMMA TokensFinite == TypeOK => IsFiniteSet(DOMAIN tokens)
BY TokenAssumption, FS_Subset DEF TypeOK

\* What is left of a token's approvals when those of a spender are filtered out, and
\* what a new one makes of them.
LEMMA FilteredApprovals ==
  ASSUME NEW t \in TokenRecord, NEW s \in Users, NEW e \in Expiries,
         \A a, b \in t.approvals : a.spender = b.spender => a = b
  PROVE  LET kept == FilterApproval(t, s)
             added == kept \cup {[spender |-> s, expires |-> e]}
         IN  /\ added \in SUBSET Approval
             /\ \A a, b \in added : a.spender = b.spender => a = b
<1>1. t.approvals \subseteq Approval
  BY DEF TokenRecord
<1>2. [spender |-> s, expires |-> e] \in Approval
  BY DEF Approval
<1> QED
  BY <1>1, <1>2 DEF FilterApproval

----------------------------------------------------------------------------
\* The part of the invariant that is about the tokens.
TokensInv ==
  /\ DOMAIN tokens \subseteq Ids
  /\ \A id \in DOMAIN tokens : tokens[id] \in TokenRecord
  /\ numTokens \in Nat
  /\ NumTokensExact
  /\ OneApprovalPerSpender

\* It is preserved when a token is replaced by one with no more than one approval
\* per spender.
LEMMA EditPreserves ==
  ASSUME TokensInv, NEW id \in DOMAIN tokens, NEW t \in TokenRecord,
         \A a, b \in t.approvals : a.spender = b.spender => a = b,
         tokens' = [tokens EXCEPT ![id] = t], numTokens' = numTokens
  PROVE  TokensInv'
<1>1. DOMAIN tokens' = DOMAIN tokens
  OBVIOUS
<1>2. NumTokensExact'
  BY <1>1 DEF TokensInv, NumTokensExact
<1> QED
  BY <1>1, <1>2 DEF TokensInv, OneApprovalPerSpender

LEMMA MintPreserves ==
  ASSUME TokensInv, NEW s \in Users, NEW id \in Ids, NEW p \in Listings \cup {None}, Mint(s, id, p)
  PROVE  TokensInv'
<1> DEFINE t == [owner |-> s, publisher |-> s, approvals |-> {}, agreement |-> None,
                 archived |-> FALSE, pricing |-> p]
<1>1. t \in TokenRecord
  BY TokenAssumption DEF TokenRecord
<1>2. tokens' = Save(tokens, id, t) /\ id \notin DOMAIN tokens
  BY DEF Mint
<1>3. DOMAIN tokens' = DOMAIN tokens \cup {id}
  BY <1>2 DEF Save
<1>4. NumTokensExact'
  <2>1. IsFiniteSet(DOMAIN tokens)
    BY TokenAssumption, FS_Subset DEF TokensInv
  <2> QED
    BY <2>1, <1>2, <1>3, FS_AddElement DEF Mint, TokensInv, NumTokensExact
<1>5. \A i \in DOMAIN tokens' : tokens'[i] = t \/ (i \in DOMAIN tokens /\ tokens'[i] = tokens[i])
  BY <1>2 DEF Save
<1>6. t.approvals = {}
  OBVIOUS
<1>7. numTokens' \in Nat
  BY DEF Mint, TokensInv
<1> HIDE DEF t
<1> QED
  BY <1>1, <1>3, <1>4, <1>5, <1>6, <1>7 DEF TokensInv, OneApprovalPerSpender

LEMMA BurnPreserves ==
  ASSUME TokensInv, NEW s, NEW id, Burn(s, id)
  PROVE  TokensInv'
<1>1. DOMAIN tokens' = DOMAIN tokens \ {id} /\ \A i \in DOMAIN tokens' : tokens'[i] = tokens[i]
  BY DEF Burn, Delete
<1>2. IsFiniteSet(DOMAIN tokens)
  BY TokenAssumption, FS_Subset DEF TokensInv
<1>3. id \in DOMAIN tokens
  BY DEF Burn, OwnsLive
<1>4. NumTokensExact'
  BY <1>1, <1>2, <1>3, FS_RemoveElement DEF Burn, TokensInv, NumTokensExact
<1>5. numTokens' \in Nat
  BY DEF Burn, TokensInv
<1> QED
  BY <1>1, <1>4, <1>5 DEF TokensInv, OneApprovalPerSpender

LEMMA TokenMessagePreserves ==
  ASSUME TokensInv, NEW s \in Users, NEW id \in Ids, TokenMessage(s, id)
  PROVE  TokensInv'
<1> USE DEF TokensInv
<1>1. ASSUME NEW p \in Listings \cup {None}, Mint(s, id, p)
      PROVE  TokensInv'
  BY <1>1, MintPreserves
<1>2. ASSUME NEW p \in Listings \cup {None}, UpdatePricing(s, id, p)
      PROVE  TokensInv'
  <2> DEFINE t == [tokens[id] EXCEPT !.pricing = p]
  <2>1. id \in DOMAIN tokens /\ tokens[id] \in TokenRecord
    BY <1>2 DEF UpdatePricing, OwnsLive
  <2>2. t \in TokenRecord /\ t.approvals = tokens[id].approvals
    BY <1>2, <2>1 DEF TokenRecord
  <2>3. tokens' = [tokens EXCEPT ![id] = t] /\ numTokens' = numTokens
    BY <1>2 DEF UpdatePricing
  <2>4. \A a, b \in t.approvals : a.spender = b.spender => a = b
    BY <2>1, <2>2 DEF OneApprovalPerSpender
  <2> HIDE DEF t
  <2> QED
    BY <2>1, <2>2, <2>3, <2>4, EditPreserves
<1>3. ASSUME NEW r \in Recipients, TransferToken(s, r, id)
      PROVE  TokensInv'
  <2> DEFINE t == [tokens[id] EXCEPT !.owner = r, !.approvals = {}]
  <2>1. id \in DOMAIN tokens /\ tokens[id] \in TokenRecord
    BY <1>3 DEF TransferToken
  <2>2. t \in TokenRecord /\ t.approvals = {}
    BY <2>1 DEF TokenRecord
  <2>3. tokens' = [tokens EXCEPT ![id] = t] /\ numTokens' = numTokens
    BY <1>3, <2>1 DEF TransferToken, TokenRecord
  <2>4. \A a, b \in t.approvals : a.spender = b.spender => a = b
    BY <2>2
  <2> HIDE DEF t
  <2> QED
    BY <2>1, <2>2, <2>3, <2>4, EditPreserves
<1>4. ASSUME NEW a \in Users, Revoke(s, a, id)
      PROVE  TokensInv'
  <2>1. [tokens[id] EXCEPT !.approvals = FilterApproval(tokens[id], a)] \in TokenRecord
    BY <1>4 DEF Revoke, OwnsLive, FilterApproval, TokenRecord
  <2>2. \A b, c \in FilterApproval(tokens[id], a) : b.spender = c.spender => b = c
    BY <1>4 DEF Revoke, OwnsLive, FilterApproval, OneApprovalPerSpender
  <2> QED
    BY <1>4, <2>1, <2>2, EditPreserves DEF Revoke, OwnsLive, TokenRecord
<1>5. ASSUME NEW a \in Users, NEW e \in Expiries, Approve(s, a, id, e)
      PROVE  TokensInv'
  <2> DEFINE added == FilterApproval(tokens[id], a) \cup {[spender |-> a, expires |-> e]}
  <2>1. added \in SUBSET Approval /\ \A b, c \in added : b.spender = c.spender => b = c
    BY <1>5, FilteredApprovals DEF Approve, OwnsLive, OneApprovalPerSpender
  <2>2. [tokens[id] EXCEPT !.approvals = added] \in TokenRecord
    BY <1>5, <2>1 DEF Approve, OwnsLive, TokenRecord
  <2> QED
    BY <1>5, <2>1, <2>2, EditPreserves DEF Approve, OwnsLive, TokenRecord
<1>6. ASSUME NEW a \in Users \cup {AnyPurchaser}, NEW p \in Prices, TransferAgreement(s, id, a, p)
      PROVE  TokensInv'
  <2> DEFINE t == [tokens[id] EXCEPT !.agreement = [purchaser |-> a, amount |-> p]]
  <2>1. id \in DOMAIN tokens /\ tokens[id] \in TokenRecord
    BY <1>6 DEF TransferAgreement, OwnsLive
  <2>2. t \in TokenRecord /\ t.approvals = tokens[id].approvals
    BY <1>6, <2>1 DEF TokenRecord, Agreement
  <2>3. tokens' = [tokens EXCEPT ![id] = t] /\ numTokens' = numTokens
    BY <1>6 DEF TransferAgreement
  <2>4. \A b, c \in t.approvals : b.spender = c.spender => b = c
    BY <2>1, <2>2 DEF OneApprovalPerSpender
  <2> HIDE DEF t
  <2> QED
    BY <2>1, <2>2, <2>3, <2>4, EditPreserves
<1>7. CASE Burn(s, id)
  BY <1>7, BurnPreserves
<1>8. CASE Archive(s, id)
  <2> DEFINE t == [tokens[id] EXCEPT !.archived = TRUE]
  <2>1. id \in DOMAIN tokens /\ tokens[id] \in TokenRecord
    BY <1>8 DEF Archive, OwnsLive
  <2>2. t \in TokenRecord /\ t.approvals = tokens[id].approvals
    BY <1>8, <2>1 DEF TokenRecord
  <2>3. tokens' = [tokens EXCEPT ![id] = t] /\ numTokens' = numTokens
    BY <1>8 DEF Archive
  <2>4. \A a, b \in t.approvals : a.spender = b.spender => a = b
    BY <2>1, <2>2 DEF OneApprovalPerSpender
  <2> HIDE DEF t
  <2> QED
    BY <2>1, <2>2, <2>3, <2>4, EditPreserves
<1> QED
  BY <1>1, <1>2, <1>3, <1>4, <1>5, <1>6, <1>7, <1>8 DEF TokenMessage, TransferMessage, ApprovalMessage,
    EditMessage, TransferNft, SendNft

----------------------------------------------------------------------------
\* The other part of the invariant.
OtherInv ==
  /\ DOMAIN operators \subseteq Users \X Users
  /\ \A p \in DOMAIN operators : operators[p] \in Expiries \cup {NeverExpires}
  /\ contractOwner \in Users
  /\ height \in Nat
  /\ AddressListType

LEMMA InvParts == IInv <=> TokensInv /\ OtherInv
BY DEF IInv, TypeOK, TokensInv, OtherInv

LEMMA InitInv == Init => IInv
<1> SUFFICES ASSUME Init
             PROVE  IInv
  OBVIOUS
<1>1. TokensInv
  BY FS_EmptySet DEF Init, EmptyMap, TokensInv, NumTokensExact, OneApprovalPerSpender
<1>2. AddressListType
  <2>1. CASE lists = EmptyMap
    BY <2>1 DEF EmptyMap, AddressListType
  <2>2. ASSUME ListModuleOf(modules) # NoList, NEW mods \in ModeratorSets,
               lists = Save(EmptyMap, ListModuleOf(modules).contract,
                            [owner |-> Contract, moderators |-> mods, included |-> {}])
        PROVE  AddressListType
    <3>1. ListModuleOf(modules).contract \in ListContracts /\ mods \in SUBSET Users
      BY <2>2, AddressListAssumption, TokenAssumption DEF Init, AddressListModules
    <3>2. lists = [k \in {ListModuleOf(modules).contract} |->
                     [owner |-> Contract, moderators |-> mods, included |-> {}]]
      BY <2>2 DEF EmptyMap, Save
    <3> QED
      BY <3>1, <3>2, OneListType
  <2> QED
    BY <2>1, <2>2 DEF Init
<1>3. OtherInv
  BY <1>2 DEF Init, EmptyMap, OtherInv
<1> QED
  BY <1>1, <1>3, InvParts

LEMMA StepInv == IInv /\ [Next]_vars => IInv'
<1> SUFFICES ASSUME TokensInv, OtherInv, [Next]_vars
             PROVE  TokensInv' /\ OtherInv'
  BY InvParts DEF IInv, TypeOK, TokensInv, OtherInv
<1>1. ASSUME NEW s \in Users, NEW id \in Ids, TokenMessage(s, id)
      PROVE  TokensInv' /\ OtherInv'
  <2>1. UNCHANGED <<operators, contractOwner, lists, height>>
    BY <1>1 DEF TokenMessage, TransferMessage, ApprovalMessage, EditMessage, Mint, UpdatePricing, TransferNft, SendNft, TransferToken, Revoke,
                Approve, TransferAgreement, Burn, Archive
  <2> QED
    BY <1>1, <2>1, TokenMessagePreserves DEF OtherInv, AddressListType
<1>2. ASSUME NEW s \in Users, NEW a \in Users, AccountMessage(s, a)
      PROVE  TokensInv' /\ OtherInv'
  <2>1. UNCHANGED <<tokens, numTokens, lists, height>>
    BY <1>2 DEF AccountMessage, ApproveAll, RevokeAll, UpdateOwner
  <2>2. /\ DOMAIN operators' \subseteq Users \X Users
        /\ \A p \in DOMAIN operators' : operators'[p] \in Expiries \cup {NeverExpires}
    BY <1>2 DEF AccountMessage, ApproveAll, RevokeAll, UpdateOwner, OtherInv, Save, Delete
  <2>3. contractOwner' \in Users
    BY <1>2 DEF AccountMessage, ApproveAll, RevokeAll, UpdateOwner, OtherInv
  <2> QED
    BY <2>1, <2>2, <2>3 DEF TokensInv, NumTokensExact, OneApprovalPerSpender, OtherInv, AddressListType
<1>3. CASE NextBlock
  BY <1>3 DEF NextBlock, store, TokensInv, NumTokensExact, OneApprovalPerSpender, OtherInv, AddressListType
<1>4. CASE ListTransaction
  BY <1>4, ListNextType
     DEF ListTransaction, store, TokensInv, NumTokensExact, OneApprovalPerSpender, OtherInv
<1>5. CASE UNCHANGED vars
  BY <1>5 DEF vars, TokensInv, NumTokensExact, OneApprovalPerSpender, OtherInv, AddressListType
<1> QED
  BY <1>1, <1>2, <1>3, <1>4, <1>5 DEF Next

THEOREM InvariantHolds == Spec => []IInv
BY InitInv, StepInv, PTL DEF Spec

\* What a token contract stores is well formed in every reachable state.
THEOREM TypeCorrect == Spec => []TypeOK
<1>1. IInv => TypeOK
  BY DEF IInv
<1> QED
  BY <1>1, InvariantHolds, PTL

\* NumTokens is the number of tokens, whatever messages come in whatever order
\* (increment_num_tokens, decrement_num_tokens).
THEOREM CountIsExact == Spec => []NumTokensExact
<1>1. IInv => NumTokensExact
  BY DEF IInv
<1> QED
  BY <1>1, InvariantHolds, PTL

\* A spender has at most one approval for a token (add_approval, remove_approval).
THEOREM ApprovalsAreUnique == Spec => []OneApprovalPerSpender
<1>1. IInv => OneApprovalPerSpender
  BY DEF IInv
<1> QED
  BY <1>1, InvariantHolds, PTL

----------------------------------------------------------------------------
\* What a step may do to the tokens: nothing; or add one under a free id; or remove
\* or replace one that is not archived, on behalf of a sender whom the modules allow.
\* All the action properties follow from this.
Replaces(s, id, t) ==
  /\ ModulesAllow(modules, s)
  /\ id \in DOMAIN tokens
  /\ ~tokens[id].archived
  /\ tokens' = [tokens EXCEPT ![id] = t]

MintsOne == \E id \in Ids, t \in TokenRecord :
  /\ id \notin DOMAIN tokens
  /\ tokens' = Save(tokens, id, t)
  /\ ~t.archived

BurnsOne == \E s \in Users, id \in DOMAIN tokens :
  /\ ModulesAllow(modules, s)
  /\ s = tokens[id].owner
  /\ ~tokens[id].archived
  /\ tokens' = Delete(tokens, id)

\* The owner changes the token, and stays its owner.
EditsOne == \E s \in Users, id \in DOMAIN tokens, t \in TokenRecord :
  /\ Replaces(s, id, t)
  /\ s = tokens[id].owner
  /\ t.owner = tokens[id].owner

MovesOne == \E s \in Users, id \in DOMAIN tokens, r \in Recipients :
  Replaces(s, id, [tokens[id] EXCEPT !.owner = r, !.approvals = {}])

TokensTyped(ts) == \A id \in DOMAIN ts : ts[id] \in TokenRecord

LEMMA Typed == TypeOK => TokensTyped(tokens)
BY DEF TypeOK, TokensTyped

LEMMA StepShape ==
  ASSUME TokensTyped(tokens), [Next]_vars
  PROVE  UNCHANGED tokens \/ MintsOne \/ BurnsOne \/ EditsOne \/ MovesOne
<1>1. ASSUME NEW s \in Users, NEW id \in Ids, NEW p \in Listings \cup {None}, Mint(s, id, p)
      PROVE  MintsOne
  <2> DEFINE t == [owner |-> s, publisher |-> s, approvals |-> {}, agreement |-> None,
                   archived |-> FALSE, pricing |-> p]
  <2>1. t \in TokenRecord /\ ~t.archived
    BY TokenAssumption DEF TokenRecord
  <2>2. id \notin DOMAIN tokens /\ tokens' = Save(tokens, id, t)
    BY <1>1 DEF Mint
  <2> HIDE DEF t
  <2> QED
    BY <2>1, <2>2 DEF MintsOne
<1>2. ASSUME NEW s \in Users, NEW r \in Recipients, NEW id \in Ids,
             ModulesAllow(modules, s), TransferToken(s, r, id)
      PROVE  MovesOne
  <2> DEFINE t == [tokens[id] EXCEPT !.owner = r, !.approvals = {}]
  <2>1. id \in DOMAIN tokens /\ ~tokens[id].archived /\ tokens[id] \in TokenRecord
    BY <1>2 DEF TransferToken, TokensTyped
  <2>2. tokens' = [tokens EXCEPT ![id] = t]
    BY <1>2, <2>1 DEF TransferToken, TokenRecord
  <2> QED
    BY <1>2, <2>1, <2>2 DEF MovesOne, Replaces
<1>3. ASSUME NEW s \in Users, NEW id \in Ids, Burn(s, id)
      PROVE  BurnsOne
  BY <1>3 DEF Burn, OwnsLive, BurnsOne
<1>4. ASSUME NEW s \in Users, NEW id \in Ids, NEW t \in TokenRecord,
             ModulesAllow(modules, s), OwnsLive(s, id), t.owner = tokens[id].owner,
             tokens' = [tokens EXCEPT ![id] = t]
      PROVE  EditsOne
  BY <1>4 DEF OwnsLive, EditsOne, Replaces
<1>5. ASSUME NEW s \in Users, NEW id \in Ids, NEW p \in Listings \cup {None}, UpdatePricing(s, id, p)
      PROVE  EditsOne
  <2> DEFINE t == [tokens[id] EXCEPT !.pricing = p]
  <2>1. t \in TokenRecord /\ t.owner = tokens[id].owner /\ tokens' = [tokens EXCEPT ![id] = t]
    BY <1>5 DEF UpdatePricing, OwnsLive, TokensTyped, TokenRecord
  <2> QED
    BY <1>4, <1>5, <2>1 DEF UpdatePricing
<1>6. ASSUME NEW s \in Users, NEW id \in Ids, NEW a \in Users, Revoke(s, a, id)
      PROVE  EditsOne
  <2> DEFINE t == [tokens[id] EXCEPT !.approvals = FilterApproval(tokens[id], a)]
  <2>1. t \in TokenRecord /\ t.owner = tokens[id].owner /\ tokens' = [tokens EXCEPT ![id] = t]
    BY <1>6 DEF Revoke, OwnsLive, FilterApproval, TokensTyped, TokenRecord
  <2> QED
    BY <1>4, <1>6, <2>1 DEF Revoke
<1>7. ASSUME NEW s \in Users, NEW id \in Ids, NEW a \in Users, NEW e \in Expiries, Approve(s, a, id, e)
      PROVE  EditsOne
  <2> DEFINE new == [spender |-> a, expires |-> e]
             t == [tokens[id] EXCEPT !.approvals = FilterApproval(tokens[id], a) \cup {new}]
  <2>1. tokens[id] \in TokenRecord
    BY <1>7 DEF Approve, OwnsLive, TokensTyped
  <2>2. FilterApproval(tokens[id], a) \cup {new} \in SUBSET Approval
    BY <2>1 DEF FilterApproval, TokenRecord, Approval
  <2>3. t \in TokenRecord /\ t.owner = tokens[id].owner
    BY <2>1, <2>2 DEF TokenRecord
  <2>4. tokens' = [tokens EXCEPT ![id] = t]
    BY <1>7 DEF Approve
  <2> HIDE DEF t
  <2> QED
    BY <1>4, <1>7, <2>3, <2>4 DEF Approve
<1>8. ASSUME NEW s \in Users, NEW id \in Ids, NEW a \in Users \cup {AnyPurchaser}, NEW p \in Prices,
             TransferAgreement(s, id, a, p)
      PROVE  EditsOne
  <2> DEFINE t == [tokens[id] EXCEPT !.agreement = [purchaser |-> a, amount |-> p]]
  <2>1. t \in TokenRecord /\ t.owner = tokens[id].owner /\ tokens' = [tokens EXCEPT ![id] = t]
    BY <1>8 DEF TransferAgreement, OwnsLive, TokensTyped, TokenRecord, Agreement
  <2> QED
    BY <1>4, <1>8, <2>1 DEF TransferAgreement
<1>9. ASSUME NEW s \in Users, NEW id \in Ids, Archive(s, id)
      PROVE  EditsOne
  <2> DEFINE t == [tokens[id] EXCEPT !.archived = TRUE]
  <2>1. t \in TokenRecord /\ t.owner = tokens[id].owner /\ tokens' = [tokens EXCEPT ![id] = t]
    BY <1>9 DEF Archive, OwnsLive, TokensTyped, TokenRecord
  <2> QED
    BY <1>4, <1>9, <2>1 DEF Archive
<1>10. ASSUME NEW s \in Users, NEW id \in Ids, TokenMessage(s, id)
       PROVE  MintsOne \/ BurnsOne \/ EditsOne \/ MovesOne
  BY <1>10, <1>1, <1>2, <1>3, <1>5, <1>6, <1>7, <1>8, <1>9 DEF TokenMessage, TransferMessage, ApprovalMessage,
    EditMessage, TransferNft, SendNft
<1>11. ASSUME NEW s \in Users, NEW a \in Users, AccountMessage(s, a)
       PROVE  UNCHANGED tokens
  BY <1>11 DEF AccountMessage, ApproveAll, RevokeAll, UpdateOwner
<1>12. CASE NextBlock \/ ListTransaction \/ UNCHANGED vars
  BY <1>12 DEF NextBlock, ListTransaction, store, vars
<1> QED
  BY <1>10, <1>11, <1>12 DEF Next

----------------------------------------------------------------------------
\* An archived token stays as it is for ever, in every token contract: each handler
\* that changes a token first requires that it is not archived.
THEOREM ArchiveIsFinal == Spec => ArchivedForGood
<1> DEFINE Final == \A id \in DOMAIN tokens : tokens[id].archived =>
                      id \in DOMAIN tokens' /\ tokens'[id] = tokens[id]
<1>1. ASSUME TypeOK, [Next]_vars
      PROVE  Final
  <2>1. CASE UNCHANGED tokens
    BY <2>1
  <2>2. CASE MintsOne
    BY <2>2 DEF MintsOne, Save
  <2>3. CASE BurnsOne
    BY <2>3 DEF BurnsOne, Delete
  <2>4. CASE EditsOne \/ MovesOne
    BY <2>4 DEF EditsOne, MovesOne, Replaces
  <2> QED
    BY <1>1, <2>1, <2>2, <2>3, <2>4, Typed, StepShape
<1>2. TypeOK /\ [Next]_vars => [Final]_vars
  BY <1>1
<1> QED
  BY <1>2, TypeCorrect, PTL DEF Spec, ArchivedForGood

\* While the address list refuses a token's owner, a step can do no more to the token
\* than transfer it, in every token contract: all other handlers require that the
\* sender is the owner, and the hook of the module precedes them all.
THEOREM RefusedOwnersOnlyLose == Spec => RefusedOwnerMayOnlyLose
<1> DEFINE OnlyLoses == \A id \in DOMAIN tokens : ~ModulesAllow(modules, tokens[id].owner) =>
             /\ id \in DOMAIN tokens'
             /\ \/ tokens'[id] = tokens[id]
                \/ tokens'[id] = [tokens[id] EXCEPT !.owner = tokens'[id].owner, !.approvals = {}]
<1>1. ASSUME TypeOK, [Next]_vars
      PROVE  OnlyLoses
  <2>1. CASE UNCHANGED tokens
    BY <2>1
  <2>2. CASE MintsOne
    BY <2>2 DEF MintsOne, Save
  <2>3. CASE BurnsOne
    BY <2>3 DEF BurnsOne, Delete
  <2>4. CASE EditsOne
    BY <2>4 DEF EditsOne, Replaces
  <2>5. CASE MovesOne
    BY <1>1, <2>5 DEF MovesOne, Replaces, TypeOK, TokenRecord
  <2> QED
    BY <1>1, <2>1, <2>2, <2>3, <2>4, <2>5, Typed, StepShape
<1>2. TypeOK /\ [Next]_vars => [OnlyLoses]_vars
  BY <1>1
<1> QED
  BY <1>2, TypeCorrect, PTL DEF Spec, RefusedOwnerMayOnlyLose

----------------------------------------------------------------------------
\* The registry's view of the tokens.
Owners == [id \in DOMAIN tokens |-> tokens[id].owner]
Frozen == {id \in DOMAIN tokens : tokens[id].archived}

LEMMA RegistryInit == Init => R!Init
BY DEF Init, EmptyMap, R!Init, R!EmptyMap

LEMMA RegistryStep ==
  ASSUME TypeOK, [Next]_vars
  PROVE  [R!Next]_(R!registryVars)
<1> USE DEF Owners, Frozen
<1> SUFFICES R!Next \/ (Owners' = Owners /\ Frozen' = Frozen)
  BY DEF R!registryVars
<1>1. CASE UNCHANGED tokens
  BY <1>1
<1>2. CASE MintsOne
  <2>1. PICK id \in Ids, t \in TokenRecord :
          id \notin DOMAIN tokens /\ tokens' = Save(tokens, id, t) /\ ~t.archived
    BY <1>2 DEF MintsOne
  <2>2. t.owner \in Recipients
    BY DEF TokenRecord
  <2>3. Owners' = R!Save(Owners, id, t.owner) /\ Frozen' = Frozen
    BY <2>1 DEF Save, R!Save
  <2>4. R!Create(id, t.owner)
    BY <2>1, <2>3 DEF R!Create
  <2> QED
    BY <2>2, <2>4 DEF R!Next
<1>3. CASE BurnsOne
  <2>1. PICK id \in DOMAIN tokens : ~tokens[id].archived /\ tokens' = Delete(tokens, id)
    BY <1>3 DEF BurnsOne
  <2>2. Owners' = R!Delete(Owners, id) /\ Frozen' = Frozen
    BY <2>1 DEF Delete, R!Delete
  <2>3. R!Destroy(id) /\ id \in Ids
    BY <2>1, <2>2 DEF R!Destroy, TypeOK
  <2> QED
    BY <2>3 DEF R!Next
<1>4. CASE EditsOne
  <2>1. PICK id \in DOMAIN tokens, t \in TokenRecord :
          /\ ~tokens[id].archived
          /\ tokens' = [tokens EXCEPT ![id] = t]
          /\ t.owner = tokens[id].owner
    BY <1>4 DEF EditsOne, Replaces
  <2>2. Owners' = Owners
    BY <2>1
  <2>3. CASE t.archived
    <3>1. Frozen' = Frozen \cup {id}
      BY <2>1, <2>3
    <3>2. R!Freeze(id) /\ id \in Ids
      BY <2>1, <2>2, <3>1 DEF R!Freeze, TypeOK
    <3> QED
      BY <3>2 DEF R!Next
  <2>4. CASE ~t.archived
    BY <2>1, <2>2, <2>4
  <2> QED
    BY <2>3, <2>4
<1>5. CASE MovesOne
  <2>1. PICK id \in DOMAIN tokens, r \in Recipients :
          /\ ~tokens[id].archived
          /\ tokens' = [tokens EXCEPT ![id] = [tokens[id] EXCEPT !.owner = r, !.approvals = {}]]
    BY <1>5 DEF MovesOne, Replaces
  <2>2. tokens'[id].owner = r /\ tokens'[id].archived = tokens[id].archived
    BY <2>1 DEF TypeOK, TokenRecord
  <2>3. \A i \in DOMAIN tokens : i # id => tokens'[i] = tokens[i]
    BY <2>1
  <2>4. DOMAIN tokens' = DOMAIN tokens
    BY <2>1
  <2>5. Owners' = [Owners EXCEPT ![id] = r] /\ Frozen' = Frozen
    BY <2>2, <2>3, <2>4
  <2>6. R!Move(id, r) /\ id \in Ids
    BY <2>1, <2>5 DEF R!Move, TypeOK
  <2> QED
    BY <2>6 DEF R!Next
<1> QED
  BY <1>1, <1>2, <1>3, <1>4, <1>5, Typed, StepShape

\* Every token contract implements the registry: an owner per token, for ever once
\* it is archived.
THEOREM TokenImplementsRegistry == Spec => ImplementsRegistry
BY RegistryInit, RegistryStep, TypeCorrect, PTL DEF Spec, ImplementsRegistry, R!Spec

----------------------------------------------------------------------------
\* The first few of a finite set: no more than asked for, and if any is left out, as
\* many as asked for and all of them before it.
LEMMA FirstFew ==
  ASSUME NEW n \in Nat, NEW S, IsFiniteSet(S), NEW place \in [S -> 1..n],
         \A a, b \in S : place[a] = place[b] => a = b,
         NEW limit \in Nat \ {0}
  PROVE  LET page == FirstOf(S, limit, place)
         IN  /\ Cardinality(page) <= limit
             /\ \A a \in S \ page : Cardinality(page) = limit /\ \A b \in page : place[b] < place[a]
<1> DEFINE Before(a) == {b \in S : place[b] < place[a]}
<1> PICK page : page = FirstOf(S, limit, place)
  OBVIOUS
<1>1. \A a \in S : IsFiniteSet(Before(a)) /\ Cardinality(Before(a)) \in Nat
  BY FS_Subset, FS_CardinalityType
<1>2. page = {a \in S : Cardinality(Before(a)) < limit}
  BY DEF FirstOf
<1>3. page \subseteq S /\ IsFiniteSet(page) /\ Cardinality(page) \in Nat
  BY <1>2, FS_Subset, FS_CardinalityType
<1>4. \A a \in S : place[a] \in 1..n
  OBVIOUS
<1>5. ASSUME NEW a \in S \ page, NEW b \in page
      PROVE  place[b] < place[a]
  <2> SUFFICES ASSUME place[a] <= place[b]
               PROVE  FALSE
    BY <1>3, <1>4
  <2>1. Before(a) \subseteq Before(b)
    BY <1>3, <1>4
  <2>2. Cardinality(Before(a)) <= Cardinality(Before(b))
    <3>1. PICK s, t : s = Before(a) /\ t = Before(b)
      OBVIOUS
    <3>2. IsFiniteSet(t) /\ s \in SUBSET t
      BY <1>1, <1>3, <2>1, <3>1
    <3>3. Cardinality(s) <= Cardinality(t)
      BY <3>2, FS_Subset
    <3> QED
      BY <3>1, <3>3
  <2>3. Cardinality(Before(b)) < limit /\ ~(Cardinality(Before(a)) < limit) /\ b \in S
    BY <1>2
  <2> HIDE DEF Before
  <2> QED
    BY <1>1, <2>2, <2>3
<1>6. Cardinality(page) <= limit
  <2>1. CASE page = {}
    BY <2>1, FS_EmptySet
  <2>2. CASE page # {}
    <3>1. PICK s : s = {i \in 1..n : \E a \in page : place[a] = i}
      OBVIOUS
    <3>2. s \in SUBSET (1..n) /\ s # {}
      BY <1>3, <1>4, <2>2, <3>1
    <3>3. Max(s) \in s /\ \A i \in s : i <= Max(s)
      BY <3>2, MaxExists
    <3>4. PICK last \in page : place[last] = Max(s)
      BY <3>1, <3>3
    <3>5. \A a \in page : place[a] <= place[last]
      BY <1>3, <1>4, <3>1, <3>3, <3>4
    <3>6. page \ {last} \subseteq Before(last)
      BY <1>3, <1>4, <3>5
    <3>7. PICK s1, t : s1 = page \ {last} /\ t = Before(last)
      OBVIOUS
    <3>8. IsFiniteSet(t) /\ s1 \in SUBSET t /\ Cardinality(t) < limit /\ Cardinality(t) \in Nat
      BY <1>1, <1>2, <3>4, <3>6, <3>7
    <3>9. Cardinality(s1) <= Cardinality(t) /\ Cardinality(s1) = Cardinality(page) - 1
      BY <1>3, <3>7, <3>8, FS_Subset, FS_RemoveElement
    <3> QED
      BY <1>3, <3>8, <3>9
  <2> QED
    BY <2>1, <2>2
<1>7. ASSUME NEW a \in S \ page
      PROVE  Cardinality(page) >= limit
  <2>1. PICK Bad : Bad = {i \in Nat : \E c \in S \ page : place[c] = i}
    OBVIOUS
  <2>2. Bad \in SUBSET Nat /\ Bad # {}
    BY <1>4, <2>1
  <2>3. PICK k \in Bad : \A j \in Bad : k <= j
    BY <2>2, SmallestNumber
  <2>4. PICK c \in S \ page : place[c] = k
    BY <2>1
  <2>5. Before(c) \subseteq page
    BY <1>4, <2>1, <2>3, <2>4
  <2>6. ~(Cardinality(Before(c)) < limit) /\ Cardinality(Before(c)) \in Nat
    BY <1>1, <1>2
  <2>7. Cardinality(Before(c)) <= Cardinality(page)
    BY <1>3, <2>5, FS_Subset
  <2> HIDE DEF Before
  <2> QED
    BY <1>3, <2>6, <2>7
<1> QED
  BY <1>3, <1>5, <1>6, <1>7

\* For every set of users, order of their addresses and limit, in every state.
THEOREM PagesAreComplete == Spec => []PagesMissNoOperator
<1>1. ASSUME NEW owner \in Users, NEW start \in Users \cup {None},
             NEW asked \in 1..(Cardinality(Users) + 1) \cup {None},
             NEW place \in Injection(Users, 1..Cardinality(Users))
      PROVE  LET page == AllApprovals(owner, FALSE, start, asked, place)
             IN  /\ Cardinality(page) <= PageLimit(asked)
                 /\ \A a \in page : IsOperator(owner, a)
                 /\ \A a \in Users \ page :
                      IsOperator(owner, a) /\ ReadAfter(place, start, a) =>
                        Cardinality(page) = PageLimit(asked) /\ \A b \in page : place[b] < place[a]
  <2> PICK limit : limit = PageLimit(asked)
    OBVIOUS
  <2>1. PICK S : S = {a \in Users : Listed(owner, FALSE, a) /\ ReadAfter(place, start, a)}
    OBVIOUS
  <2>2. PICK page : page = FirstOf(S, limit, place)
    OBVIOUS
  <2>3. page = AllApprovals(owner, FALSE, start, asked, place) /\ page \subseteq S
    BY <2>1, <2>2 DEF AllApprovals, FirstOf
  <2>4. \A a \in Users : a \in S <=> IsOperator(owner, a) /\ ReadAfter(place, start, a)
    BY <2>1 DEF Listed, IsOperator
  <2>5. IsFiniteSet(Users) /\ IsFiniteSet(S) /\ Cardinality(Users) \in Nat /\ S \subseteq Users
    BY <2>1, TokenAssumption, FS_Subset, FS_CardinalityType
  <2>6. PICK here : here = [a \in S |-> place[a]]
    OBVIOUS
  <2>7. place \in [Users -> 1..Cardinality(Users)] /\ \A a, b \in Users : place[a] = place[b] => a = b
    BY DEF Injection, IsInjective
  <2>8. /\ here \in [S -> 1..Cardinality(Users)] /\ (\A a, b \in S : here[a] = here[b] => a = b)
        /\ limit \in Nat \ {0}
    <3>1. limit \in Nat \ {0}
      <4>1. asked = None \/ asked \in Nat \ {0}
        BY <2>5
      <4> QED
        BY <4>1, TokenAssumption DEF PageLimit
    <3> QED
      BY <2>5, <2>6, <2>7, <3>1
  <2>9. FirstOf(S, limit, here) = page
    <3>1. \A a \in S : {b \in S : here[b] < here[a]} = {b \in S : place[b] < place[a]}
      BY <2>6
    <3> QED
      BY <2>2, <3>1 DEF FirstOf
  <2>10. /\ Cardinality(page) <= limit
         /\ \A a \in S \ page : Cardinality(page) = limit /\ \A b \in page : here[b] < here[a]
    BY <2>5, <2>8, <2>9, FirstFew
  <2>11. \A a \in S \ page : Cardinality(page) = limit /\ \A b \in page : place[b] < place[a]
    BY <2>3, <2>6, <2>10
  <2>12. \A a \in page : IsOperator(owner, a)
    BY <2>3, <2>4, <2>5
  <2> QED
    BY <2>3, <2>4, <2>10, <2>11, <2>12
<1>2. PagesMissNoOperator
  BY <1>1 DEF PagesMissNoOperator
<1> QED
  BY <1>2, PTL

----------------------------------------------------------------------------
(***************************************************************************)
(* What owners have granted, and what the contract has stored of it, are   *)
(* the same at all times.                                                  *)
(***************************************************************************)
GrantsTyped == DOMAIN grants \subseteq Users \X Users \X (Ids \cup {None})

OperatorsAreGrants ==
  \A o, s \in Users :
    /\ <<o, s, None>> \in DOMAIN grants <=> <<o, s>> \in DOMAIN operators
    /\ <<o, s>> \in DOMAIN operators => grants[<<o, s, None>>] = operators[<<o, s>>]

GrantsAreApprovals ==
  \A o, s \in Users, id \in Ids : <<o, s, id>> \in DOMAIN grants =>
    /\ id \in DOMAIN tokens
    /\ tokens[id].owner = o
    /\ [spender |-> s, expires |-> grants[<<o, s, id>>]] \in tokens[id].approvals

ApprovalsAreGrants ==
  \A id \in DOMAIN tokens : \A a \in tokens[id].approvals :
    /\ <<tokens[id].owner, a.spender, id>> \in DOMAIN grants
    /\ grants[<<tokens[id].owner, a.spender, id>>] = a.expires

GrantsInv == GrantsTyped /\ OperatorsAreGrants /\ GrantsAreApprovals /\ ApprovalsAreGrants

LEMMA GrantsInit == HInit => GrantsInv
BY DEF HInit, Init, EmptyMap, GrantsInv, GrantsTyped, OperatorsAreGrants, GrantsAreApprovals,
       ApprovalsAreGrants

\* The history adds nothing to what the contract does.
LEMMA HistoryStep == HNext => Next
BY DEF HNext, GrantStep, Next, TokenMessage, ApprovalMessage, AccountMessage

LEMMA ApproveGrants ==
  ASSUME TypeOK, GrantsInv, NEW s \in Users, NEW a \in Users, NEW id \in Ids, NEW e \in Expiries,
         Approve(s, a, id, e), Grant(s, a, id, e)
  PROVE  GrantsInv'
<1> DEFINE new == [spender |-> a, expires |-> e]
<1>1. /\ id \in DOMAIN tokens /\ tokens[id].owner = s
      /\ DOMAIN tokens' = DOMAIN tokens
      /\ \A i \in DOMAIN tokens : tokens'[i].owner = tokens[i].owner
      /\ \A i \in DOMAIN tokens \ {id} : tokens'[i] = tokens[i]
      /\ tokens'[id].approvals = FilterApproval(tokens[id], a) \cup {new}
      /\ operators' = operators
  BY DEF Approve, OwnsLive, TypeOK, TokenRecord
<1>2. /\ DOMAIN grants' = DOMAIN grants \cup {<<s, a, id>>}
      /\ grants'[<<s, a, id>>] = e
      /\ \A g \in DOMAIN grants : g # <<s, a, id>> => grants'[g] = grants[g]
  BY DEF Grant, Save
<1>3. GrantsTyped'
  BY <1>2 DEF GrantsInv, GrantsTyped
<1>4. OperatorsAreGrants'
  BY <1>1, <1>2, TokenAssumption DEF GrantsInv, OperatorsAreGrants
<1>5. GrantsAreApprovals'
  <2> SUFFICES ASSUME NEW o \in Users, NEW p \in Users, NEW i \in Ids, <<o, p, i>> \in DOMAIN grants'
               PROVE  /\ i \in DOMAIN tokens' /\ tokens'[i].owner = o
                      /\ [spender |-> p, expires |-> grants'[<<o, p, i>>]] \in tokens'[i].approvals
    BY DEF GrantsAreApprovals
  <2>1. CASE <<o, p, i>> = <<s, a, id>>
    BY <1>1, <1>2, <2>1
  <2>2. CASE <<o, p, i>> # <<s, a, id>>
    <3>1. /\ i \in DOMAIN tokens /\ tokens[i].owner = o
          /\ [spender |-> p, expires |-> grants[<<o, p, i>>]] \in tokens[i].approvals
          /\ grants'[<<o, p, i>>] = grants[<<o, p, i>>]
      BY <1>2, <2>2 DEF GrantsInv, GrantsAreApprovals
    <3>2. i = id => p # a
      BY <1>1, <2>2, <3>1
    <3> QED
      BY <1>1, <3>1, <3>2 DEF FilterApproval
  <2> QED
    BY <2>1, <2>2
<1>6. ApprovalsAreGrants'
  <2> SUFFICES ASSUME NEW i \in DOMAIN tokens', NEW b \in tokens'[i].approvals
               PROVE  /\ <<tokens'[i].owner, b.spender, i>> \in DOMAIN grants'
                      /\ grants'[<<tokens'[i].owner, b.spender, i>>] = b.expires
    BY DEF ApprovalsAreGrants
  <2>1. CASE i = id /\ b = new
    BY <1>1, <1>2, <2>1
  <2>2. CASE i # id \/ b # new
    <3>1. b \in tokens[i].approvals /\ i \in DOMAIN tokens /\ (i = id => b.spender # a)
      BY <1>1, <2>2 DEF FilterApproval
    <3>2. /\ <<tokens[i].owner, b.spender, i>> \in DOMAIN grants
          /\ grants[<<tokens[i].owner, b.spender, i>>] = b.expires
      BY <3>1 DEF GrantsInv, ApprovalsAreGrants
    <3>3. <<tokens[i].owner, b.spender, i>> # <<s, a, id>>
      BY <3>1
    <3> QED
      BY <1>1, <1>2, <3>1, <3>2, <3>3
  <2> QED
    BY <2>1, <2>2
<1> QED
  BY <1>3, <1>4, <1>5, <1>6 DEF GrantsInv

LEMMA RevokeTakesBack ==
  ASSUME TypeOK, GrantsInv, NEW s \in Users, NEW a \in Users, NEW id \in Ids,
         Revoke(s, a, id), TakeBack(s, a, id)
  PROVE  GrantsInv'
<1>1. /\ id \in DOMAIN tokens /\ tokens[id].owner = s
      /\ DOMAIN tokens' = DOMAIN tokens
      /\ \A i \in DOMAIN tokens : tokens'[i].owner = tokens[i].owner
      /\ \A i \in DOMAIN tokens \ {id} : tokens'[i] = tokens[i]
      /\ tokens'[id].approvals = FilterApproval(tokens[id], a)
      /\ operators' = operators
  BY DEF Revoke, OwnsLive, TypeOK, TokenRecord
<1>2. /\ DOMAIN grants' = DOMAIN grants \ {<<s, a, id>>}
      /\ \A g \in DOMAIN grants' : grants'[g] = grants[g]
  BY DEF TakeBack, Delete
<1>3. GrantsTyped'
  BY <1>2 DEF GrantsInv, GrantsTyped
<1>4. OperatorsAreGrants'
  BY <1>1, <1>2, TokenAssumption DEF GrantsInv, OperatorsAreGrants
<1>5. GrantsAreApprovals'
  <2> SUFFICES ASSUME NEW o \in Users, NEW p \in Users, NEW i \in Ids, <<o, p, i>> \in DOMAIN grants'
               PROVE  /\ i \in DOMAIN tokens' /\ tokens'[i].owner = o
                      /\ [spender |-> p, expires |-> grants'[<<o, p, i>>]] \in tokens'[i].approvals
    BY DEF GrantsAreApprovals
  <2>1. /\ i \in DOMAIN tokens /\ tokens[i].owner = o
        /\ [spender |-> p, expires |-> grants[<<o, p, i>>]] \in tokens[i].approvals
        /\ grants'[<<o, p, i>>] = grants[<<o, p, i>>]
    BY <1>2 DEF GrantsInv, GrantsAreApprovals
  <2>2. i = id => p # a
    BY <1>1, <1>2, <2>1
  <2> QED
    BY <1>1, <2>1, <2>2 DEF FilterApproval
<1>6. ApprovalsAreGrants'
  <2> SUFFICES ASSUME NEW i \in DOMAIN tokens', NEW b \in tokens'[i].approvals
               PROVE  /\ <<tokens'[i].owner, b.spender, i>> \in DOMAIN grants'
                      /\ grants'[<<tokens'[i].owner, b.spender, i>>] = b.expires
    BY DEF ApprovalsAreGrants
  <2>1. b \in tokens[i].approvals /\ i \in DOMAIN tokens /\ (i = id => b.spender # a)
    BY <1>1 DEF FilterApproval
  <2>2. /\ <<tokens[i].owner, b.spender, i>> \in DOMAIN grants
        /\ grants[<<tokens[i].owner, b.spender, i>>] = b.expires
    BY <2>1 DEF GrantsInv, ApprovalsAreGrants
  <2>3. <<tokens[i].owner, b.spender, i>> # <<s, a, id>>
    BY <2>1
  <2> QED
    BY <1>1, <1>2, <2>1, <2>2, <2>3
<1> QED
  BY <1>3, <1>4, <1>5, <1>6 DEF GrantsInv

\* Token "id" changes hands or goes, and with it all that was granted for it.
LEMMA EndingPreserves ==
  ASSUME TypeOK, GrantsInv, NEW id \in Ids, EndWith(id), operators' = operators,
         DOMAIN tokens' \subseteq DOMAIN tokens, DOMAIN tokens \subseteq DOMAIN tokens' \cup {id},
         \A i \in DOMAIN tokens' \ {id} : tokens'[i] = tokens[i],
         id \in DOMAIN tokens' => tokens'[id].approvals = {}
  PROVE  GrantsInv'
<1>1. /\ \A g \in DOMAIN grants' : g \in DOMAIN grants /\ g[3] # id /\ grants'[g] = grants[g]
      /\ \A g \in DOMAIN grants : g[3] # id => g \in DOMAIN grants'
  BY DEF EndWith
<1>2. GrantsTyped'
  BY <1>1 DEF GrantsInv, GrantsTyped
<1>3. OperatorsAreGrants'
  <2> SUFFICES ASSUME NEW o \in Users, NEW s \in Users
               PROVE  /\ <<o, s, None>> \in DOMAIN grants' <=> <<o, s>> \in DOMAIN operators
                      /\ <<o, s>> \in DOMAIN operators => grants'[<<o, s, None>>] = operators[<<o, s>>]
    BY DEF OperatorsAreGrants
  <2>1. <<o, s, None>>[3] # id
    BY TokenAssumption
  <2> QED
    BY <1>1, <2>1 DEF GrantsInv, OperatorsAreGrants
<1>4. GrantsAreApprovals'
  <2> SUFFICES ASSUME NEW o \in Users, NEW p \in Users, NEW i \in Ids, <<o, p, i>> \in DOMAIN grants'
               PROVE  /\ i \in DOMAIN tokens' /\ tokens'[i].owner = o
                      /\ [spender |-> p, expires |-> grants'[<<o, p, i>>]] \in tokens'[i].approvals
    BY DEF GrantsAreApprovals
  <2>1. <<o, p, i>> \in DOMAIN grants /\ i # id /\ grants'[<<o, p, i>>] = grants[<<o, p, i>>]
    BY <1>1
  <2> QED
    BY <2>1 DEF GrantsInv, GrantsAreApprovals
<1>5. ApprovalsAreGrants'
  <2> SUFFICES ASSUME NEW i \in DOMAIN tokens', NEW b \in tokens'[i].approvals
               PROVE  /\ <<tokens'[i].owner, b.spender, i>> \in DOMAIN grants'
                      /\ grants'[<<tokens'[i].owner, b.spender, i>>] = b.expires
    BY DEF ApprovalsAreGrants
  <2>1. i # id /\ i \in DOMAIN tokens /\ tokens'[i] = tokens[i]
    OBVIOUS
  <2>2. /\ <<tokens[i].owner, b.spender, i>> \in DOMAIN grants
        /\ grants[<<tokens[i].owner, b.spender, i>>] = b.expires
    BY <2>1 DEF GrantsInv, ApprovalsAreGrants
  <2>3. <<tokens[i].owner, b.spender, i>>[3] = i
    OBVIOUS
  <2> QED
    BY <1>1, <2>1, <2>2, <2>3
<1> QED
  BY <1>2, <1>3, <1>4, <1>5 DEF GrantsInv

\* No token changes hands, and nothing is granted or taken back.
LEMMA QuietPreserves ==
  ASSUME GrantsInv, UNCHANGED <<grants, operators>>, DOMAIN tokens \subseteq DOMAIN tokens',
         \A i \in DOMAIN tokens :
           tokens'[i].owner = tokens[i].owner /\ tokens'[i].approvals = tokens[i].approvals,
         \A i \in DOMAIN tokens' \ DOMAIN tokens : tokens'[i].approvals = {}
  PROVE  GrantsInv'
BY DEF GrantsInv, GrantsTyped, OperatorsAreGrants, GrantsAreApprovals, ApprovalsAreGrants

LEMMA OperatorGrants ==
  ASSUME TypeOK, GrantsInv, NEW s \in Users, NEW a \in Users, tokens' = tokens,
         \/ \E e \in Expiries : ApproveAll(s, a, e) /\ Grant(s, a, None, e)
         \/ RevokeAll(s, a) /\ TakeBack(s, a, None)
  PROVE  GrantsInv'
<1>1. /\ \A g : g # <<s, a, None>> =>
           (g \in DOMAIN grants' <=> g \in DOMAIN grants) /\ (g \in DOMAIN grants => grants'[g] = grants[g])
      /\ \A p : p # <<s, a>> =>
           (p \in DOMAIN operators' <=> p \in DOMAIN operators) /\ (p \in DOMAIN operators => operators'[p] = operators[p])
      /\ <<s, a, None>> \in DOMAIN grants' <=> <<s, a>> \in DOMAIN operators'
      /\ <<s, a>> \in DOMAIN operators' => grants'[<<s, a, None>>] = operators'[<<s, a>>]
  BY DEF ApproveAll, RevokeAll, Grant, TakeBack, Save, Delete
<1>2. GrantsTyped'
  BY <1>1 DEF GrantsInv, GrantsTyped
<1>3. OperatorsAreGrants'
  <2> SUFFICES ASSUME NEW o \in Users, NEW p \in Users
               PROVE  /\ <<o, p, None>> \in DOMAIN grants' <=> <<o, p>> \in DOMAIN operators'
                      /\ <<o, p>> \in DOMAIN operators' => grants'[<<o, p, None>>] = operators'[<<o, p>>]
    BY DEF OperatorsAreGrants
  <2>1. CASE <<o, p>> = <<s, a>>
    BY <1>1, <2>1
  <2>2. CASE <<o, p>> # <<s, a>>
    BY <1>1, <2>2 DEF GrantsInv, OperatorsAreGrants
  <2> QED
    BY <2>1, <2>2
<1>4. \A o, p, id : id # None => <<o, p, id>> # <<s, a, None>>
  OBVIOUS
<1>5. GrantsAreApprovals'
  BY <1>1, <1>4, TokenAssumption DEF GrantsInv, GrantsAreApprovals
<1>6. ApprovalsAreGrants'
  <2> SUFFICES ASSUME NEW i \in DOMAIN tokens, NEW b \in tokens[i].approvals
               PROVE  /\ <<tokens[i].owner, b.spender, i>> \in DOMAIN grants'
                      /\ grants'[<<tokens[i].owner, b.spender, i>>] = b.expires
    BY DEF ApprovalsAreGrants
  <2>1. i # None
    BY TokenAssumption DEF TypeOK
  <2>2. /\ <<tokens[i].owner, b.spender, i>> \in DOMAIN grants
        /\ grants[<<tokens[i].owner, b.spender, i>>] = b.expires
    BY DEF GrantsInv, ApprovalsAreGrants
  <2>3. <<tokens[i].owner, b.spender, i>> # <<s, a, None>>
    BY <2>1
  <2> QED
    BY <1>1, <2>2, <2>3
<1> QED
  BY <1>2, <1>3, <1>5, <1>6 DEF GrantsInv

LEMMA GrantsStep ==
  ASSUME TypeOK, GrantsInv, [HNext]_historyVars
  PROVE  GrantsInv'
<1>1. ASSUME NEW s \in Users, NEW id \in Ids, TransferMessage(s, id), EndWith(id)
      PROVE  GrantsInv'
  <2>1. PICK r \in Recipients : TransferToken(s, r, id)
    BY <1>1 DEF TransferMessage, TransferNft, SendNft
  <2>2. /\ DOMAIN tokens' = DOMAIN tokens /\ operators' = operators
        /\ \A i \in DOMAIN tokens' \ {id} : tokens'[i] = tokens[i]
        /\ tokens'[id].approvals = {}
    BY <2>1 DEF TransferToken, TypeOK, TokenRecord
  <2> QED
    BY <1>1, <2>2, EndingPreserves
<1>2. ASSUME NEW s \in Users, NEW id \in Ids, Burn(s, id), EndWith(id)
      PROVE  GrantsInv'
  <2>1. /\ DOMAIN tokens' = DOMAIN tokens \ {id} /\ operators' = operators
        /\ \A i \in DOMAIN tokens' : tokens'[i] = tokens[i]
    BY <1>2 DEF Burn, Delete
  <2> QED
    BY <1>2, <2>1, EndingPreserves
<1>3. ASSUME NEW s \in Users, GrantStep(s)
      PROVE  GrantsInv'
  <2>1. ASSUME NEW a \in Users,
               \/ \E e \in Expiries : ApproveAll(s, a, e) /\ Grant(s, a, None, e)
               \/ RevokeAll(s, a) /\ TakeBack(s, a, None)
        PROVE  GrantsInv'
    <3>1. tokens' = tokens
      BY <2>1 DEF ApproveAll, RevokeAll
    <3> QED
      BY <2>1, <3>1, OperatorGrants
  <2> QED
    BY <1>3, <2>1, ApproveGrants, RevokeTakesBack DEF GrantStep
<1>4. ASSUME NEW s \in Users, NEW id \in Ids, EditMessage(s, id), UNCHANGED grants
      PROVE  GrantsInv'
  <2>1. CASE \E p \in Listings \cup {None} : Mint(s, id, p)
    <3>1. /\ DOMAIN tokens' = DOMAIN tokens \cup {id} /\ operators' = operators
          /\ \A i \in DOMAIN tokens : tokens'[i] = tokens[i]
          /\ tokens'[id].approvals = {}
      BY <2>1 DEF Mint, Save
    <3> QED
      BY <1>4, <3>1, QuietPreserves
  <2>2. CASE ~\E p \in Listings \cup {None} : Mint(s, id, p)
    <3>1. /\ DOMAIN tokens' = DOMAIN tokens /\ operators' = operators
          /\ \A i \in DOMAIN tokens :
               tokens'[i].owner = tokens[i].owner /\ tokens'[i].approvals = tokens[i].approvals
      BY <1>4, <2>2 DEF EditMessage, UpdatePricing, TransferAgreement, Archive, OwnsLive, TypeOK, TokenRecord
    <3> QED
      BY <1>4, <3>1, QuietPreserves
  <2> QED
    BY <2>1, <2>2
<1>5. CASE UNCHANGED <<grants, operators, tokens>>
  BY <1>5, QuietPreserves
<1>6. ASSUME UNCHANGED grants, (\E s, a \in Users : UpdateOwner(s, a)) \/ NextBlock \/ ListTransaction
      PROVE  GrantsInv'
  BY <1>6, <1>5 DEF UpdateOwner, NextBlock, ListTransaction, store
<1>7. CASE UNCHANGED historyVars
  BY <1>7, <1>5 DEF historyVars, vars
<1> QED
  BY <1>1, <1>2, <1>3, <1>4, <1>6, <1>7 DEF HNext

\* In every token contract the rights that owners have granted are the rights stored.
LEMMA GrantsHold == HSpec => [](TypeOK /\ GrantsInv)
<1>1. HInit => IInv /\ GrantsInv
  BY InitInv, GrantsInit DEF HInit
<1>2. IInv /\ GrantsInv /\ [HNext]_historyVars => IInv' /\ GrantsInv'
  <2>1. [HNext]_historyVars => [Next]_vars
    BY HistoryStep DEF historyVars
  <2> QED
    BY <2>1, StepInv, GrantsStep DEF IInv
<1>3. IInv => TypeOK
  BY DEF IInv
<1> QED
  BY <1>1, <1>2, <1>3, PTL DEF HSpec

LEMMA OfUsers ==
  ASSUME GrantsInv, NEW g \in DOMAIN grants
  PROVE  g[1] \in Users /\ g[2] \in Users
BY DEF GrantsInv, GrantsTyped

LEMMA GrantedMeansStored ==
  ASSUME TypeOK, GrantsInv, NEW id \in DOMAIN tokens, NEW s
  PROVE  Granted(tokens[id].owner, s, id) <=> HasApproval(tokens[id], s) \/ IsOperator(tokens[id].owner, s)
<1> DEFINE o == tokens[id].owner
<1>1. height \in Nat /\ id \in Ids
  BY DEF TypeOK
<1>2. \A e \in Expiries \cup {NeverExpires} : (e \in Nat => height < e) <=> ~IsExpired(e)
  BY <1>1, TokenAssumption DEF IsExpired
<1>3. ASSUME HasApproval(tokens[id], s)
      PROVE  Granted(o, s, id)
  <2>1. PICK a \in tokens[id].approvals : a.spender = s /\ ~IsExpired(a.expires)
    BY <1>3 DEF HasApproval
  <2>2. <<o, s, id>> \in DOMAIN grants /\ grants[<<o, s, id>>] = a.expires
    BY <2>1 DEF GrantsInv, ApprovalsAreGrants
  <2>3. a.expires \in Expiries \cup {NeverExpires}
    BY DEF TypeOK, TokenRecord, Approval
  <2> QED
    BY <1>2, <2>1, <2>2, <2>3 DEF Granted
<1>4. ASSUME IsOperator(o, s)
      PROVE  Granted(o, s, id)
  <2>1. /\ <<o, s>> \in DOMAIN operators /\ o \in Users /\ s \in Users
        /\ operators[<<o, s>>] \in Expiries \cup {NeverExpires} /\ ~IsExpired(operators[<<o, s>>])
    BY <1>4 DEF IsOperator, TypeOK
  <2>2. <<o, s, None>> \in DOMAIN grants /\ grants[<<o, s, None>>] = operators[<<o, s>>]
    BY <2>1 DEF GrantsInv, OperatorsAreGrants
  <2> QED
    BY <1>2, <2>1, <2>2 DEF Granted
<1>5. ASSUME NEW what \in {id, None}, <<o, s, what>> \in DOMAIN grants,
             grants[<<o, s, what>>] \in Nat => height < grants[<<o, s, what>>]
      PROVE  HasApproval(tokens[id], s) \/ IsOperator(o, s)
  <2>1. o \in Users /\ s \in Users
    <3>1. <<o, s, what>>[1] \in Users /\ <<o, s, what>>[2] \in Users
      BY <1>5, OfUsers
    <3> QED
      BY <3>1
  <2>2. CASE what = id
    <3>1. [spender |-> s, expires |-> grants[<<o, s, id>>]] \in tokens[id].approvals
      BY <1>1, <1>5, <2>1, <2>2 DEF GrantsInv, GrantsAreApprovals
    <3>2. grants[<<o, s, id>>] \in Expiries \cup {NeverExpires}
      BY <3>1 DEF TypeOK, TokenRecord, Approval
    <3> QED
      BY <1>2, <1>5, <2>2, <3>1, <3>2 DEF HasApproval
  <2>3. CASE what = None
    <3>1. <<o, s>> \in DOMAIN operators /\ grants[<<o, s, None>>] = operators[<<o, s>>]
      BY <1>5, <2>1, <2>3 DEF GrantsInv, OperatorsAreGrants
    <3>2. operators[<<o, s>>] \in Expiries \cup {NeverExpires}
      BY <3>1 DEF TypeOK
    <3> QED
      BY <1>2, <1>5, <2>3, <3>1, <3>2 DEF IsOperator
  <2> QED
    BY <2>2, <2>3
<1>6. Granted(o, s, id) => HasApproval(tokens[id], s) \/ IsOperator(o, s)
  BY <1>5 DEF Granted
<1> QED
  BY <1>3, <1>4, <1>6

\* In every token contract a grant holds until it is taken back, expires or the token
\* moves: add_approval, remove_approval and execute_approve_all leave all others alone.
THEOREM GrantsAreKept == HSpec => []GrantsAreHonoured
<1>1. TypeOK /\ GrantsInv => GrantsAreHonoured
  BY GrantedMeansStored DEF GrantsAreHonoured, HasTransferRights
<1> QED
  BY <1>1, GrantsHold, PTL

\* In every token contract a token is moved by its owner, by somebody the agreement on it
\* names, or on a grant that its owner has made and that nothing has ended.
THEOREM MovesNeedGrants == HSpec => MovesAreAuthorised
<1> DEFINE Authorised ==
      \A id \in DOMAIN tokens :
        id \in DOMAIN tokens' /\ tokens'[id].owner # tokens[id].owner =>
          \/ mover' = tokens[id].owner
          \/ Granted(tokens[id].owner, mover', id)
          \/ HasAgreement(tokens[id], mover')
<1>1. TypeOK /\ GrantsInv /\ [HNext]_historyVars => [Authorised]_historyVars
  <2> SUFFICES ASSUME TypeOK, GrantsInv, HNext, NEW id \in DOMAIN tokens, id \in DOMAIN tokens',
                      tokens'[id].owner # tokens[id].owner
               PROVE  \/ mover' = tokens[id].owner
                      \/ Granted(tokens[id].owner, mover', id)
                      \/ HasAgreement(tokens[id], mover')
    OBVIOUS
  <2>1. ASSUME NEW s \in Users, NEW i \in Ids, TransferMessage(s, i), mover' = s
        PROVE  \/ mover' = tokens[id].owner
               \/ Granted(tokens[id].owner, mover', id)
               \/ HasAgreement(tokens[id], mover')
    <3>1. PICK r \in Recipients : TransferToken(s, r, i)
      BY <2>1 DEF TransferMessage, TransferNft, SendNft
    <3>2. i = id /\ HasTransferRights(tokens[id], s)
      BY <3>1 DEF TransferToken
    <3> QED
      BY <2>1, <3>2, GrantedMeansStored DEF HasTransferRights
  <2>2. ASSUME NEW s \in Users, NEW i \in Ids, Burn(s, i)
        PROVE  FALSE
    BY <2>2 DEF Burn, Delete
  <2>3. ASSUME NEW s \in Users, GrantStep(s)
        PROVE  FALSE
    <3>1. ASSUME NEW i \in Ids, NEW set, tokens' = [tokens EXCEPT ![i].approvals = set]
          PROVE  FALSE
      BY <3>1 DEF TypeOK, TokenRecord
    <3>2. tokens' # tokens
      OBVIOUS
    <3> QED
      BY <2>3, <3>1, <3>2 DEF GrantStep, Approve, Revoke, ApproveAll, RevokeAll
  <2>4. ASSUME NEW s \in Users, NEW i \in Ids, EditMessage(s, i)
        PROVE  FALSE
    <3>1. CASE \E p \in Listings \cup {None} : Mint(s, i, p)
      BY <3>1 DEF Mint, Save
    <3>2. CASE ~\E p \in Listings \cup {None} : Mint(s, i, p)
      BY <2>4, <3>2 DEF EditMessage, UpdatePricing, TransferAgreement, Archive, TypeOK, TokenRecord
    <3> QED
      BY <3>1, <3>2
  <2>5. CASE (\E s, a \in Users : UpdateOwner(s, a)) \/ NextBlock \/ ListTransaction
    BY <2>5 DEF UpdateOwner, NextBlock, ListTransaction, store
  <2> QED
    BY <2>1, <2>2, <2>3, <2>4, <2>5 DEF HNext
<1> QED
  BY <1>1, GrantsHold, PTL DEF HSpec, MovesAreAuthorised

----------------------------------------------------------------------------
(***************************************************************************)
(* The transactions of the market: the token contract, the bank and the    *)
(* contracts that are called, message by message.                          *)
(***************************************************************************)
\* The addresses that may come to be paid, and by no module twice over in this set.
ReceiversIn(ms) == UNION {Range(ms[i].receivers) : i \in {j \in DOMAIN ms : TakesFees(ms[j])}}
Payees == Recipients \cup UNION {ReceiversIn(ms) : ms \in ModuleLists}

\* The messages that wait to be delivered, and the sales of a transaction.
Message ==
  [kind : {"send"}, to : Payees, coin : [denom : Denoms, amount : Nat]]
    \cup [kind : {"store"}, event : Agreement]
    \cup [kind : {"receive"}, contract : Recipients, id : Ids]

PaidSale(ms) == {s \in [seller : Recipients, price : Prices] : AgreedPayments(ms, s.seller, s.price) # Refused}

\* What each message brings to these addresses, and what each sale comes to.
Sends(m, A, d) == IF m.kind = "send" /\ m.to \in A THEN InDenom(m.coin, d) ELSE 0
Arrivals(A, d) == [m \in Message |-> Sends(m, A, d)]
Costs(ms, d) == [s \in PaidSale(ms) |-> Cost(ms, s.price, d)]
Dues(ms, a, d) == [s \in PaidSale(ms) |-> Due(a, s.seller, ms, s.price, d)]

ListGiven == modules \in ModuleLists /\ ValidModules(modules)

TxTyped(x, ms) ==
  /\ x = [sender |-> x.sender, funds |-> x.funds, undo |-> x.undo, calls |-> x.calls,
          sales |-> x.sales, queue |-> x.queue]
  /\ x.sender \in Users /\ x.funds \in Coins
  /\ TokensTyped(x.undo.tokens) /\ x.undo.bank \in [Accounts -> Coins]
  /\ x.queue \in Seq(Message) /\ x.sales \in Seq(PaidSale(ms))

\* SettledWhenDone, with what the waiting payments will still bring, and take from the contract.
Even(b, x, ms, a, d) ==
  b[a][d] + (IF a = x.sender THEN x.funds[d] ELSE 0) + SumOver(Arrivals({a}, d), x.queue)
      + (IF a = Contract
         THEN SumOver(Costs(ms, d), x.sales) - SumOver(Arrivals(Payees, d), x.queue) ELSE 0)
    = x.undo.bank[a][d] + (IF a = Contract THEN x.funds[d] ELSE 0) + SumOver(Dues(ms, a, d), x.sales)

AllEven(b, x, ms) == \A a \in Accounts, d \in Denoms : Even(b, x, ms, a, d)

\* What was offered before the transaction is still so, or has been sold in it.
SaleOf(t) == [seller |-> t.owner, price |-> t.agreement.amount]

StillOffered(ts, before, id) ==
  id \in DOMAIN ts /\ ts[id].owner = before.owner /\ ts[id].agreement = before.agreement

KeptOrSold(ts, x) ==
  \A id \in DOMAIN x.undo.tokens :
    LET before == x.undo.tokens[id]
    IN  before.agreement # None /\ before.owner \notin Vendors =>
          StillOffered(ts, before, id) \/ SaleOf(before) \in Range(x.sales)

\* The bank knows every seller, or the payment to that seller still waits (and will fail).
Waits(q, seller) == \E m \in Range(q) : m.kind = "send" /\ m.to = seller
SellersKnown(x) == \A s \in Range(x.sales) : s.seller \in Accounts \/ Waits(x.queue, s.seller)

TxInv(ts, b, x, ms) == TxTyped(x, ms) /\ AllEven(b, x, ms) /\ KeptOrSold(ts, x) /\ SellersKnown(x)

MarketInv ==
  /\ ListGiven
  /\ TokensTyped(tokens) /\ bank \in [Accounts -> Coins]
  /\ tx # NoTx => TxInv(tokens, bank, tx, modules)

----------------------------------------------------------------------------
\* The module list of a token contract is one whose agreed payments the lemmas follow.
LEMMA ListFits ==
  ASSUME ListGiven
  PROVE  DOMAIN modules = 1..Len(modules) /\ Len(modules) \in Nat /\ ModuleList(modules, Payees, Denoms)
<1>1. /\ modules \in Seq(Range(modules))
      /\ \A m \in Range(modules) : m.kind \in {"tax", "royalty"} =>
           /\ m.receivers \in Seq(Range(m.receivers))
           /\ \/ m.rate.kind = "flat" /\ m.rate.coin \in [denom : Denoms, amount : Nat]
              \/ m.rate.kind = "percent" /\ m.rate.pct \in Nat
  BY MarketAssumption DEF ListGiven
<1>2. DOMAIN modules = 1..Len(modules) /\ Len(modules) \in Nat
  BY <1>1
<1>3. ASSUME NEW i \in DOMAIN modules
      PROVE  FeesGiven(modules[i], Payees, Denoms)
  <2>0. PICK m : m = modules[i]
    OBVIOUS
  <2>1. m \in Range(modules)
    BY <2>0 DEF Range
  <2> SUFFICES ASSUME TakesFees(m)
               PROVE  FeesGiven(m, Payees, Denoms)
    BY <2>0 DEF FeesGiven
  <2>2. /\ m.receivers \in Seq(Range(m.receivers))
        /\ \/ m.rate.kind = "flat" /\ m.rate.coin \in [denom : Denoms, amount : Nat]
           \/ m.rate.kind = "percent" /\ m.rate.pct \in Nat
    BY <1>1, <2>1 DEF TakesFees
  <2>3. Range(m.receivers) \subseteq Payees
    <3>1. Range(m.receivers) \subseteq ReceiversIn(modules)
      BY <2>0 DEF ReceiversIn
    <3>2. ReceiversIn(modules) \subseteq Payees
      BY DEF Payees, ListGiven
    <3> QED
      BY <3>1, <3>2
  <2>4. m.receivers \in Seq(Payees)
    BY <2>2, <2>3
  <2>5. /\ m.rate.kind = "flat" => m.rate.coin.amount > 0
        /\ m.rate.kind # "flat" => m.rate.pct > 0
    <3>1. ValidModule(m, modules)
      BY <2>0 DEF ListGiven, ValidModules
    <3>2. CASE m.kind = "tax"
      <4>1. ValidTax(m)
        BY <3>1, <3>2 DEF ValidModule, IsList
      <4>2. \A n \in 1..100 : n > 0
        OBVIOUS
      <4> QED
        BY <4>1, <4>2 DEF ValidTax
    <3>3. CASE m.kind = "royalty"
      <4>1. ValidRoyalty(m)
        BY <3>1, <3>3 DEF ValidModule, IsList
      <4> QED
        BY <4>1 DEF ValidRoyalty
    <3> QED
      BY <3>2, <3>3 DEF TakesFees
  <2>6. CASE m.rate.kind = "flat"
    <3>1. m.rate.coin \in [denom : Denoms, amount : Nat] /\ m.rate.coin.amount > 0
      BY <2>2, <2>5, <2>6
    <3>2. m.rate.coin = CoinOf(m.rate.coin.denom, m.rate.coin.amount) /\ m.rate.coin.denom \in Denoms
      BY <3>1 DEF CoinOf
    <3>3. RateGiven(m.rate)
      BY <2>6, <3>1, <3>2 DEF RateGiven
    <3> QED
      BY <2>4, <3>2, <3>3 DEF FeesGiven
  <2>7. CASE m.rate.kind = "percent"
    <3>1. RateGiven(m.rate)
      BY <2>2, <2>5, <2>7 DEF RateGiven
    <3> QED
      BY <2>4, <2>7, <3>1 DEF FeesGiven
  <2> QED
    BY <2>2, <2>6, <2>7
<1> QED
  BY <1>2, <1>3 DEF ModuleList

\* What a sale comes to, for the list of modules.
LEMMA SaleSums ==
  ASSUME ListGiven, NEW s \in PaidSale(modules), NEW a, NEW d \in Denoms
  PROVE  /\ AgreedPayments(modules, s.seller, s.price) \in Payments(Payees, Denoms)
         /\ Headed(AgreedPayments(modules, s.seller, s.price), s.seller, s.price.denom)
         /\ ReceivedBy(AgreedPayments(modules, s.seller, s.price), {a}, d) = Due(a, s.seller, modules, s.price, d)
         /\ ReceivedBy(AgreedPayments(modules, s.seller, s.price), Payees, d) = Cost(modules, s.price, d)
         /\ Cost(modules, s.price, d) \in Nat
         /\ Due(a, s.seller, modules, s.price, d) \in Nat
         /\ Due(s.seller, s.seller, modules, s.price, d) >= SellersPart(modules, s.price, d)
         /\ SellersPart(modules, s.price, d) \in Int
<1>1. PICK o, p : o = s.seller /\ p = s.price
  OBVIOUS
<1>2. o \in Payees /\ p \in [denom : Denoms, amount : Nat] /\ AgreedPayments(modules, o, p) # Refused
  BY <1>1, MarketAssumption DEF PaidSale, Payees
<1>3. /\ AgreedPayments(modules, o, p) \in Payments(Payees, Denoms)
      /\ SettledUpTo(AgreedPayments(modules, o, p), modules, Len(modules), o, p, Denoms, {a}, d)
  BY <1>2, ListFits, AgreedSettles
<1>4. Headed(AgreedPayments(modules, o, p), o, p.denom)
  BY <1>2, <1>3 DEF SettledUpTo
<1>5. /\ ReceivedBy(AgreedPayments(modules, o, p), {a}, d) = Due(a, o, modules, p, d)
      /\ ReceivedBy(AgreedPayments(modules, o, p), Payees, d) = Cost(modules, p, d)
      /\ Cost(modules, p, d) \in Nat
      /\ Due(a, o, modules, p, d) \in Nat
      /\ Due(o, o, modules, p, d) >= SellersPart(modules, p, d)
      /\ SellersPart(modules, p, d) \in Int
  <2>1. PICK ms : ms = modules
    OBVIOUS
  <2>2. DOMAIN ms = 1..Len(ms) /\ Len(ms) \in Nat /\ ModuleList(ms, Payees, Denoms)
    BY <2>1, ListFits
  <2>3. o \in Payees /\ p \in [denom : Denoms, amount : Nat] /\ AgreedPayments(ms, o, p) # Refused
    BY <1>2, <2>1
  <2>4. SettledFor(ms, o, p, Payees, a, d)
    BY <2>2, <2>3, AgreedSums
  <2> QED
    BY <2>1, <2>4 DEF SettledFor
<1> QED
  BY <1>1, <1>3, <1>4, <1>5

----------------------------------------------------------------------------
\* What messages and sales come to are numbers, and the sums of Market are sums over lists.
LEMMA ArrivalsTyped == \A A, d : Arrivals(A, d) \in [Message -> Nat] /\ Arrivals(A, d) \in [Message -> Int]
<1> SUFFICES ASSUME NEW A, NEW d, NEW m \in Message
             PROVE  Sends(m, A, d) \in Nat
  BY DEF Arrivals
<1>1. m.kind = "send" => m.coin.amount \in Nat
  BY DEF Message
<1> QED
  BY <1>1 DEF Sends, InDenom

LEMMA SalesTyped ==
  ASSUME ListGiven, NEW d \in Denoms, NEW a
  PROVE  /\ Costs(modules, d) \in [PaidSale(modules) -> Nat] /\ Costs(modules, d) \in [PaidSale(modules) -> Int]
         /\ Dues(modules, a, d) \in [PaidSale(modules) -> Nat] /\ Dues(modules, a, d) \in [PaidSale(modules) -> Int]
<1>1. \A s \in PaidSale(modules) : Cost(modules, s.price, d) \in Nat /\ Due(a, s.seller, modules, s.price, d) \in Nat
  BY SaleSums
<1> QED
  BY <1>1 DEF Costs, Dues

LEMMA SalesSum ==
  ASSUME NEW ss \in Seq(PaidSale(modules)), NEW a, NEW d
  PROVE  /\ SumFunction([i \in DOMAIN ss |-> Cost(modules, ss[i].price, d)]) = SumOver(Costs(modules, d), ss)
         /\ SumFunction([i \in DOMAIN ss |-> Due(a, ss[i].seller, modules, ss[i].price, d)])
              = SumOver(Dues(modules, a, d), ss)
<1>1. \A i \in DOMAIN ss : ss[i] \in PaidSale(modules)
  OBVIOUS
<1>2. [i \in DOMAIN ss |-> Cost(modules, ss[i].price, d)] = Weights(Costs(modules, d), ss)
  BY <1>1 DEF Weights, Costs
<1>3. [i \in DOMAIN ss |-> Due(a, ss[i].seller, modules, ss[i].price, d)] = Weights(Dues(modules, a, d), ss)
  BY <1>1 DEF Weights, Dues
<1> QED
  BY <1>2, <1>3 DEF SumOver

\* The messages of a transfer are those of its sale, if it is one: they bring every
\* account what it is due, and together what the sale costs.
Payable(t) == t \in TokenRecord /\ (t.agreement # None => PaymentsOf(t) # Refused)

LEMMA SalePaid ==
  ASSUME ListGiven, NEW t, Payable(t), t.agreement # None
  PROVE  SaleOf(t) \in PaidSale(modules) /\ SalesIn(t) = <<SaleOf(t)>> /\ t.agreement \in Agreement
<1>1. t.owner \in Recipients /\ t.agreement \in Agreement
  BY DEF Payable, TokenRecord
<1>2. t.agreement.amount \in Prices
  BY <1>1 DEF Agreement
<1>3. AgreedPayments(modules, t.owner, t.agreement.amount) # Refused
  BY DEF Payable, PaymentsOf
<1> QED
  BY <1>1, <1>2, <1>3 DEF PaidSale, SaleOf, SalesIn

LEMMA SaleSends ==
  ASSUME ListGiven, NEW t, Payable(t), t.agreement # None
  PROVE  /\ SaleMessages(t) \in Seq(Message)
         /\ Waits(SaleMessages(t), t.owner)
         /\ \A A : \A d \in Denoms :
              SumOver(Arrivals(A, d), SaleMessages(t)) = ReceivedBy(PaymentsOf(t), A, d)
<1> PICK ps : ps = PaymentsOf(t)
  OBVIOUS
<1> PICK sends : sends = [i \in DOMAIN ps |-> BankSend(ps[i])]
  OBVIOUS
<1> PICK rest : rest = IF HasReceiptModule(modules) THEN <<Store(t.agreement)>> ELSE <<>>
  OBVIOUS
<1>0. SaleMessages(t) = sends \o rest
  BY DEF SaleMessages
<1>1. SaleOf(t) \in PaidSale(modules) /\ t.agreement \in Agreement
  BY SalePaid
<1>2. SaleOf(t).seller = t.owner /\ SaleOf(t).price = t.agreement.amount
  BY DEF SaleOf
<1>3. ps \in Payments(Payees, Denoms) /\ ps # Refused /\ ps[1].to = t.owner
  <2>1. ASSUME NEW d \in Denoms
        PROVE  ps \in Payments(Payees, Denoms) /\ Headed(ps, t.owner, t.agreement.amount.denom)
    <3>1. PICK s \in PaidSale(modules) : s = SaleOf(t)
      BY <1>1
    <3>2. AgreedPayments(modules, s.seller, s.price) = ps
      BY <1>2, <3>1 DEF PaymentsOf
    <3>3. /\ AgreedPayments(modules, s.seller, s.price) \in Payments(Payees, Denoms)
          /\ Headed(AgreedPayments(modules, s.seller, s.price), s.seller, s.price.denom)
          /\ ReceivedBy(AgreedPayments(modules, s.seller, s.price), {d}, d) = Due(d, s.seller, modules, s.price, d)
      BY SaleSums
    <3> QED
      BY <1>2, <3>1, <3>2, <3>3
  <2>2. t.agreement.amount.denom \in Denoms
    BY <1>1, MarketAssumption DEF Agreement
  <2> QED
    BY <2>1, <2>2 DEF Headed
<1>4. Len(ps) \in Nat \ {0} /\ DOMAIN ps = 1..Len(ps) /\ \A i \in 1..Len(ps) : ps[i] \in PaymentOf(Payees, Denoms)
  <2>1. Len(ps) \in Nat /\ DOMAIN ps = 1..Len(ps) /\ \A i \in 1..Len(ps) : ps[i] \in PaymentOf(Payees, Denoms)
    BY <1>3, PaymentList
  <2>2. ps \in Seq(PaymentOf(Payees, Denoms)) /\ ps # <<>>
    BY <1>3 DEF Payments, Refused
  <2> QED
    BY <2>1, <2>2
<1>5. ASSUME NEW i \in DOMAIN ps
      PROVE  BankSend(ps[i]) \in Message /\ \A A, d : Sends(BankSend(ps[i]), A, d) = Brings(ps[i], A, d)
  <2>1. ps[i].to \in Payees /\ ps[i].coin \in [denom : Denoms, amount : Nat]
    BY <1>4 DEF PaymentOf
  <2> QED
    BY <2>1 DEF BankSend, Message, Sends, Brings
<1>6. sends \in Seq(Message) /\ Len(sends) = Len(ps) /\ DOMAIN sends = DOMAIN ps
  <2>1. sends \in [1..Len(ps) -> Message]
    BY <1>4, <1>5
  <2> QED
    BY <1>4, <2>1
<1>7. rest \in Seq(Message) /\ \A A, d : SumOver(Arrivals(A, d), rest) = 0
  <2>1. Store(t.agreement) \in Message /\ \A A, d : Sends(Store(t.agreement), A, d) = 0
    BY <1>1 DEF Store, Message, Sends
  <2>2. \A A, d : SumOver(Arrivals(A, d), <<>>) = 0 /\ SumOver(Arrivals(A, d), <<Store(t.agreement)>>) = 0
    <3> TAKE A, d
    <3>1. PICK w \in [Message -> Int] : w = Arrivals(A, d)
      BY ArrivalsTyped
    <3>2. SumOver(w, <<>>) = 0 /\ \A x \in Message : SumOver(w, <<x>>) = w[x]
      BY SumOverOne
    <3>3. w[Store(t.agreement)] = 0
      BY <2>1, <3>1 DEF Arrivals
    <3> QED
      BY <2>1, <3>1, <3>2, <3>3
  <2> QED
    BY <2>1, <2>2
<1>8. Waits(sends \o rest, t.owner)
  <2>1. 1 \in DOMAIN (sends \o rest) /\ (sends \o rest)[1] = sends[1] /\ sends[1] = BankSend(ps[1])
    BY <1>4, <1>6, <1>7
  <2>2. BankSend(ps[1]).kind = "send" /\ BankSend(ps[1]).to = t.owner
    BY <1>3 DEF BankSend
  <2> QED
    BY <2>1, <2>2 DEF Waits, Range
<1>9. ASSUME NEW A, NEW d \in Denoms
      PROVE  SumOver(Arrivals(A, d), sends \o rest) = ReceivedBy(ps, A, d)
  <2>1. PICK w \in [Message -> Int] : w = Arrivals(A, d)
    BY ArrivalsTyped
  <2>2. SumOver(w, sends \o rest) = SumOver(w, sends) + SumOver(w, rest)
    BY <1>6, <1>7, SumOverConcat
  <2>3. Weights(w, sends) = Income(ps, A, d)
    <3>1. \A i \in DOMAIN ps : w[sends[i]] = Brings(ps[i], A, d)
      BY <1>5, <2>1 DEF Arrivals
    <3> QED
      BY <1>6, <3>1 DEF Weights, Income
  <2>4. SumOver(w, sends) = ReceivedBy(ps, A, d)
    BY <2>3 DEF SumOver, ReceivedBy
  <2>5. SumOver(w, rest) = 0
    BY <1>7, <2>1
  <2>6. SumOver(w, sends) \in Int
    BY <1>6, SumOverUpTo
  <2> QED
    BY <2>1, <2>2, <2>4, <2>5, <2>6
<1>10. sends \o rest \in Seq(Message)
  BY <1>6, <1>7
<1> QED
  BY <1>0, <1>8, <1>9, <1>10

LEMMA SaleFor ==
  ASSUME ListGiven, NEW t, Payable(t)
  PROVE  /\ SaleMessages(t) \in Seq(Message) /\ SalesIn(t) \in Seq(PaidSale(modules))
         /\ \A s \in Range(SalesIn(t)) : Waits(SaleMessages(t), s.seller)
         /\ t.agreement # None => SaleOf(t) \in Range(SalesIn(t))
         /\ \A d \in Denoms :
              /\ \A a : SumOver(Arrivals({a}, d), SaleMessages(t)) = SumOver(Dues(modules, a, d), SalesIn(t))
              /\ SumOver(Arrivals(Payees, d), SaleMessages(t)) = SumOver(Costs(modules, d), SalesIn(t))
<1>1. CASE t.agreement = None
  <2>1. SaleMessages(t) = <<>> /\ SalesIn(t) = <<>>
    BY <1>1 DEF SaleMessages, SalesIn
  <2>2. ASSUME NEW d \in Denoms, NEW a
        PROVE  /\ \A A : SumOver(Arrivals(A, d), <<>>) = 0
               /\ SumOver(Dues(modules, a, d), <<>>) = 0 /\ SumOver(Costs(modules, d), <<>>) = 0
    <3>1. \A A : SumOver(Arrivals(A, d), <<>>) = 0
      BY ArrivalsTyped, SumOverOne
    <3>2. Dues(modules, a, d) \in [PaidSale(modules) -> Int] /\ Costs(modules, d) \in [PaidSale(modules) -> Int]
      BY SalesTyped
    <3> QED
      BY <3>1, <3>2, SumOverOne
  <2> QED
    BY <1>1, <2>1, <2>2 DEF Range
<1>2. CASE t.agreement # None
  <2>1. PICK s : s = SaleOf(t)
    OBVIOUS
  <2>2. s \in PaidSale(modules) /\ SalesIn(t) = <<s>> /\ s.seller = t.owner /\ s.price = t.agreement.amount
    BY <1>2, <2>1, SalePaid DEF SaleOf
  <2>3. /\ SaleMessages(t) \in Seq(Message)
        /\ Waits(SaleMessages(t), t.owner)
        /\ \A A : \A d \in Denoms : SumOver(Arrivals(A, d), SaleMessages(t)) = ReceivedBy(PaymentsOf(t), A, d)
    BY <1>2, SaleSends
  <2>4. PaymentsOf(t) = AgreedPayments(modules, s.seller, s.price)
    BY <2>2 DEF PaymentsOf
  <2>5. ASSUME NEW d \in Denoms, NEW a
        PROVE  /\ ReceivedBy(PaymentsOf(t), {a}, d) = SumOver(Dues(modules, a, d), <<s>>)
               /\ ReceivedBy(PaymentsOf(t), Payees, d) = SumOver(Costs(modules, d), <<s>>)
    <3>1. /\ ReceivedBy(PaymentsOf(t), {a}, d) = Due(a, s.seller, modules, s.price, d)
          /\ ReceivedBy(PaymentsOf(t), Payees, d) = Cost(modules, s.price, d)
      BY <2>2, <2>4, SaleSums
    <3>2. SumOver(Dues(modules, a, d), <<s>>) = Dues(modules, a, d)[s] /\ SumOver(Costs(modules, d), <<s>>) = Costs(modules, d)[s]
      <4>1. PICK S, u, v : S = PaidSale(modules) /\ u = Dues(modules, a, d) /\ v = Costs(modules, d)
        OBVIOUS
      <4>2. u \in [S -> Int] /\ v \in [S -> Int] /\ s \in S
        BY <2>2, <4>1, SalesTyped
      <4>3. SumOver(u, <<s>>) = u[s] /\ SumOver(v, <<s>>) = v[s]
        BY <4>2, SumOverOne
      <4> QED
        BY <4>1, <4>3
    <3>3. Dues(modules, a, d)[s] = Due(a, s.seller, modules, s.price, d) /\ Costs(modules, d)[s] = Cost(modules, s.price, d)
      BY <2>2 DEF Dues, Costs
    <3> QED
      BY <3>1, <3>2, <3>3
  <2>6. <<s>> \in Seq(PaidSale(modules)) /\ Range(<<s>>) = {s}
    BY <2>2 DEF Range
  <2> QED
    BY <2>1, <2>2, <2>3, <2>5, <2>6
<1> QED
  BY <1>1, <1>2

----------------------------------------------------------------------------
\* One queue of messages after another, and one without its first message.
LEMMA JoinedLists ==
  ASSUME NEW S, NEW u \in Seq(S), NEW v \in Seq(S)
  PROVE  u \o v \in Seq(S) /\ Range(u \o v) = Range(u) \cup Range(v)
<1>1. PICK w : w = u \o v
  OBVIOUS
<1>2. /\ w \in Seq(S) /\ Len(u) \in Nat /\ Len(v) \in Nat /\ Len(w) = Len(u) + Len(v)
      /\ DOMAIN u = 1..Len(u) /\ DOMAIN v = 1..Len(v) /\ DOMAIN w = 1..(Len(u) + Len(v))
      /\ \A i \in 1..Len(u) : w[i] = u[i]
      /\ \A i \in 1..Len(v) : w[Len(u) + i] = v[i]
  BY <1>1
<1>3. ASSUME NEW i \in DOMAIN w
      PROVE  w[i] \in Range(u) \cup Range(v)
  <2>1. CASE i <= Len(u)
    BY <1>2, <2>1 DEF Range
  <2>2. CASE i > Len(u)
    <3>1. PICK j : j = i - Len(u)
      OBVIOUS
    <3>2. j \in 1..Len(v) /\ Len(u) + j = i
      BY <1>2, <2>2, <3>1
    <3> QED
      BY <1>2, <3>2 DEF Range
  <2> QED
    BY <1>2, <2>1, <2>2
<1>4. Range(u) \subseteq Range(w)
  BY <1>2 DEF Range
<1>5. Range(v) \subseteq Range(w)
  <2>1. ASSUME NEW i \in 1..Len(v)
        PROVE  v[i] \in Range(w)
    <3>1. PICK j : j = Len(u) + i
      OBVIOUS
    <3>2. j \in DOMAIN w /\ w[j] = v[i]
      BY <1>2, <3>1
    <3> QED
      BY <3>2 DEF Range
  <2> QED
    BY <1>2, <2>1 DEF Range
<1>6. Range(w) \subseteq Range(u) \cup Range(v)
  BY <1>3 DEF Range
<1> QED
  BY <1>1, <1>2, <1>4, <1>5, <1>6

LEMMA ListWithoutFirst ==
  ASSUME NEW S, NEW q \in Seq(S), q # <<>>
  PROVE  /\ Head(q) \in S /\ Tail(q) \in Seq(S)
         /\ \A x \in Range(q) : x = Head(q) \/ x \in Range(Tail(q))
<1>1. PICK t : t = Tail(q)
  OBVIOUS
<1>2. /\ Head(q) \in S /\ Head(q) = q[1] /\ t \in Seq(S) /\ DOMAIN q = 1..Len(q) /\ Len(q) \in Nat \ {0}
      /\ DOMAIN t = 1..(Len(q) - 1) /\ \A i \in 1..(Len(q) - 1) : t[i] = q[i + 1]
  BY <1>1
<1>3. ASSUME NEW i \in DOMAIN q, i # 1
      PROVE  q[i] \in Range(t)
  <2>1. PICK j : j = i - 1
    OBVIOUS
  <2>2. j \in DOMAIN t /\ t[j] = q[i]
    BY <1>2, <1>3, <2>1
  <2> QED
    BY <2>2 DEF Range
<1> QED
  BY <1>1, <1>2, <1>3 DEF Range

\* Messages that pay nobody.
Unpaid(q) == q \in Seq(Message) /\ \A A, d : SumOver(Arrivals(A, d), q) = 0

LEMMA NotifyUnpaid ==
  Unpaid(<<>>) /\ \A c \in Recipients, id \in Ids : Unpaid(<<Receive(c, id)>>)
<1>1. ASSUME NEW A, NEW d, NEW m \in Message, Sends(m, A, d) = 0
      PROVE  SumOver(Arrivals(A, d), <<>>) = 0 /\ SumOver(Arrivals(A, d), <<m>>) = 0
  <2>1. PICK w \in [Message -> Int] : w = Arrivals(A, d)
    BY ArrivalsTyped
  <2>2. SumOver(w, <<>>) = 0 /\ \A x \in Message : SumOver(w, <<x>>) = w[x]
    BY SumOverOne
  <2>3. w[m] = 0
    BY <1>1, <2>1 DEF Arrivals
  <2> QED
    BY <2>1, <2>2, <2>3
<1>2. ASSUME NEW A, NEW d
      PROVE  SumOver(Arrivals(A, d), <<>>) = 0
  BY ArrivalsTyped, SumOverOne
<1>3. ASSUME NEW c \in Recipients, NEW id \in Ids
      PROVE  Receive(c, id) \in Message /\ \A A, d : Sends(Receive(c, id), A, d) = 0
  BY DEF Receive, Message, Sends
<1> QED
  BY <1>1, <1>2, <1>3 DEF Unpaid

\* The queue after a transfer: the messages of its sale, those that pay nobody, and
\* those that waited before.
Queued(q, first, rest) ==
  /\ q \in Seq(Message)
  /\ \A A : \A d \in Denoms :
       SumOver(Arrivals(A, d), q) = SumOver(Arrivals(A, d), first) + SumOver(Arrivals(A, d), rest)
  /\ Range(first) \subseteq Range(q) /\ Range(rest) \subseteq Range(q)

LEMMA QueueGrows ==
  ASSUME ListGiven, NEW t, Payable(t), NEW quiet, Unpaid(quiet), NEW rest \in Seq(Message),
         NEW q, q = SaleMessages(t) \o quiet \o rest
  PROVE  Queued(q, SaleMessages(t), rest)
<1>1. PICK u : u = SaleMessages(t)
  OBVIOUS
<1>2. u \in Seq(Message) /\ quiet \in Seq(Message)
  BY <1>1, SaleFor DEF Unpaid
<1>3. PICK v : v = u \o quiet
  OBVIOUS
<1>4. v \in Seq(Message) /\ Range(v) = Range(u) \cup Range(quiet)
  BY <1>2, <1>3, JoinedLists
<1>5. v \o rest \in Seq(Message) /\ Range(v \o rest) = Range(v) \cup Range(rest)
  BY <1>4, JoinedLists
<1>6. ASSUME NEW A, NEW d \in Denoms
      PROVE  SumOver(Arrivals(A, d), v \o rest) = SumOver(Arrivals(A, d), u) + SumOver(Arrivals(A, d), rest)
  <2>1. PICK w \in [Message -> Int] : w = Arrivals(A, d)
    BY ArrivalsTyped
  <2>2. SumOver(w, v \o rest) = SumOver(w, v) + SumOver(w, rest)
    BY <1>4, SumOverConcat
  <2>3. SumOver(w, v) = SumOver(w, u) + SumOver(w, quiet)
    BY <1>2, <1>3, SumOverConcat
  <2>4. SumOver(w, quiet) = 0 /\ SumOver(w, u) \in Int /\ SumOver(w, rest) \in Int
    BY <1>2, <2>1, SumOverUpTo DEF Unpaid
  <2> QED
    BY <2>1, <2>2, <2>3, <2>4
<1> QED
  BY <1>1, <1>3, <1>4, <1>5, <1>6 DEF Queued

LEMMA TxSums ==
  ASSUME ListGiven, NEW x, TxTyped(x, modules), NEW a, NEW d \in Denoms
  PROVE  /\ SumOver(Arrivals({a}, d), x.queue) \in Int /\ SumOver(Arrivals(Payees, d), x.queue) \in Int
         /\ SumOver(Costs(modules, d), x.sales) \in Int /\ SumOver(Dues(modules, a, d), x.sales) \in Int
<1>1. x.queue \in Seq(Message) /\ x.sales \in Seq(PaidSale(modules))
  BY DEF TxTyped
<1>2. \A A : SumOver(Arrivals(A, d), x.queue) \in Int
  BY <1>1, ArrivalsTyped, SumOverUpTo
<1>3. Costs(modules, d) \in [PaidSale(modules) -> Int] /\ Dues(modules, a, d) \in [PaidSale(modules) -> Int]
  BY SalesTyped
<1> QED
  BY <1>1, <1>2, <1>3, SumOverUpTo

----------------------------------------------------------------------------
\* Only this token has changed.
OnlyChanges(ts, new, id) ==
  DOMAIN new = DOMAIN ts /\ \A i \in DOMAIN ts \ {id} : new[i] = ts[i]

\* A transfer begins a transaction: what its messages will bring is what it comes to.
LEMMA BeginKeeps ==
  ASSUME ListGiven, TokensTyped(tokens), bank \in [Accounts -> Coins],
         NEW s \in Users, NEW funds \in Coins, Covers(bank[s], funds),
         NEW id \in DOMAIN tokens, Payable(tokens[id]), NEW quiet, Unpaid(quiet),
         NEW new, OnlyChanges(tokens, new, id),
         NEW undo, undo.tokens = tokens, undo.bank = bank, NEW x,
         x = [sender |-> s, funds |-> funds, undo |-> undo, calls |-> 0,
              sales |-> SalesIn(tokens[id]), queue |-> SaleMessages(tokens[id]) \o quiet]
  PROVE  TxInv(new, Transfer(bank, s, Contract, funds), x, modules)
<1>0. PICK t, u, v : t = tokens[id] /\ u = SaleMessages(t) /\ v = u \o quiet
  OBVIOUS
<1>1. /\ u \in Seq(Message) /\ SalesIn(t) \in Seq(PaidSale(modules))
      /\ \A sale \in Range(SalesIn(t)) : Waits(u, sale.seller)
      /\ t.agreement # None => SaleOf(t) \in Range(SalesIn(t))
      /\ \A d \in Denoms :
           /\ \A a : SumOver(Arrivals({a}, d), u) = SumOver(Dues(modules, a, d), SalesIn(t))
           /\ SumOver(Arrivals(Payees, d), u) = SumOver(Costs(modules, d), SalesIn(t))
  BY <1>0, SaleFor
<1>2. v \in Seq(Message) /\ Range(u) \subseteq Range(v)
  BY <1>0, <1>1, JoinedLists DEF Unpaid
<1>3. ASSUME NEW A, NEW d \in Denoms
      PROVE  SumOver(Arrivals(A, d), v) = SumOver(Arrivals(A, d), u)
  <2>1. PICK w \in [Message -> Int] : w = Arrivals(A, d)
    BY ArrivalsTyped
  <2>2. SumOver(w, v) = SumOver(w, u) + SumOver(w, quiet)
    BY <1>0, <1>1, SumOverConcat DEF Unpaid
  <2>3. SumOver(w, quiet) = 0 /\ SumOver(w, u) \in Int
    BY <1>1, <2>1, SumOverUpTo DEF Unpaid
  <2> QED
    BY <2>1, <2>2, <2>3
<1>4. /\ x.sender = s /\ x.funds = funds /\ x.undo = undo /\ x.sales = SalesIn(t) /\ x.queue = v
  BY <1>0
<1>5. TxTyped(x, modules)
  BY <1>1, <1>2, <1>4 DEF TxTyped
<1>6. ASSUME NEW a \in Accounts, NEW d \in Denoms
      PROVE  Even(Transfer(bank, s, Contract, funds), x, modules, a, d)
  <2>1. PICK due, cost : due = SumOver(Dues(modules, a, d), x.sales) /\ cost = SumOver(Costs(modules, d), x.sales)
    OBVIOUS
  <2>2. due \in Int /\ cost \in Int
    BY <1>5, <2>1, TxSums
  <2>3. SumOver(Arrivals({a}, d), x.queue) = due /\ SumOver(Arrivals(Payees, d), x.queue) = cost
    BY <1>1, <1>3, <1>4, <2>1
  <2>4. bank[a][d] \in Nat /\ funds[d] \in Nat /\ bank[s][d] \in Nat
    BY MarketAssumption DEF Coins
  <2>5. Transfer(bank, s, Contract, funds)[a][d]
          = IF s = Contract THEN bank[a][d]
            ELSE IF a = s THEN bank[a][d] - funds[d]
            ELSE IF a = Contract THEN bank[a][d] + funds[d]
            ELSE bank[a][d]
    BY DEF Transfer
  <2>6. Transfer(bank, s, Contract, funds)[a][d] + (IF a = s THEN funds[d] ELSE 0)
          = bank[a][d] + (IF a = Contract THEN funds[d] ELSE 0)
    BY <2>4, <2>5
  <2>7. Transfer(bank, s, Contract, funds)[a][d] \in Int
    BY <2>4, <2>5
  <2>8. Transfer(bank, s, Contract, funds)[a][d] + (IF a = s THEN funds[d] ELSE 0) + due
          + (IF a = Contract THEN cost - cost ELSE 0)
          = bank[a][d] + (IF a = Contract THEN funds[d] ELSE 0) + due
    BY <2>2, <2>4, <2>6, <2>7
  <2> QED
    BY <1>4, <2>1, <2>3, <2>8 DEF Even
<1>7. KeptOrSold(new, x)
  BY <1>0, <1>1, <1>4 DEF KeptOrSold, OnlyChanges, StillOffered
<1>8. SellersKnown(x)
  BY <1>1, <1>2, <1>4 DEF SellersKnown, Waits
<1> QED
  BY <1>5, <1>6, <1>7, <1>8 DEF TxInv, AllEven

\* A called contract transfers a token in its turn.
SoldOn(x, y, t, quiet) ==
  y = [x EXCEPT !.queue = SaleMessages(t) \o quiet \o Tail(x.queue),
                !.sales = x.sales \o SalesIn(t), !.calls = x.calls + 1]

LEMMA SellOnKeeps ==
  ASSUME ListGiven, TokensTyped(tokens), NEW x, TxInv(tokens, bank, x, modules), bank \in [Accounts -> Coins],
         x.queue # <<>>, Head(x.queue).kind = "receive",
         NEW id \in DOMAIN tokens, Payable(tokens[id]), NEW quiet, Unpaid(quiet),
         NEW new, OnlyChanges(tokens, new, id), NEW y, SoldOn(x, y, tokens[id], quiet)
  PROVE  TxInv(new, bank, y, modules)
<1>0. PICK t, u, ss : t = tokens[id] /\ u = SaleMessages(t) /\ ss = SalesIn(t)
  OBVIOUS
<1>1. PICK rest, v : rest = Tail(x.queue) /\ v = u \o quiet \o rest
  OBVIOUS
<1>2. x.queue \in Seq(Message) /\ x.sales \in Seq(PaidSale(modules))
  BY DEF TxInv, TxTyped
<1>3. /\ u \in Seq(Message) /\ ss \in Seq(PaidSale(modules))
      /\ \A s \in Range(ss) : Waits(u, s.seller)
      /\ t.agreement # None => SaleOf(t) \in Range(ss)
      /\ \A d \in Denoms :
           /\ \A a : SumOver(Arrivals({a}, d), u) = SumOver(Dues(modules, a, d), ss)
           /\ SumOver(Arrivals(Payees, d), u) = SumOver(Costs(modules, d), ss)
  BY <1>0, SaleFor
<1>4. /\ Head(x.queue) \in Message /\ rest \in Seq(Message)
      /\ \A m \in Range(x.queue) : m = Head(x.queue) \/ m \in Range(rest)
  BY <1>1, <1>2, ListWithoutFirst
<1>5. /\ v \in Seq(Message)
      /\ \A A : \A d \in Denoms :
           SumOver(Arrivals(A, d), v) = SumOver(Arrivals(A, d), u) + SumOver(Arrivals(A, d), rest)
      /\ Range(u) \subseteq Range(v) /\ Range(rest) \subseteq Range(v)
  <2>1. Payable(t) /\ v = SaleMessages(t) \o quiet \o rest /\ rest \in Seq(Message)
    BY <1>0, <1>1, <1>4
  <2>2. Queued(v, SaleMessages(t), rest)
    BY <2>1, QueueGrows
  <2> QED
    BY <1>0, <2>2 DEF Queued
<1>6. x.sales \o ss \in Seq(PaidSale(modules)) /\ Range(x.sales \o ss) = Range(x.sales) \cup Range(ss)
  BY <1>2, <1>3, JoinedLists
<1>7. x = [sender |-> x.sender, funds |-> x.funds, undo |-> x.undo, calls |-> x.calls,
           sales |-> x.sales, queue |-> x.queue]
  BY DEF TxInv, TxTyped
<1>8. /\ y = [sender |-> x.sender, funds |-> x.funds, undo |-> x.undo, calls |-> x.calls + 1,
              sales |-> x.sales \o ss, queue |-> v]
  BY <1>0, <1>1, <1>7 DEF SoldOn
<1>9. /\ y.sender = x.sender /\ y.funds = x.funds /\ y.undo = x.undo /\ y.sales = x.sales \o ss /\ y.queue = v
  <2>1. PICK sender, funds, undo, calls, sales :
          sender = x.sender /\ funds = x.funds /\ undo = x.undo /\ calls = x.calls + 1 /\ sales = x.sales \o ss
    OBVIOUS
  <2>2. y = [sender |-> sender, funds |-> funds, undo |-> undo, calls |-> calls, sales |-> sales, queue |-> v]
    BY <1>8, <2>1
  <2>3. y.sender = sender /\ y.funds = funds /\ y.undo = undo /\ y.sales = sales /\ y.queue = v
    BY <2>2
  <2> QED
    BY <2>1, <2>3
<1>10. TxTyped(y, modules)
  BY <1>5, <1>6, <1>8, <1>9 DEF TxInv, TxTyped
<1>11. ASSUME NEW A, NEW d \in Denoms
       PROVE  /\ SumOver(Arrivals(A, d), x.queue) = SumOver(Arrivals(A, d), rest)
              /\ SumOver(Arrivals(A, d), rest) \in Int /\ SumOver(Arrivals(A, d), u) \in Int
  <2>1. PICK w \in [Message -> Int] : w = Arrivals(A, d)
    BY ArrivalsTyped
  <2>2. SumOver(w, x.queue) = w[Head(x.queue)] + SumOver(w, rest)
    BY <1>1, <1>2, SumOverTail
  <2>3. w[Head(x.queue)] = 0
    BY <1>4, <2>1 DEF Arrivals, Sends
  <2>4. SumOver(w, rest) \in Int /\ SumOver(w, u) \in Int
    BY <1>3, <1>4, SumOverUpTo
  <2> QED
    BY <2>1, <2>2, <2>3, <2>4
<1>12. ASSUME NEW a \in Accounts, NEW d \in Denoms
       PROVE  Even(bank, y, modules, a, d)
  <2>1. PICK due, cost, waits, waitsAll :
          /\ due = SumOver(Dues(modules, a, d), ss) /\ cost = SumOver(Costs(modules, d), ss)
          /\ waits = SumOver(Arrivals({a}, d), rest) /\ waitsAll = SumOver(Arrivals(Payees, d), rest)
    OBVIOUS
  <2>2. PICK due0, cost0 :
          due0 = SumOver(Dues(modules, a, d), x.sales) /\ cost0 = SumOver(Costs(modules, d), x.sales)
    OBVIOUS
  <2>3. due \in Int /\ cost \in Int /\ waits \in Int /\ waitsAll \in Int
    BY <1>3, <1>11, <2>1
  <2>4. due0 \in Int /\ cost0 \in Int
    BY <2>2, TxSums DEF TxInv
  <2>5. /\ SumOver(Arrivals({a}, d), x.queue) = waits /\ SumOver(Arrivals(Payees, d), x.queue) = waitsAll
        /\ SumOver(Arrivals({a}, d), y.queue) = due + waits
        /\ SumOver(Arrivals(Payees, d), y.queue) = cost + waitsAll
    BY <1>3, <1>5, <1>9, <1>11, <2>1
  <2>6. /\ SumOver(Dues(modules, a, d), y.sales) = due0 + due
        /\ SumOver(Costs(modules, d), y.sales) = cost0 + cost
    <3>1. PICK S, f, g : S = PaidSale(modules) /\ f = Dues(modules, a, d) /\ g = Costs(modules, d)
      OBVIOUS
    <3>2. f \in [S -> Int] /\ g \in [S -> Int] /\ x.sales \in Seq(S) /\ ss \in Seq(S)
      BY <1>2, <1>3, <3>1, SalesTyped
    <3>3. SumOver(f, x.sales \o ss) = SumOver(f, x.sales) + SumOver(f, ss)
      BY <3>2, SumOverConcat
    <3>4. SumOver(g, x.sales \o ss) = SumOver(g, x.sales) + SumOver(g, ss)
      BY <3>2, SumOverConcat
    <3> QED
      BY <1>9, <2>1, <2>2, <3>1, <3>3, <3>4
  <2>7. PICK b, b0, f : b = bank[a][d] /\ b0 = x.undo.bank[a][d] /\ f = x.funds[d]
    OBVIOUS
  <2>8. b \in Int /\ b0 \in Int /\ f \in Int
    BY <2>7 DEF TxInv, TxTyped, Coins
  <2>9. b + (IF a = x.sender THEN f ELSE 0) + waits + (IF a = Contract THEN cost0 - waitsAll ELSE 0)
          = b0 + (IF a = Contract THEN f ELSE 0) + due0
    BY <2>2, <2>5, <2>7 DEF TxInv, AllEven, Even
  <2>10. b + (IF a = x.sender THEN f ELSE 0) + (due + waits)
           + (IF a = Contract THEN (cost0 + cost) - (cost + waitsAll) ELSE 0)
           = b0 + (IF a = Contract THEN f ELSE 0) + (due0 + due)
    <3>1. PICK e, g : e = (IF a = x.sender THEN f ELSE 0) /\ g = (IF a = Contract THEN f ELSE 0)
      OBVIOUS
    <3>2. e \in Int /\ g \in Int
      BY <2>8, <3>1
    <3>3. CASE a = Contract
      <4>1. b + e + waits + (cost0 - waitsAll) = b0 + g + due0
        BY <2>9, <3>1, <3>3
      <4>2. b + e + (due + waits) + ((cost0 + cost) - (cost + waitsAll)) = b0 + g + (due0 + due)
        BY <2>3, <2>4, <2>8, <3>2, <4>1
      <4> QED
        BY <3>1, <3>3, <4>2
    <3>4. CASE a # Contract
      <4>1. b + e + waits + 0 = b0 + g + due0
        BY <2>9, <3>1, <3>4
      <4>2. b + e + (due + waits) + 0 = b0 + g + (due0 + due)
        BY <2>3, <2>4, <2>8, <3>2, <4>1
      <4> QED
        BY <3>1, <3>4, <4>2
    <3> QED
      BY <3>3, <3>4
  <2> QED
    BY <1>9, <2>5, <2>6, <2>7, <2>10 DEF Even
<1>13. KeptOrSold(new, y)
  <2>1. ASSUME NEW i \in DOMAIN x.undo.tokens, x.undo.tokens[i].agreement # None,
               x.undo.tokens[i].owner \notin Vendors
        PROVE  StillOffered(new, x.undo.tokens[i], i) \/ SaleOf(x.undo.tokens[i]) \in Range(y.sales)
    <3>1. PICK before : before = x.undo.tokens[i]
      OBVIOUS
    <3>2. StillOffered(tokens, before, i) \/ SaleOf(before) \in Range(x.sales)
      BY <2>1, <3>1 DEF TxInv, KeptOrSold
    <3>3. CASE SaleOf(before) \in Range(x.sales)
      BY <1>6, <1>9, <3>1, <3>3
    <3>4. CASE StillOffered(tokens, before, i) /\ i # id
      BY <3>1, <3>4 DEF StillOffered, OnlyChanges
    <3>5. CASE StillOffered(tokens, before, i) /\ i = id
      <4>1. t.owner = before.owner /\ t.agreement = before.agreement
        BY <1>0, <3>5 DEF StillOffered
      <4>2. SaleOf(t) = SaleOf(before) /\ t.agreement # None
        BY <2>1, <3>1, <4>1 DEF SaleOf
      <4> QED
        BY <1>3, <1>6, <1>9, <3>1, <4>2
    <3> QED
      BY <3>2, <3>3, <3>4, <3>5
  <2> QED
    BY <1>9, <2>1 DEF KeptOrSold
<1>14. SellersKnown(y)
  <2> SUFFICES ASSUME NEW s \in Range(y.sales), s.seller \notin Accounts
               PROVE  Waits(y.queue, s.seller)
    BY DEF SellersKnown
  <2>1. CASE s \in Range(x.sales)
    <3>1. PICK m \in Range(x.queue) : m.kind = "send" /\ m.to = s.seller
      BY <2>1 DEF TxInv, SellersKnown, Waits
    <3>2. m \in Range(rest)
      BY <1>4, <3>1
    <3> QED
      BY <1>5, <1>9, <3>1, <3>2 DEF Waits
  <2>2. CASE s \in Range(ss)
    BY <1>3, <1>5, <1>9, <2>2 DEF Waits
  <2> QED
    BY <1>6, <1>9, <2>1, <2>2
<1> QED
  BY <1>10, <1>12, <1>13, <1>14 DEF TxInv, AllEven

\* A message of the queue has been delivered.
Shortened(x, y) == y = [x EXCEPT !.queue = Tail(x.queue), !.calls = y.calls]

LEMMA ShorterQueue ==
  ASSUME NEW x, TxTyped(x, modules), x.queue # <<>>, NEW y, Shortened(x, y)
  PROVE  /\ y.sender = x.sender /\ y.funds = x.funds /\ y.undo = x.undo /\ y.sales = x.sales
         /\ y.queue = Tail(x.queue) /\ TxTyped(y, modules)
<1>1. x = [sender |-> x.sender, funds |-> x.funds, undo |-> x.undo, calls |-> x.calls,
           sales |-> x.sales, queue |-> x.queue]
  BY DEF TxTyped
<1>2. PICK sender, funds, undo, calls, sales, queue :
        /\ sender = x.sender /\ funds = x.funds /\ undo = x.undo /\ calls = y.calls
        /\ sales = x.sales /\ queue = Tail(x.queue)
  OBVIOUS
<1>3. y = [sender |-> sender, funds |-> funds, undo |-> undo, calls |-> calls, sales |-> sales, queue |-> queue]
  BY <1>1, <1>2 DEF Shortened
<1>4. y.sender = sender /\ y.funds = funds /\ y.undo = undo /\ y.sales = sales /\ y.queue = queue /\ y.calls = calls
  BY <1>3
<1>5. queue \in Seq(Message)
  BY <1>2, ListWithoutFirst DEF TxTyped
<1>6. TxTyped(y, modules)
  BY <1>2, <1>3, <1>4, <1>5 DEF TxTyped
<1> QED
  BY <1>2, <1>4, <1>6

\* What waits, before and after the first message of the queue is delivered.
LEMMA FirstDelivered ==
  ASSUME NEW x, TxTyped(x, modules), x.queue # <<>>, NEW A, NEW d
  PROVE  /\ Head(x.queue) \in Message
         /\ SumOver(Arrivals(A, d), x.queue)
              = Sends(Head(x.queue), A, d) + SumOver(Arrivals(A, d), Tail(x.queue))
         /\ SumOver(Arrivals(A, d), Tail(x.queue)) \in Int /\ Sends(Head(x.queue), A, d) \in Int
<1>1. PICK w \in [Message -> Int] : w = Arrivals(A, d)
  BY ArrivalsTyped
<1>2. PICK q : q = x.queue
  OBVIOUS
<1>3. q \in Seq(Message) /\ q # <<>>
  BY <1>2 DEF TxTyped
<1>4. Head(q) \in Message /\ Tail(q) \in Seq(Message)
  BY <1>3, ListWithoutFirst
<1>5. SumOver(w, q) = w[Head(q)] + SumOver(w, Tail(q))
  BY <1>3, SumOverTail
<1>6. w[Head(q)] = Sends(Head(q), A, d)
  BY <1>1, <1>4 DEF Arrivals
<1>7. SumOver(w, Tail(q)) \in Int /\ w[Head(q)] \in Int
  BY <1>4, SumOverUpTo
<1> QED
  BY <1>1, <1>2, <1>4, <1>5, <1>6, <1>7

\* The first message is no payment: it is delivered, and the called contract may do
\* what it likes with tokens of its own.
LEMMA NotifiedKeeps ==
  ASSUME NEW x, TxInv(tokens, bank, x, modules), x.queue # <<>>, Head(x.queue).kind # "send",
         NEW y, Shortened(x, y), NEW new,
         \A id \in DOMAIN tokens : tokens[id].owner \notin Vendors => id \in DOMAIN new /\ new[id] = tokens[id]
  PROVE  TxInv(new, bank, y, modules)
<1>0. TxTyped(x, modules) /\ AllEven(bank, x, modules) /\ KeptOrSold(tokens, x) /\ SellersKnown(x)
  BY DEF TxInv
<1>1. /\ y.sender = x.sender /\ y.funds = x.funds /\ y.undo = x.undo /\ y.sales = x.sales
      /\ y.queue = Tail(x.queue) /\ TxTyped(y, modules)
  BY <1>0, ShorterQueue
<1>2. ASSUME NEW A, NEW d
      PROVE  SumOver(Arrivals(A, d), y.queue) = SumOver(Arrivals(A, d), x.queue)
  <2>1. Sends(Head(x.queue), A, d) = 0
    BY DEF Sends
  <2>2. PICK v, u : v = SumOver(Arrivals(A, d), x.queue) /\ u = SumOver(Arrivals(A, d), Tail(x.queue))
    OBVIOUS
  <2>3. v = 0 + u /\ u \in Int
    BY <1>0, <2>1, <2>2, FirstDelivered
  <2>4. v = u
    BY <2>3
  <2> QED
    BY <1>1, <2>2, <2>4
<1>3. AllEven(bank, y, modules)
  BY <1>0, <1>1, <1>2 DEF AllEven, Even
<1>4. KeptOrSold(new, y)
  BY <1>0, <1>1 DEF KeptOrSold, StillOffered
<1>5. SellersKnown(y)
  <2> SUFFICES ASSUME NEW s \in Range(x.sales), s.seller \notin Accounts
               PROVE  Waits(y.queue, s.seller)
    BY <1>1 DEF SellersKnown
  <2>1. PICK m \in Range(x.queue) : m.kind = "send" /\ m.to = s.seller
    BY <1>0 DEF SellersKnown, Waits
  <2>2. x.queue \in Seq(Message)
    BY <1>0 DEF TxTyped
  <2>3. m = Head(x.queue) \/ m \in Range(Tail(x.queue))
    BY <2>1, <2>2, ListWithoutFirst
  <2> QED
    BY <1>1, <2>1, <2>3 DEF Waits
<1> QED
  BY <1>1, <1>3, <1>4, <1>5 DEF TxInv

\* The first message is a payment, and the bank has carried it out.
LEMMA PaidKeeps ==
  ASSUME NEW x, TxInv(tokens, bank, x, modules), x.queue # <<>>, Head(x.queue).kind = "send",
         ListGiven, bank \in [Accounts -> Coins], NEW m, m = Head(x.queue), Sendable(m),
         NEW y, Shortened(x, y)
  PROVE  /\ TxInv(tokens, Transfer(bank, Contract, m.to, AsCoins(m.coin)), y, modules)
         /\ Transfer(bank, Contract, m.to, AsCoins(m.coin)) \in [Accounts -> Coins]
<1>0. TxTyped(x, modules) /\ AllEven(bank, x, modules) /\ KeptOrSold(tokens, x) /\ SellersKnown(x)
  BY DEF TxInv
<1>1. /\ y.sender = x.sender /\ y.funds = x.funds /\ y.undo = x.undo /\ y.sales = x.sales
      /\ y.queue = Tail(x.queue) /\ TxTyped(y, modules)
  BY <1>0, ShorterQueue
<1>2. m \in Message /\ m.kind = "send" /\ m.to \in Accounts /\ Covers(bank[Contract], AsCoins(m.coin))
  BY <1>0, FirstDelivered DEF Sendable
<1>3. m.to \in Payees /\ m.coin \in [denom : Denoms, amount : Nat]
  BY <1>2 DEF Message
<1>4. AsCoins(m.coin) \in Coins /\ Contract \in Accounts
  BY <1>3, MarketAssumption DEF AsCoins, Coins
<1>5. PICK after : after = Transfer(bank, Contract, m.to, AsCoins(m.coin))
  OBVIOUS
<1>6. after \in [Accounts -> Coins]
  BY <1>2, <1>4, <1>5, TransferType
<1>7. ASSUME NEW a \in Accounts, NEW d \in Denoms
      PROVE  Even(after, y, modules, a, d)
  <2>1. PICK c, waits, waitsAll :
          /\ c = InDenom(m.coin, d)
          /\ waits = SumOver(Arrivals({a}, d), Tail(x.queue)) /\ waitsAll = SumOver(Arrivals(Payees, d), Tail(x.queue))
    OBVIOUS
  <2>2. c \in Nat /\ waits \in Int /\ waitsAll \in Int
    BY <1>0, <1>3, <2>1, FirstDelivered DEF InDenom
  <2>3. PICK due, cost : due = SumOver(Dues(modules, a, d), x.sales) /\ cost = SumOver(Costs(modules, d), x.sales)
    OBVIOUS
  <2>4. due \in Int /\ cost \in Int
    BY <1>0, <2>3, TxSums
  <2>5. PICK own : own = IF m.to = a THEN c ELSE 0
    OBVIOUS
  <2>6. Sends(m, {a}, d) = own /\ Sends(m, Payees, d) = c
    BY <1>2, <1>3, <2>1, <2>5 DEF Sends
  <2>7. SumOver(Arrivals({a}, d), x.queue) = own + waits /\ SumOver(Arrivals(Payees, d), x.queue) = c + waitsAll
    BY <1>0, <2>1, <2>6, FirstDelivered
  <2>8. PICK b, b0, f : b = bank[a][d] /\ b0 = x.undo.bank[a][d] /\ f = x.funds[d]
    OBVIOUS
  <2>9. b \in Int /\ b0 \in Int /\ f \in Int
    BY <1>0, <2>8 DEF TxTyped, Coins
  <2>10. PICK e, g : e = (IF a = x.sender THEN f ELSE 0) /\ g = (IF a = Contract THEN f ELSE 0)
    OBVIOUS
  <2>11. e \in Int /\ g \in Int
    BY <2>9, <2>10
  <2>12. b + e + (own + waits) + (IF a = Contract THEN cost - (c + waitsAll) ELSE 0) = b0 + g + due
    BY <1>0, <2>3, <2>7, <2>8, <2>10 DEF AllEven, Even
  <2>13. PICK b1 : b1 = after[a][d]
    OBVIOUS
  <2>14. b1 = IF Contract = m.to THEN b ELSE IF a = Contract THEN b - c ELSE IF a = m.to THEN b + c ELSE b
    <3>1. AsCoins(m.coin)[d] = c
      BY <2>1, <1>3 DEF AsCoins, InDenom
    <3> QED
      BY <1>5, <2>8, <2>13, <3>1 DEF Transfer
  <2>15. b1 + e + waits + (IF a = Contract THEN cost - waitsAll ELSE 0) = b0 + g + due
    <3>1. CASE a = Contract /\ m.to = a
      <4>1. b1 = b /\ own = c
        BY <2>5, <2>14, <3>1
      <4>2. b + e + (c + waits) + (cost - (c + waitsAll)) = b0 + g + due
        BY <2>12, <3>1, <4>1
      <4>3. b + e + waits + (cost - waitsAll) = b0 + g + due
        BY <2>2, <2>4, <2>9, <2>11, <4>2
      <4> QED
        BY <3>1, <4>1, <4>3
    <3>2. CASE a = Contract /\ m.to # a
      <4>1. b1 = b - c /\ own = 0
        BY <2>5, <2>14, <3>2
      <4>2. b + e + (0 + waits) + (cost - (c + waitsAll)) = b0 + g + due
        BY <2>12, <3>2, <4>1
      <4>3. (b - c) + e + waits + (cost - waitsAll) = b0 + g + due
        BY <2>2, <2>4, <2>9, <2>11, <4>2
      <4> QED
        BY <3>2, <4>1, <4>3
    <3>3. CASE a # Contract /\ m.to = a
      <4>1. b1 = b + c /\ own = c
        BY <2>5, <2>14, <3>3
      <4>2. b + e + (c + waits) + 0 = b0 + g + due
        BY <2>12, <3>3, <4>1
      <4>3. (b + c) + e + waits + 0 = b0 + g + due
        BY <2>2, <2>9, <2>11, <4>2
      <4> QED
        BY <3>3, <4>1, <4>3
    <3>4. CASE a # Contract /\ m.to # a
      <4>1. b1 = b /\ own = 0
        BY <2>5, <2>14, <3>4
      <4>2. b + e + (0 + waits) + 0 = b0 + g + due
        BY <2>12, <3>4, <4>1
      <4>3. b + e + waits + 0 = b0 + g + due
        BY <2>2, <2>9, <2>11, <4>2
      <4> QED
        BY <3>4, <4>1, <4>3
    <3> QED
      BY <3>1, <3>2, <3>3, <3>4
  <2> QED
    BY <1>1, <2>1, <2>3, <2>8, <2>10, <2>13, <2>15 DEF Even
<1>8. KeptOrSold(tokens, y)
  BY <1>0, <1>1 DEF KeptOrSold
<1>9. SellersKnown(y)
  <2> SUFFICES ASSUME NEW s \in Range(x.sales), s.seller \notin Accounts
               PROVE  Waits(y.queue, s.seller)
    BY <1>1 DEF SellersKnown
  <2>1. PICK n \in Range(x.queue) : n.kind = "send" /\ n.to = s.seller
    BY <1>0 DEF SellersKnown, Waits
  <2>2. x.queue \in Seq(Message)
    BY <1>0 DEF TxTyped
  <2>3. n = Head(x.queue) \/ n \in Range(Tail(x.queue))
    BY <2>1, <2>2, ListWithoutFirst
  <2> QED
    BY <1>1, <1>2, <2>1, <2>3 DEF Waits
<1> QED
  BY <1>1, <1>5, <1>6, <1>7, <1>8, <1>9 DEF TxInv, AllEven

----------------------------------------------------------------------------
\* A transfer changes one token, and the agreement it had could be paid.
LEMMA TransferMoves ==
  ASSUME TokensTyped(tokens), NEW s, NEW r \in Recipients, NEW id, TransferToken(s, r, id)
  PROVE  /\ id \in DOMAIN tokens /\ Payable(tokens[id]) /\ OnlyChanges(tokens, tokens', id)
         /\ TokensTyped(tokens') /\ modules' = modules
<1>1. id \in DOMAIN tokens /\ tokens[id] \in TokenRecord
  BY DEF TransferToken, TokensTyped
<1>2. PICK t : t = [tokens[id] EXCEPT !.owner = r, !.approvals = {}]
  OBVIOUS
<1>3. t \in TokenRecord
  BY <1>1, <1>2 DEF TokenRecord
<1>4. tokens' = [tokens EXCEPT ![id] = t]
  BY <1>1, <1>2 DEF TransferToken, TokenRecord
<1>5. Payable(tokens[id]) /\ modules' = modules
  BY <1>1 DEF TransferToken, Payable
<1> QED
  BY <1>1, <1>3, <1>4, <1>5 DEF OnlyChanges, TokensTyped

\* A message without messages in its response leaves the tokens of others alone.
LEMMA QuietKeeps ==
  ASSUME TokensTyped(tokens), NEW s \in Users, QuietMessage(s)
  PROVE  /\ TokensTyped(tokens') /\ modules' = modules
         /\ \A id \in DOMAIN tokens : tokens[id].owner # s => id \in DOMAIN tokens' /\ tokens'[id] = tokens[id]
<1>1. Next
  BY DEF QuietMessage, TokenMessage, Next
<1>2. TokensTyped(tokens')
  <2>1. CASE UNCHANGED tokens
    BY <2>1 DEF TokensTyped
  <2>2. CASE MintsOne
    BY <2>2 DEF MintsOne, Save, TokensTyped
  <2>3. CASE BurnsOne
    BY <2>3 DEF BurnsOne, Delete, TokensTyped
  <2>4. CASE EditsOne
    BY <2>4 DEF EditsOne, Replaces, TokensTyped
  <2>5. CASE MovesOne
    <3>1. PICK id \in DOMAIN tokens, t \in TokenRecord : tokens' = [tokens EXCEPT ![id] = t]
      BY <2>5 DEF MovesOne, Replaces, TokensTyped, TokenRecord
    <3> QED
      BY <3>1 DEF TokensTyped
  <2> QED
    BY <1>1, <2>1, <2>2, <2>3, <2>4, <2>5, StepShape
<1>3. ASSUME NEW id \in Ids, ApprovalMessage(s, id)
      PROVE  /\ modules' = modules
             /\ \A i \in DOMAIN tokens : tokens[i].owner # s => i \in DOMAIN tokens' /\ tokens'[i] = tokens[i]
  BY <1>3 DEF ApprovalMessage, Approve, Revoke, OwnsLive
<1>4. ASSUME NEW id \in Ids, EditMessage(s, id)
      PROVE  /\ modules' = modules
             /\ \A i \in DOMAIN tokens : tokens[i].owner # s => i \in DOMAIN tokens' /\ tokens'[i] = tokens[i]
  BY <1>4 DEF EditMessage, Mint, UpdatePricing, TransferAgreement, Archive, OwnsLive, Save
<1>5. ASSUME NEW id \in Ids, Burn(s, id)
      PROVE  /\ modules' = modules
             /\ \A i \in DOMAIN tokens : tokens[i].owner # s => i \in DOMAIN tokens' /\ tokens'[i] = tokens[i]
  BY <1>5 DEF Burn, OwnsLive, Delete
<1>6. ASSUME NEW a \in Users, AccountMessage(s, a)
      PROVE  modules' = modules /\ tokens' = tokens
  BY <1>6 DEF AccountMessage, ApproveAll, RevokeAll, UpdateOwner
<1> QED
  BY <1>2, <1>3, <1>4, <1>5, <1>6 DEF QuietMessage

----------------------------------------------------------------------------
\* It holds at first, and after every step.
LEMMA MarketStarts == MarketInit => MarketInv
<1> SUFFICES ASSUME MarketInit
             PROVE  MarketInv
  OBVIOUS
<1>1. ListGiven
  BY DEF MarketInit, Init, ListGiven
<1>2. TokensTyped(tokens)
  BY DEF MarketInit, Init, EmptyMap, TokensTyped
<1>3. bank \in [Accounts -> Coins]
  BY MarketAssumption DEF MarketInit, NoCoins, Coins
<1> QED
  BY <1>1, <1>2, <1>3 DEF MarketInv, MarketInit

\* One case for each way in which a transaction begins, goes on and ends.
LEMMA BeginStep ==
  ASSUME MarketInv, NEW s \in Users, NEW f \in Funds \cup {NoCoins}, NEW r \in Recipients, NEW id \in Ids,
         NEW quiet, Unpaid(quiet), TransferToken(s, r, id), Begin(s, f, id, quiet)
  PROVE  MarketInv'
<1>1. ListGiven /\ TokensTyped(tokens) /\ bank \in [Accounts -> Coins]
  BY DEF MarketInv
<1>2. /\ id \in DOMAIN tokens /\ Payable(tokens[id]) /\ OnlyChanges(tokens, tokens', id)
      /\ TokensTyped(tokens') /\ modules' = modules
  BY <1>1, TransferMoves
<1>3. f \in Coins /\ s \in Accounts /\ Contract \in Accounts
  BY MarketAssumption DEF Coins, NoCoins
<1>4. bank' = Transfer(bank, s, Contract, f) /\ Covers(bank[s], f)
  BY DEF Begin
<1>5. bank' \in [Accounts -> Coins]
  BY <1>1, <1>3, <1>4, TransferType
<1>6. TxInv(tokens', bank', tx', modules)
  <2>1. PICK undo : undo = Now
    OBVIOUS
  <2>2. undo.tokens = tokens /\ undo.bank = bank
    BY <2>1 DEF Now
  <2>3. PICK x : x = tx'
    OBVIOUS
  <2>4. x = [sender |-> s, funds |-> f, undo |-> undo, calls |-> 0,
             sales |-> SalesIn(tokens[id]), queue |-> SaleMessages(tokens[id]) \o quiet]
    BY <2>1, <2>3 DEF Begin
  <2>5. PICK new : new = tokens'
    OBVIOUS
  <2>6. OnlyChanges(tokens, new, id)
    BY <1>2, <2>5
  <2>7. TxInv(new, Transfer(bank, s, Contract, f), x, modules)
    BY <1>1, <1>2, <1>3, <1>4, <2>2, <2>4, <2>6, BeginKeeps
  <2> QED
    BY <1>4, <2>3, <2>5, <2>7
<1>7. ListGiven'
  BY <1>1, <1>2 DEF ListGiven
<1>8. TxInv(tokens', bank', tx', modules')
  BY <1>2, <1>6
<1> QED
  BY <1>2, <1>5, <1>7, <1>8 DEF MarketInv

LEMMA SellOnStep ==
  ASSUME MarketInv, NEW r \in Recipients, NEW id \in Ids, NEW quiet, Unpaid(quiet),
         MayMessage, TransferToken(Head(tx.queue).contract, r, id), SellOn(id, quiet)
  PROVE  MarketInv'
<1>1. ListGiven /\ TokensTyped(tokens) /\ bank \in [Accounts -> Coins]
  BY DEF MarketInv
<1>2. /\ id \in DOMAIN tokens /\ Payable(tokens[id]) /\ OnlyChanges(tokens, tokens', id)
      /\ TokensTyped(tokens') /\ modules' = modules
  BY <1>1, TransferMoves
<1>3. PICK x, y, new : x = tx /\ y = tx' /\ new = tokens'
  OBVIOUS
<1>4. TxInv(tokens, bank, x, modules) /\ x.queue # <<>> /\ Head(x.queue).kind = "receive"
  BY <1>3 DEF MayMessage, Called, Waiting, MarketInv
<1>5. SoldOn(x, y, tokens[id], quiet)
  BY <1>3 DEF SellOn, SoldOn
<1>6. OnlyChanges(tokens, new, id)
  BY <1>2, <1>3
<1>7. TxInv(new, bank, y, modules)
  BY <1>1, <1>2, <1>4, <1>5, <1>6, SellOnKeeps
<1>8. bank' = bank
  BY DEF SellOn
<1>9. TxInv(tokens', bank', tx', modules') /\ ListGiven'
  BY <1>1, <1>2, <1>3, <1>7, <1>8 DEF ListGiven
<1> QED
  BY <1>1, <1>2, <1>8, <1>9 DEF MarketInv

\* A message is delivered that is no payment, and whoever receives it may change
\* tokens of its own.
LEMMA NotifyStep ==
  ASSUME MarketInv, tx # NoTx, tx.queue # <<>>, Head(tx.queue).kind # "send", Shortened(tx, tx'),
         bank' = bank, modules' = modules, TokensTyped(tokens'),
         \A id \in DOMAIN tokens : tokens[id].owner \notin Vendors =>
            id \in DOMAIN tokens' /\ tokens'[id] = tokens[id]
  PROVE  MarketInv'
<1>1. ListGiven /\ TokensTyped(tokens) /\ bank \in [Accounts -> Coins] /\ TxInv(tokens, bank, tx, modules)
  BY DEF MarketInv
<1>2. PICK y, new : y = tx' /\ new = tokens'
  OBVIOUS
<1>3. Shortened(tx, y)
  BY <1>2
<1>4. \A id \in DOMAIN tokens : tokens[id].owner \notin Vendors => id \in DOMAIN new /\ new[id] = tokens[id]
  BY <1>2
<1>5. TxInv(new, bank, y, modules)
  BY <1>1, <1>3, <1>4, NotifiedKeeps
<1>6. TxInv(tokens', bank', tx', modules') /\ ListGiven'
  BY <1>1, <1>2, <1>5 DEF ListGiven
<1> QED
  BY <1>1, <1>6 DEF MarketInv

LEMMA PaymentStep ==
  ASSUME MarketInv, DeliverPayment
  PROVE  MarketInv'
<1>1. ListGiven /\ TokensTyped(tokens) /\ bank \in [Accounts -> Coins] /\ TxInv(tokens, bank, tx, modules)
  BY DEF MarketInv, DeliverPayment, Waiting
<1>2. PICK m, y : m = Head(tx.queue) /\ y = tx'
  OBVIOUS
<1>3. tx.queue # <<>> /\ m.kind = "send" /\ Sendable(m)
  BY <1>2 DEF DeliverPayment, Waiting
<1>4. TxTyped(tx, modules)
  BY <1>1 DEF TxInv
<1>5. Shortened(tx, y)
  BY <1>2, <1>4 DEF DeliverPayment, Delivered, Shortened, TxTyped
<1>6. /\ TxInv(tokens, Transfer(bank, Contract, m.to, AsCoins(m.coin)), y, modules)
      /\ Transfer(bank, Contract, m.to, AsCoins(m.coin)) \in [Accounts -> Coins]
  BY <1>1, <1>2, <1>3, <1>5, PaidKeeps
<1>7. bank' = Transfer(bank, Contract, m.to, AsCoins(m.coin)) /\ tokens' = tokens /\ modules' = modules
  BY <1>2 DEF DeliverPayment, vars
<1>8. TxInv(tokens', bank', tx', modules') /\ ListGiven' /\ bank' \in [Accounts -> Coins] /\ TokensTyped(tokens')
  BY <1>1, <1>2, <1>6, <1>7 DEF ListGiven
<1> QED
  BY <1>8 DEF MarketInv

LEMMA ShortenedWhenDelivered ==
  ASSUME NEW x, TxTyped(x, modules), NEW y
  PROVE  /\ y = [x EXCEPT !.queue = Tail(x.queue)] => Shortened(x, y)
         /\ y = [x EXCEPT !.queue = Tail(x.queue), !.calls = x.calls + 1] => Shortened(x, y)
BY DEF Shortened, TxTyped

LEMMA DeliverStep ==
  ASSUME MarketInv, Deliver
  PROVE  MarketInv'
<1>1. ListGiven /\ TokensTyped(tokens) /\ bank \in [Accounts -> Coins]
  BY DEF MarketInv
<1>2. tx # NoTx => TxTyped(tx, modules)
  BY DEF MarketInv, TxInv
<1>3. CASE DeliverPayment
  BY <1>3, PaymentStep
<1>4. CASE DeliverReceipt
  <2>1. tx # NoTx /\ tx.queue # <<>> /\ Head(tx.queue).kind # "send"
    BY <1>4 DEF DeliverReceipt, Waiting
  <2>2. Shortened(tx, tx')
    BY <1>2, <1>4, <2>1, ShortenedWhenDelivered DEF DeliverReceipt, Delivered
  <2>3. bank' = bank /\ modules' = modules /\ tokens' = tokens
    BY <1>4 DEF DeliverReceipt, vars
  <2> QED
    BY <1>1, <2>1, <2>2, <2>3, NotifyStep
<1>5. CASE Accept
  <2>1. tx # NoTx /\ tx.queue # <<>> /\ Head(tx.queue).kind # "send"
    BY <1>5 DEF Accept, Called, Waiting
  <2>2. Shortened(tx, tx')
    BY <1>2, <1>5, <2>1, ShortenedWhenDelivered DEF Accept, Delivered
  <2>3. bank' = bank /\ modules' = modules /\ tokens' = tokens
    BY <1>5 DEF Accept, vars
  <2> QED
    BY <1>1, <2>1, <2>2, <2>3, NotifyStep
<1>6. ASSUME NEW r \in Recipients, NEW id \in Ids, AcceptAndTransfer(r, id)
      PROVE  MarketInv'
  <2>1. MayMessage /\ TransferToken(Head(tx.queue).contract, r, id) /\ SellOn(id, <<>>)
    BY <1>6 DEF AcceptAndTransfer, TransferNft
  <2> QED
    BY <2>1, NotifyUnpaid, SellOnStep
<1>7. ASSUME NEW r \in Recipients, NEW id \in Ids, AcceptAndSend(r, id)
      PROVE  MarketInv'
  <2>1. MayMessage /\ TransferToken(Head(tx.queue).contract, r, id) /\ SellOn(id, <<Receive(r, id)>>)
    BY <1>7 DEF AcceptAndSend, SendNft
  <2> QED
    BY <2>1, NotifyUnpaid, SellOnStep
<1>8. CASE AcceptAndMessage
  <2>1. tx # NoTx /\ tx.queue # <<>> /\ Head(tx.queue).kind # "send" /\ Head(tx.queue).contract \in Vendors
    BY <1>8 DEF AcceptAndMessage, MayMessage, Called, Waiting
  <2>2. Shortened(tx, tx')
    BY <1>2, <1>8, <2>1, ShortenedWhenDelivered DEF AcceptAndMessage
  <2>3. PICK s \in Users : s = Head(tx.queue).contract /\ s \in Vendors
    BY <2>1, MarketAssumption
  <2>4. QuietMessage(s) /\ bank' = bank
    BY <1>8, <2>3 DEF AcceptAndMessage
  <2>5. /\ TokensTyped(tokens') /\ modules' = modules
        /\ \A id \in DOMAIN tokens : tokens[id].owner # s => id \in DOMAIN tokens' /\ tokens'[id] = tokens[id]
    BY <1>1, <2>4, QuietKeeps
  <2>6. \A id \in DOMAIN tokens : tokens[id].owner \notin Vendors =>
          id \in DOMAIN tokens' /\ tokens'[id] = tokens[id]
    BY <2>3, <2>5
  <2> QED
    BY <2>1, <2>2, <2>4, <2>5, <2>6, NotifyStep
<1>9. CASE Fail
  <2>1. tx # NoTx
    BY <1>9 DEF Fail, Waiting
  <2>2. TokensTyped(tx.undo.tokens) /\ tx.undo.bank \in [Accounts -> Coins]
    BY <1>2, <2>1 DEF TxTyped
  <2>3. tokens' = tx.undo.tokens /\ bank' = tx.undo.bank /\ modules' = modules /\ tx' = NoTx
    BY <1>9 DEF Fail
  <2>4. ListGiven' /\ TokensTyped(tokens') /\ bank' \in [Accounts -> Coins]
    BY <1>1, <2>2, <2>3 DEF ListGiven
  <2> QED
    BY <2>3, <2>4 DEF MarketInv
<1>10. CASE Commit
  BY <1>1, <1>10 DEF Commit, vars, MarketInv, ListGiven
<1> QED
  BY <1>3, <1>4, <1>5, <1>6, <1>7, <1>8, <1>9, <1>10 DEF Deliver

LEMMA MarketStep == MarketInv /\ [MarketNext]_marketVars => MarketInv'
<1> SUFFICES ASSUME MarketInv, [MarketNext]_marketVars
             PROVE  MarketInv'
  OBVIOUS
<1>1. ListGiven /\ TokensTyped(tokens) /\ bank \in [Accounts -> Coins]
  BY DEF MarketInv
<1>2. ASSUME NEW s \in Users, NEW f \in Funds \cup {NoCoins}, NEW r \in Recipients, NEW id \in Ids,
             BeginTransfer(s, f, r, id)
      PROVE  MarketInv'
  <2>1. TransferToken(s, r, id) /\ Begin(s, f, id, <<>>)
    BY <1>2 DEF BeginTransfer, TransferNft
  <2> QED
    BY <2>1, NotifyUnpaid, BeginStep
<1>3. ASSUME NEW s \in Users, NEW f \in Funds \cup {NoCoins}, NEW r \in Recipients, NEW id \in Ids,
             BeginSend(s, f, r, id)
      PROVE  MarketInv'
  <2>1. TransferToken(s, r, id) /\ Begin(s, f, id, <<Receive(r, id)>>)
    BY <1>3 DEF BeginSend, SendNft
  <2> QED
    BY <2>1, NotifyUnpaid, BeginStep
<1>4. ASSUME NEW s \in Users, NEW f \in Funds \cup {NoCoins}, OtherMessage(s, f)
      PROVE  MarketInv'
  <2>1. /\ tx = NoTx /\ tx' = tx /\ QuietMessage(s) /\ Covers(bank[s], f)
        /\ bank' = Transfer(bank, s, Contract, f)
    BY <1>4 DEF OtherMessage
  <2>2. f \in Coins /\ s \in Accounts /\ Contract \in Accounts
    BY MarketAssumption DEF Coins, NoCoins
  <2>3. bank' \in [Accounts -> Coins]
    BY <1>1, <2>1, <2>2, TransferType
  <2>4. TokensTyped(tokens') /\ modules' = modules
    BY <1>1, <2>1, QuietKeeps
  <2>5. ListGiven'
    BY <1>1, <2>4 DEF ListGiven
  <2> QED
    BY <2>1, <2>3, <2>4, <2>5 DEF MarketInv
<1>5. CASE Deliver
  BY <1>5, DeliverStep
<1>6. CASE Elsewhere
  <2>1. tx = NoTx /\ tx' = tx /\ bank' = bank /\ tokens' = tokens /\ modules' = modules
    BY <1>6 DEF Elsewhere, NextBlock, ListTransaction, store
  <2> QED
    BY <1>1, <2>1 DEF MarketInv, ListGiven
<1>7. CASE UNCHANGED marketVars
  BY <1>7 DEF marketVars, vars, MarketInv, ListGiven
<1> QED
  BY <1>2, <1>3, <1>4, <1>5, <1>6, <1>7 DEF MarketNext

\* The invariant holds, whatever the contracts that are called in a transaction do.
THEOREM MarketInvariant == MarketSpec => []MarketInv
BY MarketStarts, MarketStep, PTL DEF MarketSpec

----------------------------------------------------------------------------
\* When nothing waits any more.
LEMMA EvenWhenDone ==
  ASSUME MarketInv, Done, NEW a \in Accounts, NEW d \in Denoms
  PROVE  /\ bank[a][d] + (IF a = tx.sender THEN tx.funds[d] ELSE 0)
              + (IF a = Contract THEN SumOver(Costs(modules, d), tx.sales) ELSE 0)
            = tx.undo.bank[a][d] + (IF a = Contract THEN tx.funds[d] ELSE 0) + SumOver(Dues(modules, a, d), tx.sales)
         /\ tx.sales \in Seq(PaidSale(modules)) /\ bank[a][d] \in Nat /\ tx.undo.bank[a][d] \in Nat /\ tx.funds[d] \in Nat
         /\ SumOver(Dues(modules, a, d), tx.sales) \in Int
<1>0. tx.queue = <<>> /\ ListGiven /\ TxTyped(tx, modules) /\ AllEven(bank, tx, modules)
  BY DEF MarketInv, Done, TxInv
<1>1. /\ tx.sales \in Seq(PaidSale(modules)) /\ bank[a][d] \in Nat /\ tx.undo.bank[a][d] \in Nat
      /\ tx.funds[d] \in Nat
  BY <1>0 DEF TxTyped, MarketInv, Coins
<1>2. \A A : SumOver(Arrivals(A, d), tx.queue) = 0
  BY <1>0, NotifyUnpaid DEF Unpaid
<1>3. PICK due, cost : due = SumOver(Dues(modules, a, d), tx.sales) /\ cost = SumOver(Costs(modules, d), tx.sales)
  OBVIOUS
<1>4. due \in Int /\ cost \in Int
  BY <1>0, <1>3, TxSums
<1>5. PICK b, e, b0, g : /\ b = bank[a][d] /\ e = (IF a = tx.sender THEN tx.funds[d] ELSE 0)
                         /\ b0 = tx.undo.bank[a][d] /\ g = (IF a = Contract THEN tx.funds[d] ELSE 0)
  OBVIOUS
<1>6. b + e + 0 + (IF a = Contract THEN cost - 0 ELSE 0) = b0 + g + due
  <2>1. Even(bank, tx, modules, a, d)
    BY <1>0 DEF AllEven
  <2>2. PICK waits, waitsAll :
          waits = SumOver(Arrivals({a}, d), tx.queue) /\ waitsAll = SumOver(Arrivals(Payees, d), tx.queue)
    OBVIOUS
  <2>3. waits = 0 /\ waitsAll = 0
    BY <1>2, <2>2
  <2>4. b + e + waits + (IF a = Contract THEN cost - waitsAll ELSE 0) = b0 + g + due
    BY <1>3, <1>5, <2>1, <2>2 DEF Even
  <2> QED
    BY <2>3, <2>4
<1>7. b \in Int /\ e \in Int /\ b0 \in Int /\ g \in Int
  BY <1>1, <1>5
<1>8. b + e + (IF a = Contract THEN cost ELSE 0) = b0 + g + due
  <2>1. CASE a = Contract
    <3>1. b + e + 0 + (cost - 0) = b0 + g + due
      BY <1>6, <2>1
    <3>2. b + e + cost = b0 + g + due
      BY <1>4, <1>7, <3>1
    <3> QED
      BY <2>1, <3>2
  <2>2. CASE a # Contract
    <3>1. b + e + 0 + 0 = b0 + g + due
      BY <1>6, <2>2
    <3>2. b + e + 0 = b0 + g + due
      BY <1>4, <1>7, <3>1
    <3> QED
      BY <2>2, <3>2
  <2> QED
    BY <2>1, <2>2
<1> QED
  BY <1>1, <1>3, <1>4, <1>5, <1>8

\* The two properties are what the invariant says of an empty queue.
LEMMA InvSettles == MarketInv => SettledWhenDone
<1> SUFFICES ASSUME MarketInv, Done, NEW a \in Accounts, NEW d \in Denoms
             PROVE  bank[a][d] + (IF a = tx.sender THEN tx.funds[d] ELSE 0)
                      + (IF a = Contract THEN CostOfSales(d) ELSE 0)
                    = tx.undo.bank[a][d] + (IF a = Contract THEN tx.funds[d] ELSE 0) + DueOfSales(a, d)
  BY DEF SettledWhenDone
<1>1. tx.sales \in Seq(PaidSale(modules))
  BY EvenWhenDone
<1>2. CostOfSales(d) = SumOver(Costs(modules, d), tx.sales) /\ DueOfSales(a, d) = SumOver(Dues(modules, a, d), tx.sales)
  BY <1>1, SalesSum DEF CostOfSales, DueOfSales
<1> QED
  BY <1>2, EvenWhenDone

LEMMA InvPays == MarketInv => SoldMeansPaid
<1> SUFFICES ASSUME MarketInv, Done, NEW id \in DOMAIN tx.undo.tokens,
                    tx.undo.tokens[id].agreement # None,
                    tx.undo.tokens[id].owner \notin Vendors \cup {Contract},
                    id \in DOMAIN tokens => tokens[id].owner # tx.undo.tokens[id].owner,
                    NEW d \in Denoms
             PROVE  bank[tx.undo.tokens[id].owner][d]
                      + (IF tx.undo.tokens[id].owner = tx.sender THEN tx.funds[d] ELSE 0)
                    >= tx.undo.bank[tx.undo.tokens[id].owner][d]
                         + SellersPart(modules, tx.undo.tokens[id].agreement.amount, d)
  BY DEF SoldMeansPaid
<1>0. /\ tx.queue = <<>> /\ ListGiven /\ TxTyped(tx, modules) /\ KeptOrSold(tokens, tx) /\ SellersKnown(tx)
  BY DEF MarketInv, Done, TxInv
<1>1. PICK before, a, s : before = tx.undo.tokens[id] /\ a = before.owner /\ s = SaleOf(before)
  OBVIOUS
<1>2. s.seller = a /\ s.price = before.agreement.amount /\ a # Contract
  BY <1>1 DEF SaleOf
<1>3. s \in Range(tx.sales)
  BY <1>0, <1>1 DEF KeptOrSold, StillOffered
<1>4. a \in Accounts
  <2>1. ~Waits(tx.queue, a)
    BY <1>0 DEF Waits, Range
  <2> QED
    BY <1>0, <1>2, <1>3, <2>1 DEF SellersKnown
<1>5. PICK due, part : due = SumOver(Dues(modules, a, d), tx.sales) /\ part = SellersPart(modules, s.price, d)
  OBVIOUS
<1>6. due >= part /\ due \in Int /\ part \in Int
  <2>1. PICK S, w, q : S = PaidSale(modules) /\ w = Dues(modules, a, d) /\ q = tx.sales
    OBVIOUS
  <2>2. q \in Seq(S) /\ w \in [S -> Nat]
    BY <1>0, <2>1, SalesTyped DEF TxTyped
  <2>3. PICK k \in DOMAIN q : q[k] = s
    BY <1>3, <2>1 DEF Range
  <2>4. SumOver(w, q) >= w[q[k]]
    BY <2>2, SumOverMember
  <2>5. s \in PaidSale(modules)
    BY <2>1, <2>2, <2>3
  <2>6. w[s] = Due(a, s.seller, modules, s.price, d)
    BY <2>1, <2>5 DEF Dues
  <2>7. Due(s.seller, s.seller, modules, s.price, d) >= part /\ part \in Int
    <3>1. /\ Due(s.seller, s.seller, modules, s.price, d) >= SellersPart(modules, s.price, d)
          /\ SellersPart(modules, s.price, d) \in Int
          /\ Due(a, s.seller, modules, s.price, d) \in Nat
      BY <1>0, <2>5, SaleSums
    <3> QED
      BY <1>5, <3>1
  <2>8. w[s] \in Nat
    BY <2>1, <2>2, <2>5
  <2>9. due \in Int
    BY <1>4, <1>5, EvenWhenDone
  <2> QED
    BY <1>2, <1>5, <2>1, <2>3, <2>4, <2>6, <2>7, <2>8, <2>9
<1>7. PICK b, b0, f : b = bank[a][d] /\ b0 = tx.undo.bank[a][d] /\ f = tx.funds[d]
  OBVIOUS
<1>8. b \in Nat /\ b0 \in Nat /\ f \in Nat
  BY <1>4, <1>7, EvenWhenDone
<1>9. PICK e : e = (IF a = tx.sender THEN f ELSE 0)
  OBVIOUS
<1>10. b + e + 0 = b0 + 0 + due
  BY <1>2, <1>4, <1>5, <1>7, <1>9, EvenWhenDone
<1>11. b + e >= b0 + part
  BY <1>6, <1>8, <1>9, <1>10
<1> QED
  BY <1>1, <1>2, <1>5, <1>7, <1>9, <1>11

\* In every market, when the last message of a transaction has been delivered, each
\* balance has changed by exactly what the transaction's sales come to, and its funds:
\* the messages of every response pay what is due, and the chain delivers them all.
THEOREM SalesSettle == MarketSpec => []SettledWhenDone
BY InvSettles, MarketInvariant, PTL

\* In every market, an owner whose offered token is gone when the transaction is done has
\* been paid for it: the token left in a transfer that pays its owner before anything
\* else, and an owner whom the bank cannot pay makes the whole transaction fail.
THEOREM SellersArePaid == MarketSpec => []SoldMeansPaid
BY InvPays, MarketInvariant, PTL

----------------------------------------------------------------------------
\* What is stored when a transaction begins, and comes back when it fails.
ReceiptsTyped(rs) == DOMAIN rs \subseteq Nat \ {0} /\ \A id \in DOMAIN rs : rs[id] \in Agreement

UndoInv(u) ==
  /\ DOMAIN u.tokens \subseteq Ids /\ TokensTyped(u.tokens)
  /\ u.numTokens \in Nat /\ u.numTokens = Cardinality(DOMAIN u.tokens)
  /\ \A id \in DOMAIN u.tokens : \A a, b \in u.tokens[id].approvals : a.spender = b.spender => a = b
  /\ DOMAIN u.operators \subseteq Users \X Users
  /\ \A p \in DOMAIN u.operators : u.operators[p] \in Expiries \cup {NeverExpires}
  /\ u.contractOwner \in Users
  /\ ReceiptsTyped(u.receipts)

StoredInv ==
  /\ IInv /\ RC!TypeOK
  /\ tx # NoTx => UndoInv(tx.undo) /\ tx.calls \in 0..MaxCalls

LEMMA StoredFirst == MarketInit => StoredInv
<1> SUFFICES ASSUME MarketInit
             PROVE  StoredInv
  OBVIOUS
<1>1. IInv
  BY InitInv DEF MarketInit
<1>2. RC!TypeOK
  BY DEF MarketInit, Init, EmptyMap, RC!TypeOK
<1> QED
  BY <1>1, <1>2 DEF StoredInv, MarketInit

\* A transaction that has not failed consists of steps of the token contract.
LEMMA TokenSteps ==
  ASSUME [MarketNext]_marketVars, ~Fail
  PROVE  [Next]_vars
<1>1. ASSUME NEW s \in Users, NEW r \in Recipients, NEW id \in Ids, TransferNft(s, r, id) \/ SendNft(s, r, id)
      PROVE  Next
  BY <1>1 DEF TransferMessage, TokenMessage, Next
<1>2. ASSUME NEW s \in Users, QuietMessage(s)
      PROVE  Next
  BY <1>2 DEF QuietMessage, TokenMessage, Next
<1>3. ASSUME NEW s \in Users, NEW f \in Funds \cup {NoCoins}, NEW r \in Recipients, NEW id \in Ids,
             BeginTransfer(s, f, r, id) \/ BeginSend(s, f, r, id)
      PROVE  Next
  BY <1>1, <1>3 DEF BeginTransfer, BeginSend
<1>4. ASSUME NEW s \in Users, NEW f \in Funds \cup {NoCoins}, OtherMessage(s, f)
      PROVE  Next
  BY <1>2, <1>4 DEF OtherMessage
<1>5. ASSUME MayMessage
      PROVE  Head(tx.queue).contract \in Users
  BY <1>5, MarketAssumption DEF MayMessage, Called
<1>6. ASSUME NEW r \in Recipients, NEW id \in Ids, AcceptAndTransfer(r, id) \/ AcceptAndSend(r, id)
      PROVE  Next
  BY <1>1, <1>5, <1>6 DEF AcceptAndTransfer, AcceptAndSend
<1>7. CASE AcceptAndMessage
  BY <1>2, <1>5, <1>7 DEF AcceptAndMessage
<1>8. CASE DeliverPayment \/ DeliverReceipt \/ Accept \/ Commit
  BY <1>8 DEF DeliverPayment, DeliverReceipt, Accept, Commit
<1>9. CASE Elsewhere
  BY <1>9 DEF Elsewhere, Next
<1>10. CASE UNCHANGED marketVars
  BY <1>10 DEF marketVars
<1> QED
  BY <1>3, <1>4, <1>6, <1>7, <1>8, <1>9, <1>10 DEF MarketNext, Deliver

\* What a step does to the receipts, and to the way back.
LEMMA ReceiptSteps ==
  ASSUME MarketInv, RC!TypeOK, [MarketNext]_marketVars, ~Fail
  PROVE  RC!TypeOK'
<1>1. CASE UNCHANGED receiptVars
  BY <1>1 DEF receiptVars, RC!TypeOK
<1>2. CASE DeliverReceipt
  <2>1. tx # NoTx /\ tx.queue # <<>> /\ Head(tx.queue).kind = "store"
    BY <1>2 DEF DeliverReceipt, Waiting
  <2>2. Head(tx.queue) \in Message
    BY <2>1, FirstDelivered DEF MarketInv, TxInv
  <2>3. PICK e : e = Head(tx.queue).event /\ e \in Agreement
    BY <2>1, <2>2 DEF Message
  <2>4. receipts' = RC!Save(receipts, numReceipts + 1, e) /\ UNCHANGED <<numReceipts, receiptConfig, receiptOwner>>
    BY <1>2, <2>3 DEF DeliverReceipt, RC!StoreReceipt, RC!NextReceiptId
  <2> QED
    BY <2>3, <2>4 DEF RC!Save, RC!TypeOK, AgreedTransferEvents
<1> QED
  BY <1>1, <1>2 DEF MarketNext, Deliver, BeginTransfer, BeginSend, Begin, OtherMessage, DeliverPayment, Accept,
     AcceptAndTransfer, AcceptAndSend, SellOn, AcceptAndMessage, Commit, Elsewhere, marketVars

LEMMA UndoSteps ==
  ASSUME MarketInv, StoredInv, [MarketNext]_marketVars, tx' # NoTx
  PROVE  UndoInv(tx'.undo) /\ tx'.calls \in 0..MaxCalls
<1>1. ASSUME NEW s \in Users, NEW f \in Funds \cup {NoCoins}, NEW r \in Recipients, NEW id \in Ids,
             BeginTransfer(s, f, r, id) \/ BeginSend(s, f, r, id)
      PROVE  UndoInv(tx'.undo) /\ tx'.calls \in 0..MaxCalls
  <2>1. tx'.undo = Now /\ tx'.calls = 0
    BY <1>1 DEF BeginTransfer, BeginSend, Begin
  <2>2. PICK u : u = Now
    OBVIOUS
  <2>3. /\ u.tokens = tokens /\ u.operators = operators /\ u.numTokens = numTokens
        /\ u.contractOwner = contractOwner /\ u.receipts = receipts
    BY <2>2 DEF Now
  <2>4. UndoInv(u)
    BY <2>3, Typed
       DEF StoredInv, IInv, TypeOK, NumTokensExact, OneApprovalPerSpender, RC!TypeOK, AgreedTransferEvents,
           ReceiptsTyped, UndoInv
  <2> QED
    BY <2>1, <2>2, <2>4, MarketAssumption
<1>2. ASSUME tx # NoTx, [MarketNext]_marketVars
      PROVE  tx'.undo = tx.undo /\ tx'.calls \in 0..MaxCalls
  <2>1. TxTyped(tx, modules) /\ tx.calls \in 0..MaxCalls
    BY <1>2 DEF MarketInv, TxInv, StoredInv
  <2>2. CASE \E r \in Recipients, id \in Ids : AcceptAndTransfer(r, id) \/ AcceptAndSend(r, id)
    <3>1. PICK q, ss : tx' = [tx EXCEPT !.queue = q, !.sales = ss, !.calls = tx.calls + 1]
      BY <2>2 DEF AcceptAndTransfer, AcceptAndSend, SellOn
    <3>2. tx.calls < MaxCalls
      BY <2>2 DEF AcceptAndTransfer, AcceptAndSend, MayMessage
    <3> QED
      BY <2>1, <3>1, <3>2, MarketAssumption DEF TxTyped
  <2>3. CASE AcceptAndMessage
    BY <2>1, <2>3, MarketAssumption DEF AcceptAndMessage, MayMessage, TxTyped
  <2>4. CASE DeliverPayment \/ DeliverReceipt \/ Accept
    BY <2>1, <2>4 DEF DeliverPayment, DeliverReceipt, Accept, Delivered, TxTyped
  <2>5. CASE UNCHANGED marketVars
    BY <2>1, <2>5 DEF marketVars
  <2> QED
    BY <1>2, <2>2, <2>3, <2>4, <2>5
       DEF MarketNext, Deliver, BeginTransfer, BeginSend, Begin, OtherMessage, Fail, Commit, Elsewhere
<1>3. CASE tx = NoTx
  BY <1>1, <1>3 DEF MarketNext, Deliver, OtherMessage, DeliverPayment, DeliverReceipt, Accept, AcceptAndTransfer,
     AcceptAndSend, AcceptAndMessage, MayMessage, Called, Waiting, Fail, Commit, Elsewhere, marketVars
<1>4. CASE tx # NoTx
  BY <1>2, <1>4 DEF StoredInv
<1> QED
  BY <1>3, <1>4

LEMMA StoredStep == MarketInv /\ StoredInv /\ [MarketNext]_marketVars => StoredInv'
<1> SUFFICES ASSUME MarketInv, StoredInv, [MarketNext]_marketVars
             PROVE  StoredInv'
  OBVIOUS
<1>1. CASE ~Fail
  <2>1. IInv'
    BY <1>1, TokenSteps, StepInv DEF StoredInv
  <2>2. RC!TypeOK'
    BY <1>1, ReceiptSteps DEF StoredInv
  <2> QED
    BY <2>1, <2>2, UndoSteps DEF StoredInv
<1>2. CASE Fail
  <2>1. tx # NoTx /\ tx' = NoTx
    BY <1>2 DEF Fail, Waiting
  <2>2. PICK u : u = tx.undo
    OBVIOUS
  <2>3. UndoInv(u)
    BY <2>1, <2>2 DEF StoredInv
  <2>4. /\ tokens' = u.tokens /\ operators' = u.operators /\ numTokens' = u.numTokens
        /\ contractOwner' = u.contractOwner /\ receipts' = u.receipts
        /\ UNCHANGED <<lists, height, numReceipts, receiptConfig, receiptOwner>>
    BY <1>2, <2>2 DEF Fail
  <2>5. NumTokensExact' /\ OneApprovalPerSpender'
    BY <2>3, <2>4 DEF UndoInv, NumTokensExact, OneApprovalPerSpender
  <2>6. TypeOK'
    BY <2>3, <2>4 DEF UndoInv, TokensTyped, TypeOK, StoredInv, IInv, AddressListType
  <2>7. RC!TypeOK'
    BY <2>3, <2>4 DEF UndoInv, ReceiptsTyped, StoredInv, RC!TypeOK, AgreedTransferEvents
  <2> QED
    BY <2>1, <2>5, <2>6, <2>7 DEF StoredInv, IInv
<1> QED
  BY <1>1, <1>2

LEMMA StoredHolds == MarketSpec => [](MarketInv /\ StoredInv)
BY MarketStarts, MarketStep, StoredFirst, StoredStep, PTL DEF MarketSpec

\* In every market, no balance is overdrawn and what the contracts store keeps its type,
\* also when a transaction fails and what it has stored is undone.
THEOREM MarketTypeCorrect == MarketSpec => []MarketTypeOK
<1>1. MarketInv /\ StoredInv => MarketTypeOK
  BY DEF MarketInv, StoredInv, IInv, TxInv, TxTyped, MarketTypeOK
<1> QED
  BY <1>1, StoredHolds, PTL

\* The tokens are counted, and the spenders of a token have an approval each, also when
\* called contracts mint, burn and approve within a transaction that is then undone.
THEOREM MarketCountsExactly == MarketSpec => [](NumTokensExact /\ OneApprovalPerSpender)
<1>1. MarketInv /\ StoredInv => NumTokensExact /\ OneApprovalPerSpender
  BY DEF StoredInv, IInv
<1> QED
  BY <1>1, StoredHolds, PTL
==============================================================================
