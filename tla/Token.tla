-------------------------------- MODULE Token --------------------------------
(***************************************************************************)
(* The token contract (contracts/andromeda_token): a CW721 contract with   *)
(* transfer agreements, archiving and modules.  One action per message; a  *)
(* handler that fails is not a step.  The messages that a handler's        *)
(* response sends to the bank and to other contracts are not carried out   *)
(* here but in the module Market, which composes this one with them.       *)
(***************************************************************************)
EXTENDS Modules, FiniteSets

CONSTANTS Ids,            \* token ids
          Recipients,     \* the strings a token may be transferred to
          Prices,         \* the coins of agreements
          Listings,       \* the coins of listings
          Expiries,       \* expirations of approvals: heights, or NeverExpires
          NeverExpires,
          AnyPurchaser,   \* the purchaser "*"
          None,           \* no agreement, no listing
          ModuleLists,    \* the module lists an instantiation may come with
          DEFAULT_LIMIT,  \* the size of a page of operators, if no limit is asked for,
          MAX_LIMIT,      \* and the largest there is
          MaxHeight       \* bound: the last block of a behaviour

VARIABLES tokens,         \* TOKENS: id -> token
          operators,      \* OPERATOR: <<owner, operator>> -> expiration
          numTokens,      \* NUM_TOKENS
          modules,        \* MODULES
          minter,         \* the minter of CONFIG
          contractOwner,  \* CONTRACT_OWNER
          height          \* height of the current block

\* What the contract stores and its messages change.
store == <<tokens, operators, numTokens, contractOwner>>
vars == <<tokens, operators, numTokens, modules, minter, contractOwner, lists, height>>

ASSUME TokenAssumption ==
  /\ Users \subseteq Recipients
  /\ MaxHeight \in Nat
  /\ Expiries \subseteq Nat \cup {NeverExpires}
  /\ NeverExpires \notin Nat
  /\ None \notin Ids \cup Users \cup Nat
  /\ DEFAULT_LIMIT \in Nat \ {0} /\ MAX_LIMIT \in Nat \ {0}
  /\ IsFiniteSet(Ids) /\ IsFiniteSet(Users)
  /\ \A ms \in ModuleLists : ListModuleOf(ms) \in AddressListModules \cup {NoList}

Approval == [spender : Users, expires : Expiries \cup {NeverExpires}]
Agreement == [purchaser : Users \cup {AnyPurchaser}, amount : Prices]

TokenRecord ==
  [owner : Recipients, publisher : Users, approvals : SUBSET Approval,
   agreement : Agreement \cup {None}, archived : BOOLEAN, pricing : Listings \cup {None}]

TypeOK ==
  /\ DOMAIN tokens \subseteq Ids /\ \A id \in DOMAIN tokens : tokens[id] \in TokenRecord
  /\ DOMAIN operators \subseteq Users \X Users
  /\ \A p \in DOMAIN operators : operators[p] \in Expiries \cup {NeverExpires}
  /\ numTokens \in Nat
  /\ contractOwner \in Users
  /\ height \in Nat
  /\ AddressListType

----------------------------------------------------------------------------
\* Expiration::is_expired
IsExpired(e) == e # NeverExpires /\ height >= e

HasApproval(token, addr) ==
  \E a \in token.approvals : a.spender = addr /\ ~IsExpired(a.expires)

IsOperator(owner, addr) ==
  <<owner, addr>> \in DOMAIN operators /\ ~IsExpired(operators[<<owner, addr>>])

HasAgreement(token, addr) ==
  token.agreement # None /\ token.agreement.purchaser \in {AnyPurchaser, addr}

HasTransferRights(token, addr) ==
  \/ token.owner = addr
  \/ HasApproval(token, addr)
  \/ IsOperator(token.owner, addr)
  \/ HasAgreement(token, addr)

\* The payments of a transfer: those of the agreement if the token has one,
\* whoever makes the transfer.
PaymentsOf(token) ==
  AgreedPayments(modules, token.owner, token.agreement.amount)

\* Mutant of OwnsLive: an archived token may be changed.
Owns(sender, id) == id \in DOMAIN tokens /\ tokens[id].owner = sender

\* load_token, and the two requirements most handlers begin with.
OwnsLive(sender, id) ==
  /\ id \in DOMAIN tokens
  /\ tokens[id].owner = sender
  /\ ~tokens[id].archived

\* Mutant of FilterApproval: nothing is filtered.
KeepApprovals(token, spender) == token.approvals

\* Mutant of FilterApproval: the approvals of the others go as well.
DropApprovals(token, spender) == {}

\* Token::filter_approval
FilterApproval(token, spender) == {a \in token.approvals : a.spender # spender}

----------------------------------------------------------------------------
\* execute_mint: anyone the modules allow; the owner named in the message is ignored.
Mint(sender, id, pricing) ==
  /\ ModulesAllow(modules, sender)
  /\ id \notin DOMAIN tokens
  /\ tokens' = Save(tokens, id,
       [owner |-> sender, publisher |-> sender, approvals |-> {}, agreement |-> None,
        archived |-> FALSE, pricing |-> pricing])
  /\ numTokens' = numTokens + 1
  /\ UNCHANGED <<operators, contractOwner, modules, minter, lists, height>>

\* Mutant of TransferToken: recipient and token id are swapped when the token is saved.
TransferToId(sender, recipient, id) ==
  /\ id \in DOMAIN tokens
  /\ HasTransferRights(tokens[id], sender)
  /\ ~tokens[id].archived
  /\ tokens' = [tokens EXCEPT ![id].owner = id, ![id].approvals = {}]
  /\ UNCHANGED <<operators, numTokens, contractOwner, modules, minter, lists, height>>

\* Mutant of TransferToken: the approvals stay.
TransferWithApprovals(sender, recipient, id) ==
  /\ id \in DOMAIN tokens
  /\ HasTransferRights(tokens[id], sender)
  /\ ~tokens[id].archived
  /\ tokens' = [tokens EXCEPT ![id].owner = recipient]
  /\ UNCHANGED <<operators, numTokens, contractOwner, modules, minter, lists, height>>

\* Mutant of TransferToken: an archived token may be transferred.
TransferArchived(sender, recipient, id) ==
  /\ id \in DOMAIN tokens
  /\ HasTransferRights(tokens[id], sender)
  /\ tokens' = [tokens EXCEPT ![id].owner = recipient, ![id].approvals = {}]
  /\ UNCHANGED <<operators, numTokens, contractOwner, modules, minter, lists, height>>

\* transfer_nft
TransferToken(sender, recipient, id) ==
  /\ id \in DOMAIN tokens
  /\ HasTransferRights(tokens[id], sender)
  /\ ~tokens[id].archived
  /\ tokens[id].agreement # None => PaymentsOf(tokens[id]) # Refused
  /\ tokens' = [tokens EXCEPT ![id].owner = recipient, ![id].approvals = {}]
  /\ UNCHANGED <<operators, numTokens, contractOwner, modules, minter, lists, height>>

\* execute_transfer
TransferNft(sender, recipient, id) ==
  ModulesAllow(modules, sender) /\ TransferToken(sender, recipient, id)

\* execute_send_nft: as a transfer, and the recipient contract is told.
SendNft(sender, contract, id) ==
  ModulesAllow(modules, sender) /\ TransferToken(sender, contract, id)

\* execute_approve and add_approval
Approve(sender, spender, id, expires) ==
  /\ ModulesAllow(modules, sender)
  /\ OwnsLive(sender, id)
  /\ tokens' = [tokens EXCEPT ![id].approvals =
       FilterApproval(tokens[id], spender) \cup {[spender |-> spender, expires |-> expires]}]
  /\ UNCHANGED <<operators, numTokens, contractOwner, modules, minter, lists, height>>

\* execute_revoke and remove_approval
Revoke(sender, spender, id) ==
  /\ ModulesAllow(modules, sender)
  /\ OwnsLive(sender, id)
  /\ tokens' = [tokens EXCEPT ![id].approvals = FilterApproval(tokens[id], spender)]
  /\ UNCHANGED <<operators, numTokens, contractOwner, modules, minter, lists, height>>

ApproveAll(sender, operator, expires) ==
  /\ ModulesAllow(modules, sender)
  /\ operators' = Save(operators, <<sender, operator>>, expires)
  /\ UNCHANGED <<tokens, numTokens, contractOwner, modules, minter, lists, height>>

RevokeAll(sender, operator) ==
  /\ ModulesAllow(modules, sender)
  /\ operators' = Delete(operators, <<sender, operator>>)
  /\ UNCHANGED <<tokens, numTokens, contractOwner, modules, minter, lists, height>>

\* execute_transfer_agreement: an agreement replaces the one before; there is
\* no message that takes one back, and a transfer leaves it in place.
TransferAgreement(sender, id, purchaser, amount) ==
  /\ ModulesAllow(modules, sender)
  /\ OwnsLive(sender, id)
  /\ tokens' = [tokens EXCEPT ![id].agreement = [purchaser |-> purchaser, amount |-> amount]]
  /\ UNCHANGED <<operators, numTokens, contractOwner, modules, minter, lists, height>>

\* Mutant of Burn: the tokens are not counted down.
BurnUncounted(sender, id) ==
  /\ ModulesAllow(modules, sender)
  /\ OwnsLive(sender, id)
  /\ tokens' = Delete(tokens, id)
  /\ UNCHANGED <<operators, numTokens, contractOwner, modules, minter, lists, height>>

\* Mutant of Burn: a burn passes by the hook of the modules.
BurnUngated(sender, id) ==
  /\ OwnsLive(sender, id)
  /\ numTokens > 0
  /\ tokens' = Delete(tokens, id)
  /\ numTokens' = numTokens - 1
  /\ UNCHANGED <<operators, contractOwner, modules, minter, lists, height>>

\* execute_burn: the count must not go below 0.
Burn(sender, id) ==
  /\ ModulesAllow(modules, sender)
  /\ OwnsLive(sender, id)
  /\ numTokens > 0
  /\ tokens' = Delete(tokens, id)
  /\ numTokens' = numTokens - 1
  /\ UNCHANGED <<operators, contractOwner, modules, minter, lists, height>>

Archive(sender, id) ==
  /\ ModulesAllow(modules, sender)
  /\ OwnsLive(sender, id)
  /\ tokens' = [tokens EXCEPT ![id].archived = TRUE]
  /\ UNCHANGED <<operators, numTokens, contractOwner, modules, minter, lists, height>>

UpdatePricing(sender, id, pricing) ==
  /\ ModulesAllow(modules, sender)
  /\ OwnsLive(sender, id)
  /\ tokens' = [tokens EXCEPT ![id].pricing = pricing]
  /\ UNCHANGED <<operators, numTokens, contractOwner, modules, minter, lists, height>>

\* execute_update_owner
UpdateOwner(sender, new) ==
  /\ ModulesAllow(modules, sender)
  /\ sender = contractOwner
  /\ contractOwner' = new
  /\ UNCHANGED <<tokens, operators, numTokens, modules, minter, lists, height>>

NextBlock ==
  /\ height < MaxHeight
  /\ height' = height + 1
  /\ UNCHANGED <<store, modules, minter, lists>>

\* A transaction on one of the address list contracts.
ListTransaction == ListNext /\ UNCHANGED <<store, modules, minter, height>>

----------------------------------------------------------------------------
\* The operators listed are those still valid, unless expired ones are asked for.
Listed(owner, includeExpired, a) ==
  <<owner, a>> \in DOMAIN operators /\ (includeExpired \/ ~IsExpired(operators[<<owner, a>>]))

\* Addresses are read in the order of their bytes: "place" is where each has its place
\* in it.  Reading begins after the address "start", or at the first one.
ReadAfter(place, start, a) == start = None \/ place[a] > place[start]

PageLimit(limit) ==
  LET asked == IF limit = None THEN DEFAULT_LIMIT ELSE limit
  IN  IF asked <= MAX_LIMIT THEN asked ELSE MAX_LIMIT

FirstOf(found, limit, place) == {a \in found : Cardinality({b \in found : place[b] < place[a]}) < limit}

\* Mutant of AllApprovals: the page is taken first and filtered afterwards.
AllApprovalsTakenFirst(owner, includeExpired, start, limit, place) ==
  {a \in FirstOf({a \in Users : Listed(owner, TRUE, a) /\ ReadAfter(place, start, a)}, PageLimit(limit), place) :
     Listed(owner, includeExpired, a)}

\* query_all_approvals: the operators of a page.
AllApprovals(owner, includeExpired, start, limit, place) ==
  FirstOf({a \in Users : Listed(owner, includeExpired, a) /\ ReadAfter(place, start, a)}, PageLimit(limit), place)

----------------------------------------------------------------------------
\* instantiate: CONTRACT_OWNER and the minter of CONFIG are the message's minter;
\* an address list given by code id is instantiated, empty; one given by address
\* need not exist.
Init ==
  /\ tokens = EmptyMap
  /\ operators = EmptyMap
  /\ numTokens = 0
  /\ modules \in {ms \in ModuleLists : ValidModules(ms)}
  /\ minter \in Users
  /\ contractOwner = minter
  /\ height = 0
  /\ \/ lists = EmptyMap
     \/ /\ ListModuleOf(modules) # NoList
        /\ \E mods \in ModeratorSets :
             lists = Save(EmptyMap, ListModuleOf(modules).contract,
                          [owner |-> Contract, moderators |-> mods, included |-> {}])

\* The messages that "s" sends about token "id".
TransferMessage(s, id) == \E r \in Recipients : TransferNft(s, r, id) \/ SendNft(s, r, id)

ApprovalMessage(s, id) ==
  \E a \in Users : Revoke(s, a, id) \/ \E e \in Expiries : Approve(s, a, id, e)

EditMessage(s, id) ==
  \/ \E p \in Listings \cup {None} : Mint(s, id, p) \/ UpdatePricing(s, id, p)
  \/ \E a \in Users \cup {AnyPurchaser}, p \in Prices : TransferAgreement(s, id, a, p)
  \/ Archive(s, id)

TokenMessage(s, id) ==
  TransferMessage(s, id) \/ ApprovalMessage(s, id) \/ EditMessage(s, id) \/ Burn(s, id)

\* A message that "s" sends about another address.
AccountMessage(s, a) ==
  \/ \E e \in Expiries : ApproveAll(s, a, e)
  \/ RevokeAll(s, a)
  \/ UpdateOwner(s, a)

Next ==
  \/ \E s \in Users : (\E id \in Ids : TokenMessage(s, id)) \/ (\E a \in Users : AccountMessage(s, a))
  \/ NextBlock
  \/ ListTransaction

Spec == Init /\ [][Next]_vars

----------------------------------------------------------------------------
\* The count that NumTokens reports is the number of tokens there are, through
\* every order of mints and burns (increment_num_tokens, decrement_num_tokens);
\* so the error of decrement_num_tokens at 0 is never met.
NumTokensExact == numTokens = Cardinality(DOMAIN tokens)

\* A token has at most one approval per spender, so revoking a spender leaves it
\* none (add_approval filters before it pushes, remove_approval filters).
OneApprovalPerSpender ==
  \A id \in DOMAIN tokens : \A a, b \in tokens[id].approvals : a.spender = b.spender => a = b

\* An archived token is kept as it is for ever: no sequence of messages, of the
\* owner, an approved address, an operator or a purchaser, changes any part of it
\* or removes it (documented at ExecuteMsg::Archive: immutable but readable).
ArchivedForGood ==
  [][\A id \in DOMAIN tokens : tokens[id].archived =>
       id \in DOMAIN tokens' /\ tokens'[id] = tokens[id]]_vars

R == INSTANCE Registry WITH
  ownerOf <- [id \in DOMAIN tokens |-> tokens[id].owner],
  frozen <- {id \in DOMAIN tokens : tokens[id].archived},
  TokenIds <- Ids, Owners <- Recipients

\* The token contract implements the registry: one owner per token, who keeps it
\* for ever once it is archived (every handler that changes a token first loads it
\* and requires that it is not archived; only Mint makes one, under a free id).
ImplementsRegistry == R!Spec

\* The token of an owner whom the address list refuses cannot be burned, archived,
\* priced, offered or approved by anyone; all that can happen to it is that
\* somebody with a standing right takes it, terms and all.
RefusedOwnerMayOnlyLose ==
  [][\A id \in DOMAIN tokens : ~ModulesAllow(modules, tokens[id].owner) =>
       /\ id \in DOMAIN tokens'
       /\ \/ tokens'[id] = tokens[id]
          \/ tokens'[id] = [tokens[id] EXCEPT !.owner = tokens'[id].owner, !.approvals = {}]]_vars

\* Whoever reads the operators of an owner page by page, asking each time for those
\* after the last one read, has them all when a page comes that is not full: expired
\* operators take no place of valid ones, and those a full page leaves out come later.
\* A page that is full may be smaller than the limit asked for.
PagesMissNoOperator ==
  \A owner \in Users, start \in Users \cup {None}, limit \in 1..(Cardinality(Users) + 1) \cup {None},
     place \in Injection(Users, 1..Cardinality(Users)) :
    LET page == AllApprovals(owner, FALSE, start, limit, place)
    IN  /\ Cardinality(page) <= PageLimit(limit)
        /\ \A a \in page : IsOperator(owner, a)
        /\ \A a \in Users \ page :
             IsOperator(owner, a) /\ ReadAfter(place, start, a) =>
               Cardinality(page) = PageLimit(limit) /\ \A b \in page : place[b] < place[a]
==============================================================================
