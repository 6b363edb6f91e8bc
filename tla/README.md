# Andromeda core contracts in TLA+

This directory holds TLA+ specifications of the CosmWasm contracts in this
repository, the TLC configurations that check them on small instances, and
proofs of their safety properties for every instance, checked by TLAPS.

Run from this directory: `tlc -config MCTimelock.cfg MCTimelock` (any pair named
under "Runs"), `tlapm TimelockProofs.tla` (any `*Proofs` module).

## The system

Seven parts run on a chain that executes one transaction at a time. A
transaction moves the attached funds to the contract, runs a handler, and then
carries out the messages of the response (payments, calls, instantiations with
replies). If anything fails, everything is undone.

| Part | State it keeps | Operations | What is hard about it | What makes it correct |
| --- | --- | --- | --- | --- |
| Token contract (`contracts/andromeda_token`, `token.rs`) | tokens, operators, the count, modules, owner | mint, transfer, send, approve, revoke, approve/revoke all, agreement, burn, archive, price, update owner | rights that come from four sources and end at different times; archiving must bind every handler; payments follow the state change | one owner per token; only whoever holds a right moves it; archived for good; exact count; sellers are paid |
| Modules (`modules/`) | the definitions | validation; hooks on instantiate, on every message, on agreed transfers | order of fees, rounding, panics in a sale, lists that do not exist | payments come to what is due; refused exactly when unpayable |
| Address list (`contracts/andromeda_addresslist`, `modules/address_list.rs`) | moderators and addresses | add, remove, update owner; asked before every message | it gates the owner too, also the message that would replace it | whom it refuses can do nothing |
| Receipt contract (`contracts/andromeda_receipt`) | receipts, their number | store, edit, update owner | numbering | every receipt kept, none forged |
| Timelock (`contracts/andromeda_timelock`) | an escrow per depositor | hold, release, update owner, update list | one balance for all depositors; expirations by time and height; the list may refuse a depositor later | escrows are binding and covered; depositors are paid |
| Splitter (`contracts/andromeda_splitter`) | recipients, lock, list | send, update recipients, lock, list, owner | rounding, underflow, one of several payments failing, the lock | passes on all or nothing, loses nothing |
| Factory (`contracts/andromeda_factory`) | symbol to address, code ids | create (with a reply), update address, update code ids, update owner | check before a nest of instantiations and replies, store after it; failures at any depth; wrong code ids; entries that anyone may have made worthless | a creation is atomic; symbols are not taken over; entries name tokens; modules have contracts of their own |

Interactions: every gated contract queries an address list contract; the token contract
sends payments to the bank, `StoreReceipt` to the receipt contract and `ReceiveNft` to
receiving contracts, which may call back; the factory instantiates token contracts,
which instantiate the contracts of their modules, and asks registered contracts for
their owner and symbol. The bank, `cw_storage_plus`, `Expiration` and the chain's
delivery of messages are external and are modelled from how the contracts use them.

## Modules

| Module | Models |
| --- | --- |
| `Storage` | the key/value maps (external) |
| `Bank` | balances and transfers (external) |
| `AddressList` | the list contracts that are deployed, and the module that consults one |
| `Timelock` | the timelock; `Vault` is what it promises about coins |
| `Splitter` | the splitter; the payments of a `Send` one by one |
| `Fees` | `calculate_fee`, `deduct_payment`, taxes, royalties, the payments of a sale |
| `Settlement` | what a sale owes to whom, without lists, order or deductions: the reference for `Fees` and `Market` |
| `Sale` | one agreed transfer under any list of fee modules, at one price after another |
| `Modules` | the module definitions and their validation and hooks |
| `Token` | the token contract, and its query for operators page by page; `Registry` is what it promises about ownership |
| `TokenHistory` | `Token` with a history of the rights that owners granted and took back |
| `Receipt` | the receipt contract |
| `Market` | `Token`, `Bank` and `Receipt` composed: a transfer delivered message by message, with called contracts that send messages of their own |
| `Factory` | the factory and what others can find out about the contracts it knows; a creation is one step |
| `Creation` | the factory with the contracts it has made, and those that these have made: a creation message by message and reply by reply; it implements `Factory` |
| `MC*` | instances, and the properties of single runs |
| `*Proofs` | theorems |

State variables are the storage items of the contracts: `tokens` is `TOKENS`,
`held` is `HELD_FUNDS`, `recipients`, `locked` and `addressList` of `Splitter`
are the fields of `SPLITTER`, `addresses` is `SYM_ADDRESS`, and so on; each
declaration names its item. There is one action per message, named after its
handler (`execute_hold_funds` is `HoldFunds`). Its guard is all the checks on
the path that succeeds, `execute`'s hook included (`Execute`, `ModulesAllow`). A
handler that fails changes nothing and is not a step. In `Market`, where a
failure comes after state has changed, it is the step `Fail`, which restores
the state from the beginning of the transaction. So it is in `Splitter`, where `tx`
is the `Send` being carried out: the handler puts the list of its `SubMsg`s there
(`Messages`), `DeliverPayment` makes the next payment, `Fail` ends the transaction
when that payment cannot be made, `Commit` when there are no more. The conditions for
a payment are the bank's (`Sendable`): an address that exists, coins that are there, and
perhaps no coin of amount 0. In `Creation` a failure travels up
the contracts that wait for replies (`InstantiateFails`, `FactoryReplyFails`,
`Abort`): each gets the error for a reply and returns it, and the chain undoes what
it has done; `reply` of both contracts begins like that.

Text (names, descriptions, metadata, event attributes) is left out; a string
that is checked for being an address, or for being a contract, is a model value
inside or outside the set of accounts or contracts.

### Assumptions

- A new contract's address has not been in use (the chain chooses it).
- In `Token`, `Timelock` and `Splitter` an address list given by address may not
  exist when the contract is instantiated: nothing in the code checks it.
- In `Market` the sender who instantiated the token contract is the minter of
  the message; the receipt contract has the token contract or that minter as
  its owner, so both that `StoreReceipt` succeeds and that it fails is covered.
- In `Creation` a code id is any of the three kinds of contract of this repository,
  as the constant `KindOf` says; the configuration may name the wrong one. A contract
  parses a message that has all the fields it needs, which is what serde does
  (`Parses`). A reply brings the address of the contract just instantiated; that
  `response.rs` finds it in the bytes of the reply is assumed.
- A user who instantiates a contract directly (`DeployElsewhere`) gives it no modules.
- Whether the bank refuses payments of 0 coins depends on the chain's version:
  `ZeroCoinsRefused` is a parameter, true in `MCSplitter` and `MCMarket`, where it
  makes payments fail. The theorems about the splitter hold for both.
- In `Splitter` no message comes between the payments of a `Send`: the recipients are
  addresses, and a `BankMsg::Send` runs no code of theirs.

## Runs

"States" are distinct states; every passing run is exhaustive.

| Configuration (module) | Shows | States |
| --- | --- | --- |
| `MCTimelock` | types; `Solvent`: the balance covers all escrows; `EscrowBinding`; `KeepsBoxesApart`: the timelock implements `Vault`; `RefusedMayDoNothing`; under fairness `EscrowsArePaid` | 105 000 |
| `MCSplitter` | types with a valid recipient list; `SharesNeverExceedFunds`; `Conduit`: a `Send` that is through was the same as the sender paying everybody directly, and one that is not had a recipient who could not be paid and changed nothing; `RefusedOwnerIsPowerless` | 263 000 |
| `MCFees` (`Sale`) | against `Settlement`: `SettledAsAgreed`, everyone is paid what they are due; `RefusedWhenUnpayable` | 18 600 |
| `MCTokenHistory` | types; `OneApprovalPerSpender`; `NumTokensExact`; `ArchivedForGood`; `ImplementsRegistry`; against the history of grants `MovesAreAuthorised` (nobody moves a token without a right) and `GrantsAreHonoured` (nobody loses one by another's grant); `PagesMissNoOperator`, for every limit, none and too large a one included, start and order of addresses | 208 000 |
| `MCTokenGate` (`MCToken`) | `RefusedOwnerMayOnlyLose` | 198 000 |
| `MCReceipt` | types; `NoForgedReceipts` | 500 |
| `MCMarket` | types, which say that no balance is overdrawn; `SettledWhenDone`: a transaction that is through has moved what its sales come to, and nothing else; `SoldMeansPaid` | 229 000 |
| `MCFactory` | types; `ImplementsFactory`: a creation is one step of `Factory` or none; `ModulesOfItsOwn`; `NewEntriesAreTokens`; `CreationTakesNoSymbol`; `DeadEndsStay` | 9 000 |

Runs that end in a counterexample, each of a sentence in the repository that the
code does not keep:

| Configuration (module) | Sentence | What the code does |
| --- | --- | --- |
| `MCSplitterLock` (`MCSplitter`) | `splitter.rs:41,45`: recipients and list are updated only when not locked | the error for a locked splitter is built and dropped (`contract.rs:151,188`) |
| `MCReceiptKept` (`MCReceipt`) | `receipt.rs:31`: mints a new receipt, generates an id | the number is never saved, the second receipt overwrites the first |
| `MCTokenBurn` (`MCTokenHistory`) | `token.rs:292`: the id of a burned token is still reserved | it can be minted again |
| `MCMarketFunded` (`MCMarket`) | `token.rs:114`: the purchaser may transfer as long as funds equal to the amount are provided | the funds are not looked at; coins the contract already holds pay for the sale |

Other comments that the code does not keep show in a single handler, and are left
at the model's following the code:

- `timelock.rs:27`: no expiration before the current time or block. Only times are
  checked (`ValidEscrow`).
- `token.rs:198`: the minter is the only one who can create tokens. `execute_mint`
  asks nobody but the modules (`Mint`).
- `factory.rs:39`: the token contract address by its symbol. `update_address` stores
  any string (`UpdateAddress`).
- The error at factory `contract.rs:179` speaks of whoever created the contract;
  it is the present owner who counts (`MayRepoint`). `DeadEndsStay` is about entries
  that no contract answers for, not about contracts that have changed hands.
- `address_list.rs:23`: an error if the address to be removed is not included. There
  is none (`RemoveAddress`).
- splitter `contract.rs:96`: a limit of 5 coins. The fifth is refused (`Send`).

### Bounds, and why they are enough

- Two users everywhere: owner against other, depositor against depositor, purchaser
  against seller. `MCMarket` adds a contract that receives tokens and a receiver of fees
  without other part; `MCReceipt` has three senders so that owner, minter and moderator
  may be different.
- One token id: every handler looks at one token only. Two symbols and up to three
  contracts, so that one symbol may be pointed at the other's contract.
- `MaxHeight` is 1 in `MCTimelock` (before and at an expiration, at a height and a time
  that differ) and `MCTokenHistory`, and 0 where nothing expires.
- One address list in `MCTimelock`, `MCSplitter` and `MCTokenGate`, so that lists are
  configured, filled by moderators and replaced; a second would add nothing, for only
  the one configured is asked.
- Funds are 1 or 2 coins in `MCTimelock`; in `MCSplitter` 4 of one denomination, or 7 of
  each of two, which 16, 33, 34 and 50 percent do not divide evenly and of which 16
  percent may be no coin at all, so that a payment fails after others were made; two
  denominations also in `MCFees`.
- Pages of operators: `DEFAULT_LIMIT` is 1 and `MAX_LIMIT` 2, for two users, with limits
  up to 3 asked for.
- `MCFees`: prices 0 to 13 with `MaxAmount` 1250, so that the last price is over the
  limit that makes `calculate_fee` panic, and percentages 1, 50, 100, 101.
- `MCMarket`: one token, a price of 2, endowments of 2, three lists of modules and one
  call of a contract that answers with a message (`MaxCalls`), so that a recipient
  contract sells on what it has just been sold, or changes the terms of it. The list
  with a royalty of 60 percent to two receivers is there for the refusal: at this price
  no sale under it is made. Only Alice instantiates the contract.
- `MCReceipt`: three mints (`MaxMinted`).
- `MCFactory`: three contracts (`MaxContracts`), enough for a token contract with a list
  and receipts of its own, or for two creations and a contract made elsewhere (one at
  most, `Bounded`). Three configurations: the right one, receipts and lists exchanged (a
  list's instantiation fails, as the first module or as the second after the first has
  been made, and that of receipts is taken by a list's code), receipts for tokens (the
  instantiation succeeds and the query in the reply fails). Module lists with a code id
  of the creator's own, with an address (which may be the one that the same token's
  receipts contract gets), and one that the validation refuses. A creation for which
  there are not enough addresses left is not begun.
- Symmetry is used over users where no constant names one of them, and over symbols in
  `MCFactory`; never with liveness.

Deadlock is checked in all runs but `MCFees`, which enumerates prices and stops.

### Fairness

`EscrowsArePaid` assumes that the chain goes on making blocks (as far as the
bound) and that each depositor keeps sending `ReleaseFunds` without funds; a
message that stays enabled is eventually included. The owner, the moderators
and other depositors need do nothing, and may do anything. A depositor whom the
list refuses at some moment is not promised anything.

## Proofs

| Module | Theorem | States |
| --- | --- | --- |
| `TimelockProofs` | `TypeCorrect`, `EscrowsBind`, `RefusedAreBound`, `ContractIsSolvent`, `TimelockIsVault` | `TypeOK`, `EscrowBinding`, `RefusedMayDoNothing`, `Solvent`, `KeepsBoxesApart` |
| `TokenProofs` | `TypeCorrect`, `CountIsExact`, `ApprovalsAreUnique`, `MovesNeedGrants`, `GrantsAreKept`, `ArchiveIsFinal`, `RefusedOwnersOnlyLose`, `TokenImplementsRegistry`, `PagesAreComplete` | `TypeOK`, `NumTokensExact`, `OneApprovalPerSpender`, `MovesAreAuthorised`, `GrantsAreHonoured`, `ArchivedForGood`, `RefusedOwnerMayOnlyLose`, `ImplementsRegistry`, `PagesMissNoOperator` |
| `TokenProofs`, of `Market` | `SalesSettle`, `SellersArePaid`, `MarketTypeCorrect`, `MarketCountsExactly` | `SettledWhenDone`, `SoldMeansPaid`, `MarketTypeOK`; `NumTokensExact` and `OneApprovalPerSpender` also through transactions that fail |
| `SplitterProofs` | `SplitterIsTyped`, `SharesFit`, `SplitterIsConduit`, `RefusedOwnersAreBound`, `RecipientsAreValid` | `TypeOK`, `SharesNeverExceedFunds`, `Conduit`, `RefusedOwnerIsPowerless`; the part of `TypeOK` that the splitter stores, valid recipients included |
| `FactoryProofs` | `TypeCorrect`, `SymbolsAreKept`, `DeadEndsAreFinal` | `TypeOK`, `CreationTakesNoSymbol`, `DeadEndsStay`, of `Factory` |
| `CreationProofs` | `CreationImplementsFactory`, `EntriesAreTokens`, `ModulesAreKept`; `TypeCorrect`, `SymbolsAreKept`, `DeadEndsAreFinal` | `ImplementsFactory`, `NewEntriesAreTokens`, `ModulesOfItsOwn`; and, through the implementation, those of `Factory` |
| `ReceiptProofs` | `TypeCorrect`, `NothingForged`, `OneReceiptAtMost` | `TypeOK`, `NoForgedReceipts`; the contract only ever holds receipt 1 |
| `FeesProofs` | `SaleSettles`, `SaleIsRefused`, `FeeIsRoundedUpOnce` | `SettledAsAgreed`, `RefusedWhenUnpayable`; the computed fee is the exact one rounded up, and at most the price |
| `CommonProofs` | lemmas used by the others: on the types of address lists, on balances, sums and folds, and on what payments, fees and whole sales come to | |

They hold for every value of the constants that satisfies the named assumptions of the
modules (`TimelockAssumption`, `TokenAssumption` and so on), which TLC evaluates in
every run: users are accounts, a contract is not a user, amounts and heights are natural
numbers, the limits of a page are positive, `NoList` is no module, ids and users of the
token contract are finitely many, a fee is of something (`RateGiven`), a called contract
is one of the users.

The arguments:

- Timelock. `EscrowBinding` is an action property and needs one fact about the states:
  no escrow that is held expires `Never`, for `execute_release_funds` lets such a one go
  at once (its match falls through). `IInv` is the type invariant with that
  (`NoEndlessEscrow`); `Escrow::validate` establishes it.
- Sums. What a contract holds is compared with a sum over depositors, recipients or
  payments. Such a sum is a recursive function, which TLA+ defines by CHOOSE, so that
  first there has to be such a function: `FoldExists` and `FoldUnique` prove it for
  every finite set. The theorems on induction take an operator, so each induction is an
  argument from the smallest set, or the smallest number, for which a claim fails
  (`SmallestSet`, `SmallestNumber`, from the well-foundedness of strict inclusion). From
  these come the laws of sums (`SumAdd`, `SumRemove`, `SumMonotonic`, `SumScaled`,
  `SumConcat`, `SumPlus`), and that folding a list is taking its elements one by one
  (`Iterates`), on which the fees rest.
- Timelock, its coins. `MoneyInv` adds to `IInv` that the escrows are finitely many and
  that the balance covers their sum. A deposit adds to both what arrived; a release
  takes one escrow from both. The contract's coins in the vault are what the balance has
  beyond that sum, so solvency is what makes them an amount of coins; each message is
  then a deposit, a payout or a gift in the vault, or it changes nothing.
- Splitter. `Conduit` is about the first and the last step of a `Send`, and the
  invariant (`MoneyInv`) connects them: while a `Send` is carried out, what the balances
  have beyond what they had before it is the funds that arrived and the sums of the
  payments made so far (`PaidUpTo`), each of which went to an address that exists.
  Shares are rounded down and percentages are at most 100 together, so all of them fit
  into the funds, and what is left goes back (`SendInAll`). Hence no payment fails for
  want of coins (`PaymentFits`), the sender always gets the rest, and if a payment fails
  it is a recipient's (`SendFails`); and if none does, the sums are what `DirectPayment`
  says (`AllPaid`).
- Token. `IInv` joins the type invariant, the count as a cardinality (which needs that
  the set of ids is finite) and unique approvals. The action properties and the
  refinement are case analyses over the messages: a lemma (`StepShape`) says what a step
  can do to one token, and the properties follow from it.
- Token and its grants. Neither theorem about grants is inductive: the history has to be
  tied to what is stored. The invariant says that an approval is stored on a token
  exactly if the history has that grant of its present owner's, with the same
  expiration, and an operator exactly if it has that one; and that the history has no
  grant for a token of anyone but its owner.
- Factory. A lemma says which two steps write `addresses`; the properties follow.
- Creations. The invariant (`Stages`) lists where a creation may be: the factory waits
  for its token contract, the token contract waits for its modules, a module's contract
  has been made, the address has been stored, or a failure is on its way up; and for
  each, what has been built so far, on what there was before. From it follows that every
  step but the last leaves what others see as it was, and that the last one is `Create`
  of `Factory`. It holds for any number of contracts, any code ids (of the three kinds)
  and any modules that the validation lets through. `ModulesOfItsOwn` needs a second
  invariant (`ModulesInv`) beside it: what is committed is settled; and of the token
  contract under way, each module without an address either has its contract already or
  a message still to come, while the contract just made is not one that the token
  contract knows. It rests on the validation (at most one list and one receipts module),
  on the ids of the two replies, and on the assumption that no user has a contract's
  address. The theorems of `FactoryProofs` then hold of `Creation` as well: they are
  instantiated, not proved again.
- Receipts. The inductive invariant says that the stored number is 0 and so no id but 1
  is used, and that there is no receipt before the first mint.
- Fees. Bounds on integer division give that the fee is the least number not below the
  exact fee, which is unique. A sale is a fold over the modules, and each module a fold
  over its receivers. `AgreedSettles` follows it: after any number of modules, either
  every address has in the list what these modules and the price owe it (the owner's
  first payment being what royalties have left of the price), or the list is refused and
  one of them could not be computed or borne. The deductions always find the owner's own
  payment, because it is in front.
- Pages. A page is the first addresses of a finite set in the order of their bytes. An
  address is on it if fewer than `limit` come before it; so the last one on a page
  bounds its size, and the first one that is not on it has a whole page before it.
- Market. The properties speak of the end of a transaction; `MarketInv` says what holds
  at each moment of it. Balances settle once the payments that still wait are counted in
  (`Even`); every token that was offered before is still offered by its owner, or sold
  in this transaction (`KeptOrSold`), unless the owner is a contract that may be called;
  a seller whom the bank does not know still has a payment waiting, which will fail
  (`SellersKnown`). That the messages of one sale bring everybody what it owes them is
  `AgreedIsDue`. What a failure restores satisfies the invariant because it did when the
  transaction began (`StoredInv`, `UndoInv`). Every step but a failure is a step of the
  token contract, or none (`TokenSteps`), so that the count and the approvals carry
  over.

Only model-checked: the liveness property `EscrowsArePaid`, since the prover has no
rules for fairness. Every other property of a passing run is a theorem.

## Not modelled

- Queries that return what is stored (`OwnerOf`, `NftInfo` and so on), and the schema
  examples. Queries with logic of their own (`AllApprovals`, `ModuleInfo`) and those
  that another contract's message depends on are modelled.
- `response.rs` beyond what it returns: it parses protobuf, data of the chain.
- The texts in messages, and the validation of names, symbols and descriptions;
  `Symbols` of `Factory` are those that pass.
- The hooks that no module implements (`on_mint`, `on_burn` and others), which do
  nothing, and the events of those that do something.
- Gas, and 128-bit overflow other than in `calculate_fee`.
- Calls of contracts that are not of this repository, beyond one message in answer to
  `ReceiveNft` in `Market`; token contracts with modules that a user instantiates
  without the factory, in `Creation`.
- The mock querier, which only the tests use.

## Plan

Done, in this order: address lists and timelock with its vault; splitter; fees
and their settlement; modules and token with its registry; receipts; market;
factory; the proofs of these; then all token messages and nested sends in the market,
the history of grants with its theorems, creations message by message with the proof
that they implement the factory, and the pages of operators; then the proofs about sums
(timelock and vault, splitter, fees), pages and the market.

Next, in the model:
`Creation` composed with `Token`, so that a created contract's owner and symbol are the
token contract's own state; address lists that change during a sale.

Next, in the proofs: the safety behind `EscrowsArePaid` (an escrow that has matured
stays releasable while the list allows its depositor); `ArchivedForGood` and the
registry through the transactions of `Market`, failures included.
