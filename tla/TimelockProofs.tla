--------------------------- MODULE TimelockProofs ---------------------------
(***************************************************************************)
(* Theorems about the timelock, for every set of users, accounts, funds,   *)
(* expirations and address lists.                                          *)
(*                                                                         *)
(* The inductive invariant is TypeOK and NoEndlessEscrow; the second part  *)
(* is what EscrowBinding needs besides the guard of ReleaseFunds: the      *)
(* match in execute_release_funds lets an escrow with expiration "Never"   *)
(* go, and only the validation on deposit keeps such an escrow out.        *)
(* MoneyInv adds that the escrows are finitely many, so that their coins   *)
(* can be summed up, and that the contract is solvent.                     *)
(***************************************************************************)
EXTENDS Timelock, CommonProofs, TLAPS

NoEndlessEscrow == \A u \in DOMAIN held : held[u].expiration.kind # "Never"

IInv == TypeOK /\ NoEndlessEscrow

----------------------------------------------------------------------------
\* The coins that arrive with a message.
LEMMA ReceivedType ==
  ASSUME TypeOK, NEW s \in Users, NEW f \in Funds \cup {NoCoins}, Covers(bank[s], f)
  PROVE  f \in Coins /\ Received(s, f) \in [Accounts -> Coins]
<1>1. f \in Coins
  BY TimelockAssumption DEF NoCoins, Coins
<1>2. s \in Accounts /\ Contract \in Accounts
  BY TimelockAssumption
<1> QED
  BY <1>1, <1>2, TransferType DEF TypeOK, Received

----------------------------------------------------------------------------
\* Every state of the timelock has the type that is claimed of it.
LEMMA InitInv == Init => IInv
<1> SUFFICES ASSUME Init
             PROVE  IInv
  OBVIOUS
<1>1. HeldType /\ NoEndlessEscrow
  BY DEF Init, EmptyMap, HeldType, NoEndlessEscrow
<1>2. addressList \in AddressListModules \cup {NoList} /\ AddressListType
  <2>1. CASE addressList \in AddressListModules \cup {NoList} /\ lists = EmptyMap
    BY <2>1 DEF EmptyMap, AddressListType
  <2>2. ASSUME addressList \in AddressListModules, NEW mods \in ModeratorSets,
               lists = Save(EmptyMap, addressList.contract,
                            [owner |-> Contract, moderators |-> mods, included |-> {}])
        PROVE  AddressListType
    <3>1. addressList.contract \in ListContracts /\ mods \in SUBSET Users
      BY <2>2, AddressListAssumption DEF AddressListModules
    <3>2. lists = [k \in {addressList.contract} |->
                     [owner |-> Contract, moderators |-> mods, included |-> {}]]
      BY <2>2 DEF EmptyMap, Save
    <3> QED
      BY <3>1, <3>2, OneListType
  <2> QED
    BY <2>1, <2>2 DEF Init
<1>3. bank \in [Accounts -> Coins]
  BY TimelockAssumption DEF Init, NoCoins, Coins
<1>4. block \in Blocks /\ contractOwner \in Users
  BY DEF Init, Blocks
<1> QED
  BY <1>1, <1>2, <1>3, <1>4 DEF IInv, TypeOK

LEMMA StepInv == IInv /\ [Next]_vars => IInv'
<1> SUFFICES ASSUME IInv, [Next]_vars
             PROVE  IInv'
  OBVIOUS
<1> USE DEF IInv
<1>1. ASSUME NEW s \in Users, NEW f \in Funds \cup {NoCoins},
             NEW e \in Expirations, NEW r \in Recipients, HoldFunds(s, f, e, r)
      PROVE  IInv'
  <2> DEFINE escrow == [coins |-> f, expiration |-> e, recipient |-> r]
  <2>1. f \in Coins /\ Received(s, f) \in [Accounts -> Coins]
    BY <1>1, ReceivedType DEF HoldFunds, KeepEscrow, Execute
  <2>2. escrow \in Escrow /\ escrow.expiration.kind # "Never"
    BY <1>1, <2>1 DEF HoldFunds, KeepEscrow, ValidEscrow, Escrow
  <2>3. held' = Save(held, s, escrow)
    BY <1>1 DEF HoldFunds, KeepEscrow
  <2>4. HeldType' /\ NoEndlessEscrow'
    BY <2>2, <2>3 DEF HeldType, NoEndlessEscrow, Save, TypeOK
  <2> QED
    BY <1>1, <2>1, <2>4 DEF HoldFunds, KeepEscrow, TypeOK, AddressListType
<1>2. ASSUME NEW s \in Users, NEW f \in Funds \cup {NoCoins}, ReleaseFunds(s, f)
      PROVE  IInv'
  <2>1. Received(s, f) \in [Accounts -> Coins]
    BY <1>2, ReceivedType DEF ReleaseFunds, DropEscrow, Execute
  <2>2. held[s].coins \in Coins /\ held[s].recipient \in Accounts
    BY <1>2 DEF ReleaseFunds, DropEscrow, TypeOK, HeldType, Escrow
  <2>3. bank' \in [Accounts -> Coins]
    BY <1>2, <2>1, <2>2, TransferType, TimelockAssumption DEF ReleaseFunds, DropEscrow
  <2>4. HeldType' /\ NoEndlessEscrow'
    BY <1>2 DEF ReleaseFunds, DropEscrow, HeldType, NoEndlessEscrow, Delete, TypeOK
  <2> QED
    BY <1>2, <2>3, <2>4 DEF ReleaseFunds, DropEscrow, TypeOK, AddressListType
<1>3. ASSUME NEW s \in Users, NEW f \in Funds \cup {NoCoins}, NEW new \in Users, UpdateOwner(s, f, new)
      PROVE  IInv'
  <2>1. Received(s, f) \in [Accounts -> Coins]
    BY <1>3, ReceivedType DEF UpdateOwner, Execute
  <2> QED
    BY <1>3, <2>1 DEF UpdateOwner, TypeOK, HeldType, NoEndlessEscrow, AddressListType
<1>4. ASSUME NEW s \in Users, NEW f \in Funds \cup {NoCoins},
             NEW module \in AddressListModules \cup {NoList}, UpdateAddressList(s, f, module)
      PROVE  IInv'
  <2>1. Received(s, f) \in [Accounts -> Coins]
    BY <1>4, ReceivedType DEF UpdateAddressList, Execute
  <2>2. AddressListType'
    BY <1>4, InstantiateListType DEF UpdateAddressList, OnInstantiate, TypeOK, AddressListType
  <2> QED
    BY <1>4, <2>1, <2>2 DEF UpdateAddressList, TypeOK, HeldType, NoEndlessEscrow
<1>5. CASE NextBlock
  <2>1. block' \in Blocks
    BY <1>5, TimelockAssumption DEF NextBlock, TypeOK, Blocks
  <2> QED
    BY <1>5, <2>1 DEF NextBlock, contractVars, TypeOK, HeldType, NoEndlessEscrow, AddressListType
<1>6. CASE ListTransaction
  BY <1>6, ListNextType DEF ListTransaction, contractVars, TypeOK, HeldType, NoEndlessEscrow
<1>7. CASE UNCHANGED vars
  BY <1>7 DEF vars, TypeOK, HeldType, NoEndlessEscrow, AddressListType
<1> QED
  BY <1>1, <1>2, <1>3, <1>4, <1>5, <1>6, <1>7 DEF Next

THEOREM InvariantHolds == Spec => []IInv
BY InitInv, StepInv, PTL DEF Spec

\* In every reachable state of every timelock the stored escrows name accounts that
\* exist, and no balance has gone below zero (Escrow::validate, execute_release_funds).
THEOREM TypeCorrect == Spec => []TypeOK
<1>1. IInv => TypeOK
  BY DEF IInv
<1> QED
  BY <1>1, InvariantHolds, PTL

----------------------------------------------------------------------------
\* The end of an escrow that was validated on deposit has come when the match of
\* execute_release_funds lets it go.
LEMMA ReleasedWhenMatured ==
  ASSUME IInv, NEW u \in DOMAIN held, ~StillLocked(held[u])
  PROVE  Matured(held[u])
<1>1. held[u].expiration \in Expirations /\ held[u].expiration.kind # "Never"
  BY DEF IInv, TypeOK, HeldType, Escrow, NoEndlessEscrow
<1>2. /\ held[u].expiration.kind \in {"AtTime", "AtHeight", "None"}
      /\ held[u].expiration.at \in Nat
  BY <1>1, TimelockAssumption
<1>3. block.height \in Nat /\ block.time \in Nat
  BY DEF IInv, TypeOK, Blocks
<1> QED
  BY <1>2, <1>3 DEF StillLocked, Matured

\* An escrow stays what it was when it was deposited, and is held until the moment
\* it names, in every timelock (execute_hold_funds, execute_release_funds).
THEOREM EscrowsBind == Spec => EscrowBinding
<1> DEFINE Binds == \A u \in DOMAIN held :
                      IF u \in DOMAIN held' THEN held'[u] = held[u] ELSE Matured(held[u])
<1>1. ASSUME IInv, Next
      PROVE  Binds
  <2>1. ASSUME NEW s \in Users, NEW f \in Funds \cup {NoCoins},
               NEW e \in Expirations, NEW r \in Recipients, HoldFunds(s, f, e, r)
        PROVE  Binds
    BY <2>1 DEF HoldFunds, KeepEscrow, Save
  <2>2. ASSUME NEW s \in Users, NEW f \in Funds \cup {NoCoins}, ReleaseFunds(s, f)
        PROVE  Binds
    <3>1. Matured(held[s])
      BY <1>1, <2>2, ReleasedWhenMatured DEF ReleaseFunds, DropEscrow
    <3>2. held' = Delete(held, s)
      BY <2>2 DEF ReleaseFunds, DropEscrow
    <3> QED
      BY <3>1, <3>2 DEF Delete
  <2>3. CASE held' = held
    BY <2>3
  <2> QED
    BY <1>1, <2>1, <2>2, <2>3
       DEF Next, UpdateOwner, UpdateAddressList, NextBlock, ListTransaction, contractVars
<1>2. IInv /\ [Next]_vars => [Binds]_vars
  BY <1>1
<1> QED
  BY <1>2, InvariantHolds, PTL DEF Spec, EscrowBinding

\* The address list binds depositors and owner alike, in every timelock: the hook
\* of the address list module precedes every handler (execute).
THEOREM RefusedAreBound == Spec => RefusedMayDoNothing
<1> DEFINE Bound == /\ \A u \in DOMAIN held : ~OnExecute(addressList, u) => u \in DOMAIN held'
                    /\ ~OnExecute(addressList, contractOwner) => UNCHANGED <<contractOwner, addressList>>
<1>1. ASSUME Next
      PROVE  Bound
  <2>1. ASSUME NEW s \in Users, NEW f \in Funds \cup {NoCoins},
               NEW e \in Expirations, NEW r \in Recipients, HoldFunds(s, f, e, r)
        PROVE  Bound
    BY <2>1 DEF HoldFunds, KeepEscrow, Save
  <2>2. ASSUME NEW s \in Users, NEW f \in Funds \cup {NoCoins}, ReleaseFunds(s, f)
        PROVE  Bound
    BY <2>2 DEF ReleaseFunds, DropEscrow, Execute, Delete
  <2>3. ASSUME NEW s \in Users, NEW f \in Funds \cup {NoCoins},
               \/ \E new \in Users : UpdateOwner(s, f, new)
               \/ \E module \in AddressListModules \cup {NoList} : UpdateAddressList(s, f, module)
        PROVE  Bound
    BY <2>3 DEF UpdateOwner, UpdateAddressList, Execute
  <2>4. CASE NextBlock \/ ListTransaction
    BY <2>4 DEF NextBlock, ListTransaction, contractVars
  <2> QED
    BY <1>1, <2>1, <2>2, <2>3, <2>4 DEF Next
<1>2. [Next]_vars => [Bound]_vars
  BY <1>1
<1> QED
  BY <1>2, PTL DEF Spec, RefusedMayDoNothing

----------------------------------------------------------------------------
\* What the escrows hold together, when one is added and when one is removed.
LEMMA TotalSaved ==
  ASSUME NEW escrows, IsFiniteSet(DOMAIN escrows), NEW u, u \notin DOMAIN escrows, NEW e,
         NEW d, e.coins[d] \in Int, \A v \in DOMAIN escrows : escrows[v].coins[d] \in Int
  PROVE  Total(Save(escrows, u, e), d) = Total(escrows, d) + e.coins[d]
<1> DEFINE U == DOMAIN escrows
<1> PICK h : h = [v \in U |-> escrows[v].coins[d]]
  OBVIOUS
<1> PICK k : k = [v \in U \cup {u} |-> Save(escrows, u, e)[v].coins[d]]
  OBVIOUS
<1>1. Total(escrows, d) = SumFunctionOnSet(h, U) /\ DOMAIN h = U
  BY DEF Total, SumFunction
<1>2. Total(Save(escrows, u, e), d) = SumFunctionOnSet(k, U \cup {u})
  <2>1. DOMAIN Save(escrows, u, e) = U \cup {u}
    BY DEF Save
  <2>2. Total(Save(escrows, u, e), d) = SumFunction(k)
    BY <2>1 DEF Total
  <2> QED
    BY <2>2 DEF SumFunction
<1>3. k[u] = e.coins[d] /\ \A v \in U : k[v] = h[v] /\ h[v] \in Int
  BY DEF Save
<1> HIDE DEF U
<1>4. SumFunctionOnSet(k, U \cup {u}) = k[u] + SumFunctionOnSet(k, U)
  <2>1. IsFiniteSet(U) /\ u \notin U /\ \A v \in U \cup {u} : k[v] \in Int
    BY <1>3 DEF U
  <2> QED
    BY <2>1, SumAdd
<1>5. SumFunctionOnSet(h, U) = SumFunctionOnSet(k, U)
  BY <1>3, SumSame DEF U
<1>6. SumFunctionOnSet(h, U) \in Int
  BY <1>3, SumType DEF U
<1> QED
  BY <1>1, <1>2, <1>3, <1>4, <1>5, <1>6

LEMMA TotalDeleted ==
  ASSUME NEW escrows, IsFiniteSet(DOMAIN escrows), NEW u \in DOMAIN escrows,
         NEW d, \A v \in DOMAIN escrows : escrows[v].coins[d] \in Int
  PROVE  Total(Delete(escrows, u), d) = Total(escrows, d) - escrows[u].coins[d]
<1> DEFINE U == DOMAIN escrows
<1> PICK h : h = [v \in U |-> escrows[v].coins[d]]
  OBVIOUS
<1> PICK k : k = [v \in U \ {u} |-> Delete(escrows, u)[v].coins[d]]
  OBVIOUS
<1>1. Total(escrows, d) = SumFunctionOnSet(h, U) /\ DOMAIN h = U
  BY DEF Total, SumFunction
<1>2. Total(Delete(escrows, u), d) = SumFunctionOnSet(k, U \ {u})
  <2>1. DOMAIN Delete(escrows, u) = U \ {u}
    BY DEF Delete
  <2>2. Total(Delete(escrows, u), d) = SumFunction(k)
    BY <2>1 DEF Total
  <2> QED
    BY <2>2 DEF SumFunction
<1>3. h[u] = escrows[u].coins[d] /\ (\A v \in U : h[v] \in Int) /\ \A v \in U \ {u} : k[v] = h[v]
  BY DEF Delete
<1> HIDE DEF U
<1>4. SumFunctionOnSet(h, U) = h[u] + SumFunctionOnSet(h, U \ {u})
  BY <1>3, SumRemove DEF U
<1>5. IsFiniteSet(U \ {u})
  BY FS_RemoveElement DEF U
<1>6. SumFunctionOnSet(h, U \ {u}) = SumFunctionOnSet(k, U \ {u}) /\ SumFunctionOnSet(h, U \ {u}) \in Int
  BY <1>3, <1>5, SumSame, SumType
<1>7. h[u] \in Int
  BY <1>3 DEF U
<1> QED
  BY <1>1, <1>2, <1>3, <1>4, <1>6, <1>7

----------------------------------------------------------------------------
FiniteHoldings == IsFiniteSet(DOMAIN held)

MoneyInv == IInv /\ FiniteHoldings /\ Solvent

\* The coins of an escrow that is held, and what all escrows hold together.
LEMMA HeldCoins ==
  ASSUME IInv, FiniteHoldings
  PROVE  /\ \A u \in DOMAIN held : u \in Users /\ held[u].coins \in Coins /\ held[u].recipient \in Accounts
         /\ \A d \in Denoms : Total(held, d) \in Int
<1>1. \A u \in DOMAIN held : u \in Users /\ held[u].coins \in Coins /\ held[u].recipient \in Accounts
  BY DEF IInv, TypeOK, HeldType, Escrow
<1>2. ASSUME NEW d \in Denoms
      PROVE  Total(held, d) \in Int
  <2> PICK h : h = [u \in DOMAIN held |-> held[u].coins[d]]
    OBVIOUS
  <2>1. Total(held, d) = SumFunctionOnSet(h, DOMAIN held)
    BY DEF Total, SumFunction
  <2>2. \A u \in DOMAIN held : h[u] \in Int
    BY <1>1 DEF Coins
  <2> QED
    BY <2>1, <2>2, SumType DEF FiniteHoldings
<1> QED
  BY <1>1, <1>2

\* What the five kinds of transactions make of the balances and the escrows.
LEMMA ReceivedCoins ==
  ASSUME TypeOK, NEW s \in Users, NEW f \in Funds \cup {NoCoins}, NEW a \in Accounts, NEW d \in Denoms
  PROVE  /\ f[d] \in Nat /\ bank[a][d] \in Nat /\ s # Contract
         /\ Received(s, f)[a][d] = IF a = s THEN bank[a][d] - f[d]
                                   ELSE IF a = Contract THEN bank[a][d] + f[d] ELSE bank[a][d]
<1>1. f \in Coins /\ s # Contract /\ s \in Accounts /\ Contract \in Accounts
  BY TimelockAssumption DEF NoCoins, Coins
<1>2. DOMAIN bank = Accounts /\ bank[a] \in Coins
  BY DEF TypeOK
<1> QED
  BY <1>1, <1>2 DEF Received, Transfer, Coins

LEMMA InitMoney == Init => MoneyInv
<1> SUFFICES ASSUME Init
             PROVE  MoneyInv
  OBVIOUS
<1>1. IInv
  BY InitInv
<1>2. DOMAIN held = {} /\ FiniteHoldings
  BY FS_EmptySet DEF Init, EmptyMap, FiniteHoldings
<1>3. ASSUME NEW d \in Denoms
      PROVE  bank[Contract][d] >= Total(held, d)
  <2> PICK h : h = [u \in DOMAIN held |-> held[u].coins[d]]
    OBVIOUS
  <2>1. Total(held, d) = SumFunctionOnSet(h, {})
    BY <1>2 DEF Total, SumFunction
  <2>2. bank[Contract][d] \in Nat
    BY <1>1, TimelockAssumption DEF IInv, TypeOK, Coins
  <2> QED
    BY <2>1, <2>2, SumEmpty
<1> QED
  BY <1>1, <1>2, <1>3 DEF MoneyInv, Solvent

LEMMA StepMoney == MoneyInv /\ [Next]_vars => MoneyInv'
<1> SUFFICES ASSUME MoneyInv, [Next]_vars
             PROVE  MoneyInv'
  OBVIOUS
<1>1. IInv'
  BY StepInv DEF MoneyInv
<1>2. TypeOK /\ IInv /\ FiniteHoldings /\ Solvent /\ Contract \in Accounts
  BY TimelockAssumption DEF MoneyInv, IInv
<1>3. ASSUME NEW s \in Users, NEW f \in Funds \cup {NoCoins}, held' = held, bank' = Received(s, f)
      PROVE  (FiniteHoldings /\ Solvent)'
  <2>1. ASSUME NEW d \in Denoms
        PROVE  bank'[Contract][d] >= Total(held, d)
    <3>1. bank'[Contract][d] = bank[Contract][d] + f[d] /\ f[d] \in Nat /\ bank[Contract][d] \in Nat
      BY <1>2, <1>3, ReceivedCoins
    <3>2. bank[Contract][d] >= Total(held, d) /\ Total(held, d) \in Int
      BY <1>2, HeldCoins DEF Solvent
    <3> QED
      BY <3>1, <3>2
  <2> QED
    BY <1>2, <1>3, <2>1 DEF FiniteHoldings, Solvent
<1>4. ASSUME NEW s \in Users, NEW f \in Funds \cup {NoCoins},
             NEW e \in Expirations, NEW r \in Recipients, HoldFunds(s, f, e, r)
      PROVE  (FiniteHoldings /\ Solvent)'
  <2> DEFINE escrow == [coins |-> f, expiration |-> e, recipient |-> r]
  <2>1. s \notin DOMAIN held /\ held' = Save(held, s, escrow) /\ bank' = Received(s, f)
    BY <1>4 DEF HoldFunds, KeepEscrow
  <2>2. FiniteHoldings'
    <3>1. DOMAIN held' = DOMAIN held \cup {s}
      BY <2>1 DEF Save
    <3> QED
      BY <1>2, <3>1, FS_AddElement DEF FiniteHoldings
  <2>3. ASSUME NEW d \in Denoms
        PROVE  bank'[Contract][d] >= Total(held', d)
    <3>1. bank'[Contract][d] = bank[Contract][d] + f[d] /\ f[d] \in Nat /\ bank[Contract][d] \in Nat
      BY <1>2, <2>1, ReceivedCoins
    <3>2. bank[Contract][d] >= Total(held, d) /\ Total(held, d) \in Int
      BY <1>2, HeldCoins DEF Solvent
    <3>3. Total(held', d) = Total(held, d) + f[d]
      <4>1. escrow.coins[d] = f[d] /\ \A v \in DOMAIN held : held[v].coins[d] \in Int
        BY <1>2, HeldCoins DEF Coins
      <4> HIDE DEF escrow
      <4> QED
        BY <1>2, <2>1, <3>1, <4>1, TotalSaved DEF FiniteHoldings
    <3> QED
      BY <3>1, <3>2, <3>3
  <2> QED
    BY <2>2, <2>3 DEF Solvent
<1>5. ASSUME NEW s \in Users, NEW f \in Funds \cup {NoCoins}, ReleaseFunds(s, f)
      PROVE  (FiniteHoldings /\ Solvent)'
  <2>1. /\ s \in DOMAIN held /\ held' = Delete(held, s)
        /\ bank' = Transfer(Received(s, f), Contract, held[s].recipient, held[s].coins)
    BY <1>5 DEF ReleaseFunds, DropEscrow
  <2>2. FiniteHoldings'
    <3>1. DOMAIN held' = DOMAIN held \ {s}
      BY <2>1 DEF Delete
    <3> QED
      BY <1>2, <3>1, FS_RemoveElement DEF FiniteHoldings
  <2>3. ASSUME NEW d \in Denoms
        PROVE  bank'[Contract][d] >= Total(held', d)
    <3>1. Received(s, f)[Contract][d] = bank[Contract][d] + f[d] /\ f[d] \in Nat /\ bank[Contract][d] \in Nat
      BY <1>2, ReceivedCoins
    <3>2. bank[Contract][d] >= Total(held, d) /\ Total(held, d) \in Int
      BY <1>2, HeldCoins DEF Solvent
    <3>3. held[s].coins[d] \in Nat /\ \A v \in DOMAIN held : held[v].coins[d] \in Int
      BY <1>2, <2>1, HeldCoins DEF Coins
    <3>4. Total(held', d) = Total(held, d) - held[s].coins[d]
      BY <1>2, <2>1, <3>3, TotalDeleted DEF FiniteHoldings
    <3>5. \/ bank'[Contract][d] = Received(s, f)[Contract][d] - held[s].coins[d]
          \/ bank'[Contract][d] = Received(s, f)[Contract][d]
      <4>1. DOMAIN Received(s, f) = Accounts
        BY <1>2 DEF Received, Transfer, TypeOK
      <4> QED
        BY <1>2, <2>1, <3>1, <3>3, <4>1 DEF Transfer
    <3> QED
      BY <3>1, <3>2, <3>3, <3>4, <3>5
  <2> QED
    BY <2>2, <2>3 DEF Solvent
<1>6. ASSUME held' = held, bank' = bank
      PROVE  (FiniteHoldings /\ Solvent)'
  BY <1>2, <1>6 DEF FiniteHoldings, Solvent
<1>7. (FiniteHoldings /\ Solvent)'
  BY <1>3, <1>4, <1>5, <1>6
     DEF Next, UpdateOwner, UpdateAddressList, NextBlock, ListTransaction, contractVars, vars
<1> QED
  BY <1>1, <1>7 DEF MoneyInv

\* In every timelock the contract holds, at all times, at least what all depositors
\* together have left with it (execute_hold_funds, execute_release_funds).
THEOREM ContractIsSolvent == Spec => []Solvent
<1>1. MoneyInv => Solvent
  BY DEF MoneyInv
<1> QED
  BY <1>1, InitMoney, StepMoney, PTL DEF Spec

----------------------------------------------------------------------------
\* The coins that are an account's own, in the vault that the timelock is seen as.
LEMMA OwnCoins ==
  ASSUME NEW b \in [Accounts -> Coins], NEW escrows, \A d \in Denoms : Total(escrows, d) \in Int,
         NEW own, own = [b EXCEPT ![Contract] = [d \in Denoms |-> b[Contract][d] - Total(escrows, d)]]
  PROVE  /\ own \in Purses
         /\ \A a \in Accounts, d \in Denoms :
              own[a][d] = IF a = Contract THEN b[a][d] - Total(escrows, d) ELSE b[a][d]
<1>1. Contract \in Accounts
  BY TimelockAssumption
<1>2. [d \in Denoms |-> b[Contract][d] - Total(escrows, d)] \in [Denoms -> Int]
  BY <1>1 DEF Coins
<1> QED
  BY <1>1, <1>2 DEF Purses, Coins

LEMMA Purse ==
  ASSUME MoneyInv
  PROVE  /\ bank \in [Accounts -> Coins] /\ Contract \in Accounts /\ ownCoins \in Purses
         /\ \A d \in Denoms : Total(held, d) \in Int
         /\ \A a \in Accounts, d \in Denoms :
              ownCoins[a][d] = IF a = Contract THEN bank[a][d] - Total(held, d) ELSE bank[a][d]
<1>1. bank \in [Accounts -> Coins] /\ Contract \in Accounts
  BY TimelockAssumption DEF MoneyInv, IInv, TypeOK
<1>2. \A d \in Denoms : Total(held, d) \in Int
  BY HeldCoins DEF MoneyInv
<1> QED
  BY <1>1, <1>2, OwnCoins DEF ownCoins

\* What a step that changes the balances to those of an allowed purse needs.
LEMMA NextPurse ==
  ASSUME bank' \in [Accounts -> Coins], \A d \in Denoms : Total(held, d)' \in Int
  PROVE  /\ ownCoins' \in Purses
         /\ \A a \in Accounts, d \in Denoms :
              ownCoins'[a][d] = IF a = Contract THEN bank'[a][d] - Total(held, d)' ELSE bank'[a][d]
<1>1. ownCoins' = [bank' EXCEPT ![Contract] = [d \in Denoms |-> bank'[Contract][d] - Total(held', d)]]
  BY DEF ownCoins
<1>2. \A d \in Denoms : Total(held', d) \in Int
  OBVIOUS
<1> QED
  BY <1>1, <1>2, OwnCoins

\* A message with funds that no handler has a use for is a gift to the keeper.
LEMMA GiveStep ==
  ASSUME MoneyInv, NEW s \in Users, NEW f \in Funds \cup {NoCoins}, Covers(bank[s], f),
         held' = held, bank' = Received(s, f)
  PROVE  V!Next
<1>1. s \in Accounts /\ s # Contract /\ f \in Coins
  BY TimelockAssumption DEF Coins, NoCoins
<1>2. bank' \in [Accounts -> Coins]
  BY ReceivedType DEF MoneyInv, IInv
<1>3. \A d \in Denoms : Total(held, d) \in Int /\ Total(held, d)' = Total(held, d)
  BY Purse
<1>4. ownCoins \in Purses /\ ownCoins' \in Purses
  BY <1>2, <1>3, Purse, NextPurse
<1>5. V!Covers(ownCoins[s], f)
  BY <1>1, Purse DEF V!Covers, Covers
<1>6. ASSUME NEW a \in Accounts, NEW d \in Denoms
      PROVE  ownCoins'[a][d] = V!Transfer(ownCoins, s, Contract, f)[a][d]
  <2>1. /\ f[d] \in Nat /\ bank[a][d] \in Nat
        /\ bank'[a][d] = IF a = s THEN bank[a][d] - f[d]
                         ELSE IF a = Contract THEN bank[a][d] + f[d] ELSE bank[a][d]
    BY ReceivedCoins DEF MoneyInv, IInv
  <2>2. DOMAIN ownCoins = Accounts
    BY <1>4 DEF Purses
  <2>3. V!Transfer(ownCoins, s, Contract, f)[a][d]
          = IF a = s THEN ownCoins[a][d] - f[d]
            ELSE IF a = Contract THEN ownCoins[a][d] + f[d] ELSE ownCoins[a][d]
    BY <1>1, <2>2 DEF V!Transfer
  <2>4. ownCoins[a][d] = IF a = Contract THEN bank[a][d] - Total(held, d) ELSE bank[a][d]
    BY Purse
  <2>5. ownCoins'[a][d] = IF a = Contract THEN bank'[a][d] - Total(held, d) ELSE bank'[a][d]
    BY <1>2, <1>3, NextPurse
  <2> QED
    BY <1>1, <1>3, <2>1, <2>3, <2>4, <2>5
<1>7. V!Transfer(ownCoins, s, Contract, f) \in Purses
  BY <1>1, <1>4 DEF V!Transfer, Purses, Coins
<1>8. ownCoins' = V!Transfer(ownCoins, s, Contract, f)
  BY <1>4, <1>6, <1>7, SamePurse
<1>9. boxes' = boxes
  BY DEF boxes
<1>10. V!Give(s, f)
  BY <1>5, <1>8, <1>9 DEF V!Give
<1> QED
  BY <1>10 DEF V!Next

\* A deposit puts the coins into a box.
LEMMA DepositStep ==
  ASSUME MoneyInv, NEW s \in Users, NEW f \in Funds \cup {NoCoins},
         NEW e \in Expirations, NEW r \in Recipients, HoldFunds(s, f, e, r)
  PROVE  V!Next
<1> DEFINE escrow == [coins |-> f, expiration |-> e, recipient |-> r]
           spent == [ownCoins EXCEPT ![s] = [d \in Denoms |-> @[d] - f[d]]]
<1>1. s \in Accounts /\ s # Contract /\ f \in Coins
  BY TimelockAssumption DEF Coins, NoCoins
<1>2. /\ s \notin DOMAIN held /\ held' = Save(held, s, escrow) /\ bank' = Received(s, f)
      /\ Covers(bank[s], f) /\ r \in Accounts
  BY DEF HoldFunds, KeepEscrow, Execute, ValidEscrow
<1>3. bank' \in [Accounts -> Coins]
  BY <1>2, ReceivedType DEF MoneyInv, IInv
<1>4. \A d \in Denoms : Total(held, d) \in Int /\ Total(held, d)' = Total(held, d) + f[d]
  <2> SUFFICES ASSUME NEW d \in Denoms
               PROVE  Total(held, d) \in Int /\ Total(held', d) = Total(held, d) + f[d]
    OBVIOUS
  <2>1. f[d] \in Nat /\ escrow.coins[d] = f[d] /\ \A v \in DOMAIN held : held[v].coins[d] \in Int
    BY <1>1, HeldCoins DEF MoneyInv, Coins
  <2> HIDE DEF escrow
  <2>2. Total(held', d) = Total(held, d) + escrow.coins[d]
    BY <1>2, <2>1, TotalSaved DEF MoneyInv, FiniteHoldings
  <2> QED
    BY <2>1, <2>2, Purse
<1>5. \A d \in Denoms : f[d] \in Nat /\ Total(held, d)' \in Int
  BY <1>1, <1>4 DEF Coins
<1>6. ownCoins \in Purses /\ ownCoins' \in Purses
  BY <1>3, <1>5, Purse, NextPurse
<1>7. V!Covers(ownCoins[s], f)
  BY <1>1, <1>2, Purse DEF V!Covers, Covers
<1>8. ASSUME NEW a \in Accounts, NEW d \in Denoms
      PROVE  ownCoins'[a][d] = spent[a][d]
  <2>1. /\ bank[a][d] \in Nat
        /\ bank'[a][d] = IF a = s THEN bank[a][d] - f[d]
                         ELSE IF a = Contract THEN bank[a][d] + f[d] ELSE bank[a][d]
    BY <1>2, ReceivedCoins DEF MoneyInv, IInv
  <2>2. spent[a][d] = IF a = s THEN ownCoins[a][d] - f[d] ELSE ownCoins[a][d]
    BY <1>6 DEF Purses
  <2>3. ownCoins[a][d] = IF a = Contract THEN bank[a][d] - Total(held, d) ELSE bank[a][d]
    BY Purse
  <2>4. ownCoins'[a][d] = IF a = Contract THEN bank'[a][d] - Total(held, d)' ELSE bank'[a][d]
    BY <1>3, <1>5, NextPurse
  <2> HIDE DEF spent
  <2> QED
    BY <1>1, <1>4, <1>5, <2>1, <2>2, <2>3, <2>4
<1>9. spent \in Purses
  BY <1>1, <1>5, <1>6 DEF Purses
<1>10. ownCoins' = spent
  <2> HIDE DEF spent
  <2> QED
    BY <1>6, <1>8, <1>9, SamePurse
<1>11. boxes' = V!Save(boxes, s, [coins |-> f, recipient |-> r])
  <2>1. DOMAIN held' = DOMAIN held \cup {s}
    BY <1>2 DEF Save
  <2>2. held'[s] = escrow /\ \A u \in DOMAIN held : held'[u] = held[u]
    BY <1>2 DEF Save
  <2> QED
    BY <1>2, <2>1, <2>2 DEF boxes, V!Save
<1>12. s \notin DOMAIN boxes
  BY <1>2 DEF boxes
<1>13. V!Deposit(s, f, r)
  BY <1>7, <1>10, <1>11, <1>12 DEF V!Deposit
<1> QED
  BY <1>2, <1>13 DEF V!Next

\* A release empties the box of the depositor, and of nobody else.
LEMMA PayoutStep ==
  ASSUME MoneyInv, NEW s \in Users, NEW f \in Funds \cup {NoCoins}, ReleaseFunds(s, f)
  PROVE  V!Next
<1> DEFINE to == held[s].recipient  coins == held[s].coins
           given == V!Transfer(ownCoins, s, Contract, f)
           paid == [given EXCEPT ![boxes[s].recipient] = [d \in Denoms |-> @[d] + boxes[s].coins[d]]]
<1>1. s \in Accounts /\ s # Contract /\ f \in Coins /\ Contract \in Accounts
  BY TimelockAssumption DEF Coins, NoCoins
<1>2. /\ s \in DOMAIN held /\ held' = Delete(held, s) /\ Covers(bank[s], f)
      /\ bank' = Transfer(Received(s, f), Contract, to, coins)
      /\ Covers(Received(s, f)[Contract], coins)
  BY DEF ReleaseFunds, DropEscrow, Execute
<1>3. to \in Accounts /\ coins \in Coins /\ boxes[s].recipient = to /\ boxes[s].coins = coins
  BY <1>2, HeldCoins DEF MoneyInv, boxes
<1>4. bank' \in [Accounts -> Coins]
  BY <1>1, <1>2, <1>3, ReceivedType, TransferType DEF MoneyInv, IInv
<1>5. \A d \in Denoms : Total(held, d) \in Int /\ Total(held, d)' = Total(held, d) - coins[d]
  <2> SUFFICES ASSUME NEW d \in Denoms
               PROVE  Total(held, d) \in Int /\ Total(held', d) = Total(held, d) - coins[d]
    OBVIOUS
  <2>1. \A v \in DOMAIN held : held[v].coins[d] \in Int
    BY HeldCoins DEF MoneyInv, Coins
  <2> QED
    BY <1>2, <2>1, TotalDeleted, Purse DEF MoneyInv, FiniteHoldings
<1>6. \A d \in Denoms : f[d] \in Nat /\ coins[d] \in Nat /\ Total(held, d)' \in Int
  BY <1>1, <1>3, <1>5 DEF Coins
<1> HIDE DEF to, coins
<1>7. ownCoins \in Purses /\ ownCoins' \in Purses
  BY <1>4, <1>6, Purse, NextPurse
<1>8. V!Covers(ownCoins[s], f)
  BY <1>1, <1>2, Purse DEF V!Covers, Covers
<1>9. given \in Purses
  BY <1>1, <1>7 DEF V!Transfer, Purses, Coins
<1>10. ASSUME NEW a \in Accounts, NEW d \in Denoms
       PROVE  ownCoins'[a][d] = paid[a][d]
  <2>1. /\ bank[a][d] \in Nat
        /\ Received(s, f)[a][d] = IF a = s THEN bank[a][d] - f[d]
                                  ELSE IF a = Contract THEN bank[a][d] + f[d] ELSE bank[a][d]
    BY ReceivedCoins DEF MoneyInv, IInv
  <2>2. bank'[a][d] = IF Contract = to THEN Received(s, f)[a][d]
                      ELSE IF a = Contract THEN Received(s, f)[a][d] - coins[d]
                      ELSE IF a = to THEN Received(s, f)[a][d] + coins[d] ELSE Received(s, f)[a][d]
    <3>1. DOMAIN Received(s, f) = Accounts
      BY Purse DEF Received, Transfer
    <3> QED
      BY <1>2, <3>1 DEF Transfer
  <2>3. given[a][d] = IF a = s THEN ownCoins[a][d] - f[d]
                      ELSE IF a = Contract THEN ownCoins[a][d] + f[d] ELSE ownCoins[a][d]
    <3>1. DOMAIN ownCoins = Accounts
      BY <1>7 DEF Purses
    <3> QED
      BY <1>1, <3>1 DEF V!Transfer
  <2>4. paid[a][d] = IF a = to THEN given[a][d] + coins[d] ELSE given[a][d]
    <3> HIDE DEF given
    <3> QED
      BY <1>3, <1>9 DEF Purses
  <2>5. ownCoins[a][d] = IF a = Contract THEN bank[a][d] - Total(held, d) ELSE bank[a][d]
    BY Purse
  <2>6. ownCoins'[a][d] = IF a = Contract THEN bank'[a][d] - Total(held, d)' ELSE bank'[a][d]
    BY <1>4, <1>6, NextPurse
  <2> HIDE DEF given, paid
  <2> QED
    BY <1>1, <1>5, <1>6, <2>1, <2>2, <2>3, <2>4, <2>5, <2>6
<1>11. paid \in Purses
  <2> HIDE DEF given
  <2> QED
    BY <1>3, <1>6, <1>9 DEF Purses
<1>12. ownCoins' = paid
  <2> HIDE DEF paid
  <2> QED
    BY <1>7, <1>10, <1>11, SamePurse
<1>13. boxes' = V!Delete(boxes, s)
  BY <1>2 DEF boxes, Delete, V!Delete
<1>14. s \in DOMAIN boxes
  BY <1>2 DEF boxes
<1>15. V!Payout(s, f)
  BY <1>8, <1>12, <1>13, <1>14 DEF V!Payout
<1> QED
  BY <1>15 DEF V!Next

\* Every timelock is a vault: each depositor has a box of its own, whatever the
\* number of depositors and whatever their messages, so that no escrow is paid with
\* the coins of another, nor with coins that were sent for nothing.
THEOREM TimelockIsVault == Spec => KeepsBoxesApart
<1>1. Init => V!Init
  <2> SUFFICES ASSUME Init
               PROVE  V!Init
    OBVIOUS
  <2>1. MoneyInv /\ DOMAIN held = {}
    BY InitMoney DEF Init, EmptyMap
  <2>2. boxes = V!EmptyMap
    BY <2>1 DEF boxes, V!EmptyMap
  <2>3. \A d \in Denoms : Total(held, d) = 0
    BY <2>1, SumEmpty DEF Total, SumFunction
  <2>4. bank \in Purses
    BY <2>1, Purse DEF Purses, Coins
  <2>5. ownCoins = bank
    <3>1. \A a \in Accounts, d \in Denoms : ownCoins[a][d] = bank[a][d]
      <4> SUFFICES ASSUME NEW a \in Accounts, NEW d \in Denoms
                   PROVE  ownCoins[a][d] = bank[a][d]
        OBVIOUS
      <4>1. bank[a][d] \in Int
        BY <2>4 DEF Purses
      <4> QED
        BY <2>1, <2>3, <4>1, Purse
    <3> QED
      BY <2>1, <2>4, <3>1, Purse, SamePurse
  <2> QED
    BY <2>2, <2>5 DEF Init, V!Init
<1>2. MoneyInv /\ [Next]_vars => [V!Next]_V!vaultVars
  <2> SUFFICES ASSUME MoneyInv, [Next]_vars
               PROVE  [V!Next]_V!vaultVars
    OBVIOUS
  <2>1. ASSUME held' = held, bank' = bank
        PROVE  UNCHANGED V!vaultVars
    BY <2>1 DEF V!vaultVars, boxes, ownCoins
  <2>2. ASSUME NEW s \in Users, NEW f \in Funds \cup {NoCoins},
               \/ \E new \in Users : UpdateOwner(s, f, new)
               \/ \E module \in AddressListModules \cup {NoList} : UpdateAddressList(s, f, module)
        PROVE  V!Next
    <3>1. held' = held /\ bank' = Received(s, f) /\ Covers(bank[s], f)
      BY <2>2 DEF UpdateOwner, UpdateAddressList, Execute
    <3> QED
      BY <3>1, GiveStep
  <2>3. ASSUME NextBlock \/ ListTransaction \/ UNCHANGED vars
        PROVE  held' = held /\ bank' = bank
    BY <2>3 DEF NextBlock, ListTransaction, contractVars, vars
  <2> QED
    BY <2>1, <2>2, <2>3, DepositStep, PayoutStep DEF Next
<1> QED
  BY <1>1, <1>2, InitMoney, StepMoney, PTL DEF Spec, KeepsBoxesApart, V!Spec
=============================================================================
