--------------------------- MODULE SplitterProofs ---------------------------
(***************************************************************************)
(* Theorems about the splitter, for every set of users, funds, recipients  *)
(* and address lists.  While a Send is carried out, the invariant says     *)
(* what the payments made so far have moved: the sums of their amounts.    *)
(* All payments of a Send together are of the funds, neither more nor      *)
(* less, because each share is rounded down, the percentages are at most   *)
(* 100 together and the sender gets the rest; so no payment fails for want *)
(* of coins, and the last leaves what direct payments would have left.     *)
(***************************************************************************)
EXTENDS Splitter, CommonProofs, TLAPS

\* An address list that refuses the owner leaves the splitter as it is, in every
\* splitter: the hook of the module precedes the messages of the owner as well, and
\* the handlers that change anything require that the sender is the owner.
THEOREM RefusedOwnersAreBound == Spec => RefusedOwnerIsPowerless
<1> DEFINE Bound == ~OnExecute(addressList, contractOwner) => UNCHANGED <<config, contractOwner>>
<1>1. ASSUME Next
      PROVE  Bound
  <2>1. ASSUME NEW s \in Users, NEW f \in Funds \cup {NoCoins}, Send(s, f)
        PROVE  Bound
    BY <2>1 DEF Send, config
  <2>2. ASSUME NEW s \in Users, NEW f \in Funds \cup {NoCoins},
               \/ \E list \in RecipientLists : UpdateRecipients(s, f, list)
               \/ \E lock \in BOOLEAN : UpdateLock(s, f, lock)
               \/ \E module \in AddressListModules \cup {NoList} : UpdateAddressList(s, f, module)
               \/ \E new \in Users : UpdateOwner(s, f, new)
        PROVE  Bound
    <3>1. s = contractOwner /\ OnExecute(addressList, s)
      BY <2>2 DEF UpdateRecipients, UpdateLock, UpdateAddressList, UpdateOwner, Execute
    <3> QED
      BY <3>1
  <2>3. CASE DeliverPayment \/ Fail \/ Commit
    BY <2>3 DEF DeliverPayment, Fail, Commit, config
  <2>4. CASE ListTransaction
    BY <2>4 DEF ListTransaction, config
  <2> QED
    BY <1>1, <2>1, <2>2, <2>3, <2>4 DEF Next
<1>2. [Next]_vars => [Bound]_vars
  BY <1>1
<1> QED
  BY <1>2, PTL DEF Spec, RefusedOwnerIsPowerless

----------------------------------------------------------------------------
ListsInv == StoreType /\ AddressListType

LEMMA InitLists == Init => ListsInv
<1> SUFFICES ASSUME Init
             PROVE  ListsInv
  OBVIOUS
<1>1. StoreType
  BY DEF Init, StoreType
<1>2. CASE lists = EmptyMap
  BY <1>1, <1>2 DEF ListsInv, AddressListType, EmptyMap
<1>3. ASSUME addressList \in AddressListModules, NEW mods \in ModeratorSets,
             lists = Save(EmptyMap, addressList.contract,
                          [owner |-> Contract, moderators |-> mods, included |-> {}])
      PROVE  ListsInv
  <2>1. addressList.contract \in ListContracts
    BY <1>3 DEF AddressListModules
  <2>2. lists = [k \in {addressList.contract} |-> [owner |-> Contract, moderators |-> mods, included |-> {}]]
    BY <1>3 DEF Save, EmptyMap
  <2> QED
    BY <1>1, <2>1, <2>2, AddressListAssumption, OneListType DEF ListsInv
<1> QED
  BY <1>2, <1>3 DEF Init

LEMMA StepLists == ListsInv /\ [Next]_vars => ListsInv'
<1> SUFFICES ASSUME ListsInv, [Next]_vars
             PROVE  ListsInv'
  OBVIOUS
<1> USE DEF ListsInv, StoreType, config
<1>1. ASSUME NEW s \in Users, NEW f \in Funds \cup {NoCoins}, Send(s, f)
      PROVE  ListsInv'
  BY <1>1 DEF Send, AddressListType
<1>2. ASSUME NEW s \in Users, NEW f \in Funds \cup {NoCoins},
             \/ \E list \in RecipientLists : UpdateRecipients(s, f, list)
             \/ \E lock \in BOOLEAN : UpdateLock(s, f, lock)
             \/ \E new \in Users : UpdateOwner(s, f, new)
      PROVE  ListsInv'
  BY <1>2 DEF UpdateRecipients, UpdateLock, UpdateOwner, ValidRecipients, AddressListType
<1>3. ASSUME NEW s \in Users, NEW f \in Funds \cup {NoCoins},
             NEW module \in AddressListModules \cup {NoList}, UpdateAddressList(s, f, module)
      PROVE  ListsInv'
  <2>1. AddressListType'
    BY <1>3, InstantiateListType DEF UpdateAddressList, OnInstantiate, AddressListType
  <2> QED
    BY <1>3, <2>1 DEF UpdateAddressList, ValidRecipients
<1>4. CASE DeliverPayment \/ Fail \/ Commit
  BY <1>4 DEF DeliverPayment, Fail, Commit, AddressListType
<1>5. CASE ListTransaction
  BY <1>5, ListNextType DEF ListTransaction
<1>6. CASE UNCHANGED vars
  BY <1>6 DEF vars, AddressListType
<1> QED
  BY <1>1, <1>2, <1>3, <1>4, <1>5, <1>6 DEF Next

\* Every splitter has a valid list of recipients at all times, locked or not: it has
\* some, with no more than 100% together (validate_recipient_list is called by each
\* handler that stores a list).
THEOREM RecipientsAreValid == Spec => []StoreType
<1>1. ListsInv => StoreType
  BY DEF ListsInv
<1> QED
  BY <1>1, InitLists, StepLists, PTL DEF Spec

----------------------------------------------------------------------------
\* A list of recipients, as long as it may be, has as many indices.
LEMMA ListDomain ==
  ASSUME NEW list \in RecipientLists
  PROVE  /\ Len(list) \in Nat /\ DOMAIN list = 1..Len(list) /\ IsFiniteSet(DOMAIN list)
         /\ \A i \in DOMAIN list : list[i].percent \in Nat
<1>1. list \in Seq(Range(list)) /\ \A i \in DOMAIN list : list[i].percent \in Nat
  BY SplitterAssumption
<1>2. Len(list) \in Nat /\ DOMAIN list = 1..Len(list)
  BY <1>1
<1>3. IsFiniteSet(1..Len(list))
  BY <1>2, FS_Interval
<1> QED
  BY <1>1, <1>2, <1>3

\* A share is at most the percentage of the coin.
LEMMA ShareBound ==
  ASSUME NEW f \in Coins, NEW p \in Nat, NEW d \in Denoms
  PROVE  Share(f, p)[d] \in Nat /\ 100 * Share(f, p)[d] <= f[d] * p
<1>1. f[d] \in Nat
  BY DEF Coins
<1> PICK x : x = f[d] * p
  OBVIOUS
<1>2. x \in Nat
  BY <1>1
<1>3. x \div 100 \in Nat /\ 100 * (x \div 100) <= x
  BY <1>2
<1> QED
  BY <1>3 DEF Share

\* The shares of a valid list are together no more than the coin they are of.
LEMMA SharesBound ==
  ASSUME NEW list \in RecipientLists, ValidRecipients(list), NEW f \in Coins, NEW d \in Denoms
  PROVE  SumFunction(Shares(f, list, d)) \in Nat /\ SumFunction(Shares(f, list, d)) <= f[d]
<1> PICK D : D = DOMAIN list
  OBVIOUS
<1> PICK sh : sh = Shares(f, list, d)
  OBVIOUS
<1> PICK pc : pc = [i \in D |-> list[i].percent]
  OBVIOUS
<1>1. IsFiniteSet(D) /\ \A i \in D : list[i].percent \in Nat
  BY ListDomain
<1>2. SumFunction(sh) = SumFunctionOnSet(sh, D) /\ SumFunctionOnSet(pc, D) <= 100
  BY DEF SumFunction, Shares, ValidRecipients, PercentSum
<1>3. f[d] \in Nat
  BY DEF Coins
<1>4. \A i \in D : sh[i] \in Nat /\ pc[i] \in Nat /\ 100 * sh[i] <= f[d] * pc[i]
  BY <1>1, ShareBound DEF Shares
<1>5. SumFunctionOnSet(sh, D) \in Nat /\ SumFunctionOnSet(pc, D) \in Nat
  BY <1>1, <1>4, SumNat
<1>6. 100 * SumFunctionOnSet(sh, D) <= f[d] * SumFunctionOnSet(pc, D)
  <2>1. \A i \in D : sh[i] \in Int /\ pc[i] \in Int /\ 100 * sh[i] <= f[d] * pc[i]
    BY <1>4
  <2>2. f[d] \in Int /\ 100 \in Int
    BY <1>3
  <2> QED
    BY <1>1, <2>1, <2>2, SumScaled
<1>7. f[d] * SumFunctionOnSet(pc, D) <= f[d] * 100
  <2> PICK n : n = SumFunctionOnSet(pc, D)
    OBVIOUS
  <2>1. n \in Nat /\ n <= 100
    BY <1>2, <1>5
  <2> QED
    BY <1>3, <2>1
<1> QED
  <2> PICK n, t, fd : n = SumFunctionOnSet(sh, D) /\ t = f[d] * SumFunctionOnSet(pc, D) /\ fd = f[d]
    OBVIOUS
  <2>1. 100 * n <= t /\ t <= fd * 100 /\ n \in Nat /\ fd \in Nat /\ t \in Int
    BY <1>3, <1>5, <1>6, <1>7
  <2>2. n <= fd
    BY <2>1
  <2> QED
    BY <1>2, <2>1, <2>2

----------------------------------------------------------------------------
\* The payments up to the k-th that go to this address, and what is in them.
Addressed(msgs, k, a) == {i \in 1..k : msgs[i].to = a}
Amounts(msgs, d) == [i \in 1..Len(msgs) |-> msgs[i].coins[d]]

\* A list of payments, each of coins.
CoinList(msgs) ==
  /\ Len(msgs) \in Nat
  /\ \A i \in 1..Len(msgs) : msgs[i].coins \in Coins

\* The payments up to the k-th have this effect, together.
PaidUpTo(b, paidIn, msgs, k) ==
  \A a \in Accounts, d \in Denoms :
    b[a][d] = paidIn[a][d] + SumFunctionOnSet(Amounts(msgs, d), Addressed(msgs, k, a))
                - (IF a = Contract THEN SumFunctionOnSet(Amounts(msgs, d), 1..k) ELSE 0)

PaymentTo(b, m) == Transfer(b, Contract, m.to, m.coins)

\* The sums over the first payments are amounts, and the k-th is on top of them.
LEMMA FirstPayments ==
  ASSUME NEW msgs, CoinList(msgs), NEW k \in 0..Len(msgs), NEW d \in Denoms, NEW a
  PROVE  /\ SumFunctionOnSet(Amounts(msgs, d), 1..k) \in Nat
         /\ SumFunctionOnSet(Amounts(msgs, d), Addressed(msgs, k, a)) \in Nat
         /\ k > 0 =>
              /\ SumFunctionOnSet(Amounts(msgs, d), 1..k)
                   = SumFunctionOnSet(Amounts(msgs, d), 1..(k-1)) + msgs[k].coins[d]
              /\ SumFunctionOnSet(Amounts(msgs, d), Addressed(msgs, k, a))
                   = SumFunctionOnSet(Amounts(msgs, d), Addressed(msgs, k - 1, a))
                       + (IF a = msgs[k].to THEN msgs[k].coins[d] ELSE 0)
<1> PICK n : n = Len(msgs)
  OBVIOUS
<1> PICK h, now, old :
      h = Amounts(msgs, d) /\ now = Addressed(msgs, k, a) /\ old = Addressed(msgs, k - 1, a)
  OBVIOUS
<1>1. n \in Nat /\ k \in Nat /\ k <= n /\ IsFiniteSet(1..k)
  BY FS_Interval DEF CoinList
<1>2. \A i \in 1..n : h[i] = msgs[i].coins[d] /\ h[i] \in Nat
  BY DEF Amounts, CoinList, Coins
<1>3. \A i \in 1..k : h[i] \in Nat
  BY <1>1, <1>2
<1>4. IsFiniteSet(now) /\ now \subseteq 1..k
  <2>1. now \subseteq 1..k
    BY DEF Addressed
  <2> QED
    BY <1>1, <2>1, FS_Subset
<1>5. SumFunctionOnSet(h, 1..k) \in Nat /\ SumFunctionOnSet(h, now) \in Nat
  <2>1. \A i \in now : h[i] \in Nat
    BY <1>3, <1>4
  <2> QED
    BY <1>1, <1>3, <1>4, <2>1, SumNat
<1>6. ASSUME k > 0
      PROVE  SumFunctionOnSet(h, 1..k) = SumFunctionOnSet(h, 1..(k-1)) + h[k]
  <2>1. k \in Nat \ {0} /\ \A i \in 1..k : h[i] \in Int
    BY <1>1, <1>3, <1>6
  <2>2. /\ SumFunctionOnSet(h, 1..k) = h[k] + SumFunctionOnSet(h, 1..(k-1))
        /\ SumFunctionOnSet(h, 1..(k-1)) \in Int
    BY <2>1, SumLast
  <2>3. h[k] \in Int
    BY <2>1
  <2> QED
    BY <2>2, <2>3
<1>7. ASSUME k > 0
      PROVE  SumFunctionOnSet(h, now) = SumFunctionOnSet(h, old) + (IF a = msgs[k].to THEN h[k] ELSE 0)
  <2>1. k \in 1..k /\ h[k] \in Int /\ (1..k) \ {k} = 1..(k-1)
    BY <1>1, <1>3, <1>7
  <2>2. CASE a = msgs[k].to
    <3>1. k \in now /\ now \ {k} = old
      BY <2>1, <2>2 DEF Addressed
    <3>2. \A i \in now : h[i] \in Int
      BY <1>3, <1>4
    <3>3. SumFunctionOnSet(h, now) = h[k] + SumFunctionOnSet(h, now \ {k})
      BY <1>4, <3>1, <3>2, SumRemove
    <3>4. SumFunctionOnSet(h, old) \in Int
      <4>1. IsFiniteSet(old) /\ \A i \in old : h[i] \in Int
        BY <1>4, <3>1, <3>2, FS_RemoveElement
      <4> QED
        BY <4>1, SumType
    <3>5. SumFunctionOnSet(h, now) = SumFunctionOnSet(h, old) + h[k]
      <4> PICK u, v, w :
            u = SumFunctionOnSet(h, now) /\ v = SumFunctionOnSet(h, old) /\ w = h[k]
        OBVIOUS
      <4>1. u = w + v /\ w \in Int /\ v \in Int
        BY <2>1, <3>1, <3>3, <3>4
      <4>2. u = v + w
        BY <4>1
      <4> QED
        BY <4>2
    <3> QED
      BY <2>2, <3>5
  <2>3. CASE a # msgs[k].to
    <3>1. now = old
      BY <2>1, <2>3 DEF Addressed
    <3> QED
      BY <1>5, <2>3, <3>1
  <2> QED
    BY <2>2, <2>3
<1>8. k > 0 => h[k] = msgs[k].coins[d]
  BY <1>1, <1>2
<1> QED
  BY <1>5, <1>6, <1>7, <1>8

\* One payment more.
LEMMA NextPayment ==
  ASSUME NEW msgs, CoinList(msgs), NEW k \in 1..Len(msgs), NEW b \in [Accounts -> Coins],
         NEW paidIn \in [Accounts -> Coins], PaidUpTo(b, paidIn, msgs, k - 1)
  PROVE  PaidUpTo(PaymentTo(b, msgs[k]), paidIn, msgs, k)
<1> SUFFICES ASSUME NEW a \in Accounts, NEW d \in Denoms
             PROVE  PaymentTo(b, msgs[k])[a][d]
                      = paidIn[a][d] + SumFunctionOnSet(Amounts(msgs, d), Addressed(msgs, k, a))
                          - (IF a = Contract THEN SumFunctionOnSet(Amounts(msgs, d), 1..k) ELSE 0)
  BY DEF PaidUpTo
<1> PICK x, all, some, before, to :
      /\ x = msgs[k].coins[d] /\ to = msgs[k].to
      /\ all = SumFunctionOnSet(Amounts(msgs, d), 1..(k-1))
      /\ some = SumFunctionOnSet(Amounts(msgs, d), Addressed(msgs, k - 1, a))
      /\ before = paidIn[a][d]
  OBVIOUS
<1>1. k \in 0..Len(msgs) /\ k - 1 \in 0..Len(msgs) /\ k > 0
  BY DEF CoinList
<1>2. all \in Nat /\ some \in Nat
  BY <1>1, FirstPayments
<1>3. /\ SumFunctionOnSet(Amounts(msgs, d), 1..k) = all + x
      /\ SumFunctionOnSet(Amounts(msgs, d), Addressed(msgs, k, a)) = some + (IF a = to THEN x ELSE 0)
  BY <1>1, FirstPayments
<1>4. x \in Nat /\ before \in Nat /\ b[a][d] \in Nat
  BY DEF CoinList, Coins
<1>5. b[a][d] = before + some - (IF a = Contract THEN all ELSE 0)
  BY DEF PaidUpTo
<1>6. PaymentTo(b, msgs[k])[a][d] = b[a][d] + (IF a = to THEN x ELSE 0) - (IF a = Contract THEN x ELSE 0)
  BY <1>4 DEF PaymentTo, Transfer
<1> PICK p, q, r : /\ p = (IF a = to THEN x ELSE 0) /\ q = (IF a = Contract THEN x ELSE 0)
                   /\ r = (IF a = Contract THEN all ELSE 0)
  OBVIOUS
<1>7. p \in Nat /\ q \in Nat /\ r \in Nat /\ (IF a = Contract THEN all + x ELSE 0) = r + q
  BY <1>2, <1>4
<1>8. PaymentTo(b, msgs[k])[a][d] = before + (some + p) - (r + q)
  <2> PICK y, z : y = b[a][d] /\ z = PaymentTo(b, msgs[k])[a][d]
    OBVIOUS
  <2>1. y = before + some - r /\ z = y + p - q
    BY <1>5, <1>6
  <2>2. z = before + (some + p) - (r + q)
    <3>1. before \in Int /\ some \in Int /\ p \in Int /\ q \in Int /\ r \in Int
      BY <1>2, <1>4, <1>7
    <3> QED
      BY <2>1, <3>1
  <2> QED
    BY <2>2
<1> QED
  BY <1>3, <1>7, <1>8

----------------------------------------------------------------------------
\* The payments of a Send: a share to each recipient, and what they leave, if it is
\* anything, to the sender.
SendOf(msgs, s, f) ==
  LET n == Len(recipients)
      left == Remainder(f, recipients)
  IN  /\ n \in Nat /\ left \in Coins
      /\ Len(msgs) = n + (IF IsEmpty(left) THEN 0 ELSE 1)
      /\ \A i \in 1..n : /\ msgs[i].to = recipients[i].addr
                        /\ msgs[i].coins = Share(f, recipients[i].percent)
                        /\ msgs[i].named = Named(f)
      /\ ~IsEmpty(left) => /\ msgs[n + 1].to = s
                           /\ msgs[n + 1].coins = left
                           /\ msgs[n + 1].named = Named(left)

LEMMA RemainderType ==
  ASSUME StoreType, NEW f \in Coins
  PROVE  Remainder(f, recipients) \in Coins
<1> PICK list : list = recipients
  OBVIOUS
<1>1. list \in RecipientLists /\ ValidRecipients(list)
  BY DEF StoreType
<1>2. ASSUME NEW d \in Denoms
      PROVE  f[d] - SumFunction(Shares(f, list, d)) \in Nat
  <2>1. f[d] \in Nat
    BY DEF Coins
  <2>2. SumFunction(Shares(f, list, d)) \in Nat /\ SumFunction(Shares(f, list, d)) <= f[d]
    BY <1>1, SharesBound
  <2> QED
    BY <2>1, <2>2
<1> QED
  BY <1>2 DEF Remainder, Coins

LEMMA MessagesOfSend ==
  ASSUME StoreType, NEW s \in Users, NEW f \in Coins
  PROVE  SendOf(Messages(s, f), s, f)
<1> PICK n, left : n = Len(recipients) /\ left = Remainder(f, recipients)
  OBVIOUS
<1>1. n \in Nat /\ DOMAIN recipients = 1..n
  BY ListDomain DEF StoreType
<1>2. left \in Coins
  BY RemainderType
<1> PICK A : A = [i \in 1..n |-> [to |-> recipients[i].addr, coins |-> Share(f, recipients[i].percent),
                                  named |-> Named(f)]]
  OBVIOUS
<1> PICK last : last = [to |-> s, coins |-> left, named |-> Named(left)]
  OBVIOUS
<1> PICK B : B = IF IsEmpty(left) THEN <<>> ELSE <<last>>
  OBVIOUS
<1> PICK X : X = {A[i] : i \in 1..n} \cup {last}
  OBVIOUS
<1>3. Messages(s, f) = A \o B
  BY <1>1 DEF Messages
<1>4. A \in Seq(X) /\ Len(A) = n
  BY <1>1
<1>5. B \in Seq(X) /\ Len(B) = (IF IsEmpty(left) THEN 0 ELSE 1) /\ (~IsEmpty(left) => B[1] = last)
  <2>1. CASE IsEmpty(left)
    BY <2>1
  <2>2. CASE ~IsEmpty(left)
    <3>1. <<last>> \in Seq(X) /\ Len(<<last>>) = 1 /\ <<last>>[1] = last
      OBVIOUS
    <3> QED
      BY <2>2, <3>1
  <2> QED
    BY <2>1, <2>2
<1>6. /\ Len(A \o B) = n + Len(B)
      /\ \A i \in 1..n : (A \o B)[i] = A[i]
      /\ ~IsEmpty(left) => (A \o B)[n + 1] = B[1]
  BY <1>1, <1>4, <1>5
<1> QED
  BY <1>1, <1>2, <1>3, <1>5, <1>6 DEF SendOf

LEMMA SendIsCoinList ==
  ASSUME StoreType, NEW s, NEW f \in Coins, NEW msgs, SendOf(msgs, s, f)
  PROVE  CoinList(msgs)
<1> PICK n, left : n = Len(recipients) /\ left = Remainder(f, recipients)
  OBVIOUS
<1>1. /\ n \in Nat /\ left \in Coins
      /\ Len(msgs) = n + (IF IsEmpty(left) THEN 0 ELSE 1)
      /\ \A i \in 1..n : msgs[i].coins = Share(f, recipients[i].percent)
      /\ ~IsEmpty(left) => msgs[n + 1].coins = left
  BY DEF SendOf
<1>2. \A i \in 1..n : recipients[i].percent \in Nat
  BY ListDomain DEF StoreType
<1>3. ASSUME NEW i \in 1..n
      PROVE  msgs[i].coins \in Coins
  <2>1. \A d \in Denoms : Share(f, recipients[i].percent)[d] \in Nat
    BY <1>2, ShareBound
  <2>2. Share(f, recipients[i].percent) = [d \in Denoms |-> Share(f, recipients[i].percent)[d]]
    BY DEF Share
  <2>3. Share(f, recipients[i].percent) \in Coins
    BY <2>1, <2>2 DEF Coins
  <2> QED
    BY <1>1, <2>3
<1>4. CASE IsEmpty(left)
  BY <1>1, <1>3, <1>4 DEF CoinList
<1>5. CASE ~IsEmpty(left)
  <2>1. Len(msgs) = n + 1 /\ \A i \in 1..(n + 1) : i \in 1..n \/ i = n + 1
    BY <1>1, <1>5
  <2> QED
    BY <1>1, <1>3, <1>5, <2>1 DEF CoinList
<1> QED
  BY <1>4, <1>5

\* What recipients are owed, each and together.
Owed(f, d, a) == SumFunctionOnSet(Shares(f, recipients, d), {i \in DOMAIN recipients : recipients[i].addr = a})
Total(f, d) == SumFunction(Shares(f, recipients, d))

\* All payments of a Send together are of the funds; an address gets what it is owed,
\* and the sender what is left.
LEMMA SendInAll ==
  ASSUME StoreType, NEW s, NEW f \in Coins, NEW msgs, SendOf(msgs, s, f), NEW d \in Denoms, NEW a
  PROVE  /\ SumFunctionOnSet(Amounts(msgs, d), 1..Len(msgs)) = f[d]
         /\ SumFunctionOnSet(Amounts(msgs, d), Addressed(msgs, Len(msgs), a))
              = Owed(f, d, a) + (IF a = s THEN f[d] - Total(f, d) ELSE 0)
         /\ Owed(f, d, a) \in Nat /\ Total(f, d) \in Nat /\ f[d] \in Nat
<1> PICK n, left, sh, h, named :
      /\ n = Len(recipients) /\ left = Remainder(f, recipients) /\ sh = Shares(f, recipients, d)
      /\ h = Amounts(msgs, d) /\ named = Addressed(msgs, n, a)
  OBVIOUS
<1>1. /\ n \in Nat /\ left \in Coins
      /\ Len(msgs) = n + (IF IsEmpty(left) THEN 0 ELSE 1)
      /\ \A i \in 1..n : msgs[i].coins = Share(f, recipients[i].percent) /\ msgs[i].to = recipients[i].addr
      /\ ~IsEmpty(left) => msgs[n + 1].coins = left /\ msgs[n + 1].to = s
  BY DEF SendOf
<1>2. DOMAIN recipients = 1..n /\ IsFiniteSet(1..n) /\ \A i \in 1..n : recipients[i].percent \in Nat
  BY ListDomain DEF StoreType
<1>3. CoinList(msgs) /\ Len(msgs) \in Nat /\ n \in 0..Len(msgs)
  BY <1>1, SendIsCoinList DEF CoinList
<1>4. \A i \in 1..n : sh[i] = h[i] /\ h[i] \in Int
  <2>1. \A i \in 1..n : sh[i] = Share(f, recipients[i].percent)[d]
    BY <1>2 DEF Shares
  <2>2. \A i \in 1..n : h[i] = msgs[i].coins[d]
    BY <1>3 DEF Amounts
  <2>3. \A i \in 1..n : Share(f, recipients[i].percent)[d] \in Nat
    BY <1>2, ShareBound
  <2> QED
    BY <1>1, <2>1, <2>2, <2>3
<1>5. named \in SUBSET (1..n) /\ {i \in DOMAIN recipients : recipients[i].addr = a} = named
  BY <1>1, <1>2 DEF Addressed
<1>6. SumFunctionOnSet(h, 1..n) = Total(f, d)
  <2>1. Total(f, d) = SumFunctionOnSet(sh, 1..n)
    BY <1>2 DEF Total, SumFunction, Shares
  <2> QED
    BY <1>2, <1>4, <2>1, SumSame
<1>7. SumFunctionOnSet(h, named) = Owed(f, d, a)
  <2>1. IsFiniteSet(named) /\ \A i \in named : sh[i] = h[i] /\ h[i] \in Int
    BY <1>2, <1>4, <1>5, FS_Subset
  <2>2. SumFunctionOnSet(h, named) = SumFunctionOnSet(sh, named)
    BY <2>1, SumSame
  <2> QED
    BY <1>5, <2>2 DEF Owed
<1>8. Total(f, d) \in Nat /\ Owed(f, d, a) \in Nat
  <2>1. /\ SumFunctionOnSet(h, 1..n) \in Nat
        /\ SumFunctionOnSet(h, named) \in Nat
    BY <1>3, FirstPayments
  <2> QED
    BY <1>6, <1>7, <2>1
<1>9. f[d] \in Nat /\ left[d] = f[d] - Total(f, d) /\ left[d] \in Nat
  BY <1>1 DEF Coins, Remainder, Total
<1>10. CASE IsEmpty(left)
  <2>1. Len(msgs) = n
    BY <1>1, <1>10
  <2>2. left[d] = 0
    BY <1>10 DEF IsEmpty
  <2>3. f[d] = Total(f, d) /\ f[d] - Total(f, d) = 0
    BY <1>8, <1>9, <2>2
  <2>4. Owed(f, d, a) + (IF a = s THEN f[d] - Total(f, d) ELSE 0) = Owed(f, d, a)
    BY <1>8, <2>3
  <2> QED
    BY <1>6, <1>7, <1>8, <1>9, <2>1, <2>3, <2>4
<1>11. CASE ~IsEmpty(left)
  <2>1. Len(msgs) = n + 1 /\ n + 1 \in 0..Len(msgs) /\ n + 1 > 0 /\ (n + 1) - 1 = n
    BY <1>1, <1>11
  <2>2. msgs[n + 1].coins = left /\ msgs[n + 1].to = s
    BY <1>1, <1>11
  <2>3. /\ SumFunctionOnSet(h, 1..(n + 1)) = SumFunctionOnSet(h, 1..n) + left[d]
        /\ SumFunctionOnSet(h, Addressed(msgs, n + 1, a))
             = SumFunctionOnSet(h, named) + (IF a = s THEN left[d] ELSE 0)
    <3> PICK k : k = n + 1
      OBVIOUS
    <3>1. k \in 0..Len(msgs) /\ k > 0 /\ k - 1 = n
      BY <2>1
    <3>2. /\ SumFunctionOnSet(h, 1..k) = SumFunctionOnSet(h, 1..(k-1)) + msgs[k].coins[d]
          /\ SumFunctionOnSet(h, Addressed(msgs, k, a))
               = SumFunctionOnSet(h, Addressed(msgs, k - 1, a)) + (IF a = msgs[k].to THEN msgs[k].coins[d] ELSE 0)
      BY <1>3, <3>1, FirstPayments
    <3> QED
      BY <2>2, <3>1, <3>2
  <2>4. SumFunctionOnSet(h, 1..(n + 1)) = f[d]
    BY <1>6, <1>8, <1>9, <2>3
  <2> QED
    BY <1>7, <1>8, <1>9, <2>1, <2>3, <2>4
<1> QED
  BY <1>10, <1>11

----------------------------------------------------------------------------
\* The first payments are no more than all of them.
LEMMA SomePayments ==
  ASSUME NEW msgs, CoinList(msgs), NEW k \in 0..Len(msgs), NEW d \in Denoms
  PROVE  SumFunctionOnSet(Amounts(msgs, d), 1..k) <= SumFunctionOnSet(Amounts(msgs, d), 1..Len(msgs))
<1> PICK S, R, h : S = 1..Len(msgs) /\ R = 1..k /\ h = Amounts(msgs, d)
  OBVIOUS
<1> PICK g : g = [i \in S |-> IF i \in R THEN h[i] ELSE 0]
  OBVIOUS
<1>1. IsFiniteSet(S) /\ R \in SUBSET S
  <2>1. Len(msgs) \in Nat
    BY DEF CoinList
  <2> QED
    BY <2>1, FS_Interval
<1>2. \A i \in S : h[i] \in Nat
  BY DEF Amounts, CoinList, Coins
<1>3. SumFunctionOnSet(g, S) <= SumFunctionOnSet(h, S)
  <2>1. \A i \in S : g[i] \in Int /\ h[i] \in Int /\ g[i] <= h[i]
    BY <1>2
  <2> QED
    BY <1>1, <2>1, SumMonotonic
<1>4. SumFunctionOnSet(g, S) = SumFunctionOnSet(h, R)
  <2>1. /\ \A i \in R : g[i] \in Int /\ h[i] = g[i]
        /\ \A i \in S \ R : g[i] = 0
    BY <1>1, <1>2
  <2> QED
    BY <1>1, <2>1, SumRestricted
<1> QED
  BY <1>3, <1>4

\* No payment of a Send is for more than is there.
LEMMA PaymentFits ==
  ASSUME StoreType, NEW s \in Users, NEW f \in Coins, NEW msgs, SendOf(msgs, s, f),
         NEW undo \in [Accounts -> Coins], NEW b, NEW k \in 1..Len(msgs),
         PaidUpTo(b, Transfer(undo, s, Contract, f), msgs, k - 1)
  PROVE  Covers(b[Contract], msgs[k].coins)
<1> SUFFICES ASSUME NEW d \in Denoms
             PROVE  msgs[k].coins[d] <= b[Contract][d]
  BY DEF Covers
<1> PICK all, to, x, held, funds :
      /\ all = SumFunctionOnSet(Amounts(msgs, d), 1..(k-1))
      /\ to = SumFunctionOnSet(Amounts(msgs, d), Addressed(msgs, k - 1, Contract))
      /\ x = msgs[k].coins[d] /\ held = undo[Contract][d] /\ funds = f[d]
  OBVIOUS
<1>1. CoinList(msgs)
  BY SendIsCoinList
<1>2. k \in 0..Len(msgs) /\ k - 1 \in 0..Len(msgs) /\ k > 0
  BY <1>1 DEF CoinList
<1>3. all \in Nat /\ to \in Nat /\ SumFunctionOnSet(Amounts(msgs, d), 1..k) = all + x
  BY <1>1, <1>2, FirstPayments
<1>4. all + x <= funds
  <2>1. SumFunctionOnSet(Amounts(msgs, d), 1..k) <= SumFunctionOnSet(Amounts(msgs, d), 1..Len(msgs))
    BY <1>1, <1>2, SomePayments
  <2>2. /\ SumFunctionOnSet(Amounts(msgs, d), 1..Len(msgs)) = f[d]
        /\ SumFunctionOnSet(Amounts(msgs, d), Addressed(msgs, Len(msgs), s))
             = Owed(f, d, s) + (IF s = s THEN f[d] - Total(f, d) ELSE 0)
        /\ Owed(f, d, s) \in Nat /\ Total(f, d) \in Nat /\ f[d] \in Nat
    BY SendInAll
  <2> QED
    BY <1>3, <2>1, <2>2
<1>5. held \in Nat /\ funds \in Nat /\ x \in Nat
  BY <1>1, SplitterAssumption DEF Coins, CoinList
<1>6. Transfer(undo, s, Contract, f)[Contract][d] = held + funds
  BY SplitterAssumption DEF Transfer
<1>7. b[Contract][d] = (held + funds) + to - all
  BY <1>6, SplitterAssumption DEF PaidUpTo
<1> PICK y : y = b[Contract][d]
  OBVIOUS
<1>8. x <= y
  <2>1. y = (held + funds) + to - all
    BY <1>7
  <2>2. x <= (held + funds) + to - all
    <3>1. \A i, j, k1, l, m \in Nat : i + j <= k1 => j <= (l + k1) + m - i
      OBVIOUS
    <3> QED
      BY <1>3, <1>4, <1>5, <3>1
  <2> QED
    BY <2>1, <2>2
<1> QED
  BY <1>8

\* When all payments are made, the balances are what direct payments make of them.
LEMMA AllPaid ==
  ASSUME StoreType, NEW s \in Users, NEW f \in Coins, NEW msgs, SendOf(msgs, s, f),
         NEW undo \in [Accounts -> Coins], NEW b \in [Accounts -> Coins],
         PaidUpTo(b, Transfer(undo, s, Contract, f), msgs, Len(msgs))
  PROVE  b = DirectPayment(undo, s, f)
<1> PICK direct : direct = DirectPayment(undo, s, f)
  OBVIOUS
<1>1. ASSUME NEW a \in Accounts, NEW d \in Denoms
      PROVE  b[a][d] = direct[a][d] /\ b[a][d] \in Int
  <2> PICK owed, total, funds, held :
        owed = Owed(f, d, a) /\ total = Total(f, d) /\ funds = f[d] /\ held = undo[a][d]
    OBVIOUS
  <2>1. /\ SumFunctionOnSet(Amounts(msgs, d), 1..Len(msgs)) = funds
        /\ SumFunctionOnSet(Amounts(msgs, d), Addressed(msgs, Len(msgs), a))
             = owed + (IF a = s THEN funds - total ELSE 0)
        /\ owed \in Nat /\ total \in Nat /\ funds \in Nat
    BY SendInAll
  <2>2. b[a][d] = Transfer(undo, s, Contract, f)[a][d] + (owed + (IF a = s THEN funds - total ELSE 0))
                    - (IF a = Contract THEN funds ELSE 0)
    BY <2>1 DEF PaidUpTo
  <2>3. held \in Nat /\ s # Contract /\ s \in Accounts
    BY SplitterAssumption DEF Coins
  <2>4. Transfer(undo, s, Contract, f)[a][d]
          = IF a = s THEN held - funds ELSE IF a = Contract THEN held + funds ELSE held
    BY <2>3 DEF Transfer
  <2>5. direct[a][d] = held + owed - (IF a = s THEN total ELSE 0)
    BY DEF DirectPayment, Owed, Total
  <2>6. CASE a = s
    <3>1. b[a][d] = (held - funds) + (owed + (funds - total)) - 0 /\ direct[a][d] = held + owed - total
      BY <2>2, <2>3, <2>4, <2>5, <2>6
    <3>2. (held - funds) + (owed + (funds - total)) - 0 = held + owed - total /\ held + owed - total \in Int
      BY <2>1, <2>3
    <3> QED
      BY <3>1, <3>2
  <2>7. CASE a = Contract
    <3>1. b[a][d] = (held + funds) + (owed + 0) - funds /\ direct[a][d] = held + owed - 0
      BY <2>2, <2>3, <2>4, <2>5, <2>7
    <3>2. (held + funds) + (owed + 0) - funds = held + owed - 0 /\ held + owed - 0 \in Int
      BY <2>1, <2>3
    <3> QED
      BY <3>1, <3>2
  <2>8. CASE a # s /\ a # Contract
    <3>1. b[a][d] = held + (owed + 0) - 0 /\ direct[a][d] = held + owed - 0
      BY <2>2, <2>4, <2>5, <2>8
    <3>2. held + (owed + 0) - 0 = held + owed - 0 /\ held + owed - 0 \in Int
      BY <2>1, <2>3
    <3> QED
      BY <3>1, <3>2
  <2> QED
    BY <2>6, <2>7, <2>8
<1>2. b \in Purses
  BY DEF Coins, Purses
<1>3. direct \in Purses
  <2>1. direct = [a \in Accounts |-> [d \in Denoms |-> direct[a][d]]]
    BY DEF DirectPayment
  <2>2. \A a \in Accounts, d \in Denoms : direct[a][d] \in Int
    BY <1>1
  <2> QED
    BY <2>1, <2>2 DEF Purses
<1> QED
  BY <1>1, <1>2, <1>3, SamePurse

----------------------------------------------------------------------------
\* A payment that went through had a recipient, and no coin of amount 0 if the bank
\* insists on that.
WentThrough(m) ==
  m.to \in Accounts /\ (ZeroCoinsRefused => \A d \in m.named : m.coins[d] > 0)

\* While a Send is carried out: the payments made so far account for the balances.
UnderWay ==
  /\ tx \in [sender : Users, funds : Funds, undo : [Accounts -> Coins], messages : {tx.messages},
             sent : 0..Len(tx.messages)]
  /\ SendOf(tx.messages, tx.sender, tx.funds)
  /\ PaidUpTo(bank, Transfer(tx.undo, tx.sender, Contract, tx.funds), tx.messages, tx.sent)
  /\ Covers(tx.undo[tx.sender], tx.funds)
  /\ \A i \in 1..tx.sent : WentThrough(tx.messages[i])

MoneyInv == ListsInv /\ bank \in [Accounts -> Coins] /\ (tx # NoTx => UnderWay)

LEMMA FundsType == \A f \in Funds \cup {NoCoins} : f \in Coins
BY SplitterAssumption DEF NoCoins, Coins

LEMMA ReceivedType ==
  ASSUME bank \in [Accounts -> Coins], NEW s \in Users, NEW f \in Coins, Covers(bank[s], f)
  PROVE  Received(s, f) \in [Accounts -> Coins]
BY SplitterAssumption, TransferType DEF Received

LEMMA InitMoney == Init => MoneyInv
<1> SUFFICES ASSUME Init
             PROVE  MoneyInv
  OBVIOUS
<1>1. ListsInv
  BY InitLists
<1>2. bank \in [Accounts -> Coins]
  BY SplitterAssumption DEF Init, NoCoins, Coins
<1>3. tx = NoTx
  BY DEF Init
<1> QED
  BY <1>1, <1>2, <1>3 DEF MoneyInv

\* The start of a Send.
LEMMA SendStarts ==
  ASSUME MoneyInv, NEW s \in Users, NEW f \in Funds \cup {NoCoins}, Send(s, f)
  PROVE  bank' \in [Accounts -> Coins] /\ UnderWay' /\ f \in Funds /\ tx'.undo = bank
<1> PICK msgs, paidIn : msgs = Messages(s, f) /\ paidIn = Transfer(bank, s, Contract, f)
  OBVIOUS
<1>1. f \in Funds /\ f \in Coins /\ Covers(bank[s], f)
  BY FundsType DEF Send, Execute, IsEmpty, NoCoins
<1>2. StoreType /\ bank \in [Accounts -> Coins]
  BY DEF MoneyInv, ListsInv
<1>3. bank' = paidIn /\ paidIn \in [Accounts -> Coins]
  BY <1>1, <1>2, ReceivedType DEF Send, Received
<1>4. /\ tx' = [sender |-> s, funds |-> f, undo |-> bank, messages |-> msgs, sent |-> 0]
      /\ recipients' = recipients
  BY DEF Send, config
<1>5. SendOf(msgs, s, f) /\ CoinList(msgs)
  <2>1. SendOf(msgs, s, f)
    BY <1>1, <1>2, MessagesOfSend
  <2> QED
    BY <1>1, <1>2, <2>1, SendIsCoinList
<1>6. SendOf(msgs, s, f)'
  <2>1. SendOf(msgs, s, f)' <=> SendOf(msgs, s, f)
    BY <1>4 DEF SendOf, Remainder
  <2> QED
    BY <1>5, <2>1
<1>7. PaidUpTo(paidIn, paidIn, msgs, 0)
  <2>1. ASSUME NEW a \in Accounts, NEW d \in Denoms
        PROVE  paidIn[a][d] = paidIn[a][d] + SumFunctionOnSet(Amounts(msgs, d), Addressed(msgs, 0, a))
                 - (IF a = Contract THEN SumFunctionOnSet(Amounts(msgs, d), 1..0) ELSE 0)
    <3>1. paidIn[a][d] \in Nat
      BY <1>3 DEF Coins
    <3>2. Addressed(msgs, 0, a) = {} /\ 1..0 = {}
      BY DEF Addressed
    <3>3. /\ SumFunctionOnSet(Amounts(msgs, d), Addressed(msgs, 0, a)) = 0
          /\ SumFunctionOnSet(Amounts(msgs, d), 1..0) = 0
      BY <3>2, SumEmpty
    <3> QED
      BY <3>1, <3>3
  <2> QED
    BY <2>1 DEF PaidUpTo
<1>8. /\ tx'.sender = s /\ tx'.funds = f /\ tx'.undo = bank /\ tx'.messages = msgs /\ tx'.sent = 0
      /\ tx' \in [sender : Users, funds : Funds, undo : [Accounts -> Coins], messages : {msgs},
                  sent : 0..Len(msgs)]
  <2>1. 0 \in 0..Len(msgs)
    BY <1>5 DEF CoinList
  <2> QED
    BY <1>1, <1>2, <1>4, <2>1
<1>9. PaidUpTo(bank, Transfer(tx.undo, tx.sender, Contract, tx.funds), tx.messages, tx.sent)'
  BY <1>3, <1>7, <1>8 DEF PaidUpTo
<1>10. UnderWay'
  BY <1>1, <1>6, <1>8, <1>9 DEF UnderWay, SendOf, Remainder
<1> QED
  BY <1>1, <1>3, <1>8, <1>10

\* A payment of a Send.
LEMMA SendGoesOn ==
  ASSUME MoneyInv, DeliverPayment
  PROVE  bank' \in [Accounts -> Coins] /\ UnderWay' /\ tx'.undo = tx.undo /\ tx' # NoTx
<1> PICK s, f, undo, msgs, n :
      s = tx.sender /\ f = tx.funds /\ undo = tx.undo /\ msgs = tx.messages /\ n = tx.sent
  OBVIOUS
<1> PICK k, m, paidIn : k = n + 1 /\ m = msgs[n + 1] /\ paidIn = Transfer(undo, s, Contract, f)
  OBVIOUS
<1>1. tx # NoTx /\ n < Len(msgs) /\ Sendable(m) /\ recipients' = recipients
  BY DEF DeliverPayment, Waiting, config
<1>2. bank' = PaymentTo(bank, m) /\ tx' = [tx EXCEPT !.sent = @ + 1]
  BY DEF DeliverPayment, PaymentTo
<1>3. /\ tx \in [sender : Users, funds : Funds, undo : [Accounts -> Coins], messages : {msgs}, sent : 0..Len(msgs)]
      /\ SendOf(msgs, s, f) /\ PaidUpTo(bank, paidIn, msgs, n)
      /\ Covers(undo[s], f) /\ \A i \in 1..n : WentThrough(msgs[i])
      /\ StoreType /\ bank \in [Accounts -> Coins]
  BY <1>1 DEF MoneyInv, UnderWay, ListsInv
<1>4. s \in Users /\ f \in Funds /\ f \in Coins /\ undo \in [Accounts -> Coins] /\ n \in 0..Len(msgs)
  BY <1>3, FundsType
<1>5. CoinList(msgs)
  BY <1>3, <1>4, SendIsCoinList
<1>6. k \in 1..Len(msgs) /\ k - 1 = n /\ m = msgs[k] /\ m.coins \in Coins
  BY <1>1, <1>4, <1>5 DEF CoinList
<1>7. bank' \in [Accounts -> Coins]
  BY <1>1, <1>2, <1>3, <1>6, SplitterAssumption, TransferType DEF Sendable, PaymentTo
<1>8. PaidUpTo(PaymentTo(bank, m), paidIn, msgs, k)
  <2>1. paidIn \in [Accounts -> Coins]
    BY <1>3, <1>4, SplitterAssumption, TransferType
  <2> QED
    BY <1>3, <1>5, <1>6, <2>1, NextPayment
<1>9. /\ tx'.sender = s /\ tx'.funds = f /\ tx'.undo = undo /\ tx'.messages = msgs /\ tx'.sent = k
      /\ tx' \in [sender : Users, funds : Funds, undo : [Accounts -> Coins], messages : {msgs},
                  sent : 0..Len(msgs)]
  BY <1>2, <1>3, <1>6
<1>10. PaidUpTo(bank, Transfer(tx.undo, tx.sender, Contract, tx.funds), tx.messages, tx.sent)'
  BY <1>2, <1>8, <1>9 DEF PaidUpTo
<1>11. \A i \in 1..k : WentThrough(msgs[i])
  <2>1. WentThrough(msgs[k])
    BY <1>1, <1>6 DEF Sendable, WentThrough
  <2>2. \A i \in 1..k : i \in 1..n \/ i = k
    BY <1>4, <1>6
  <2> QED
    BY <1>3, <2>1, <2>2
<1>12. SendOf(msgs, s, f)' <=> SendOf(msgs, s, f)
  BY <1>1 DEF SendOf, Remainder
<1>13. UnderWay'
  BY <1>3, <1>9, <1>10, <1>11, <1>12 DEF UnderWay, WentThrough, SendOf, Remainder
<1>14. tx' # NoTx
  <2>1. DOMAIN tx' = {"sender", "funds", "undo", "messages", "sent"} /\ DOMAIN NoTx = {"messages", "sent"}
    BY <1>9 DEF NoTx
  <2> QED
    BY <2>1
<1> QED
  BY <1>7, <1>9, <1>13, <1>14

\* The other messages: coins come in.
LEMMA OtherMessages ==
  ASSUME NEW s \in Users, NEW f \in Funds \cup {NoCoins},
         \/ \E list \in RecipientLists : UpdateRecipients(s, f, list)
         \/ \E lock \in BOOLEAN : UpdateLock(s, f, lock)
         \/ \E module \in AddressListModules \cup {NoList} : UpdateAddressList(s, f, module)
         \/ \E new \in Users : UpdateOwner(s, f, new)
  PROVE  /\ tx = NoTx /\ tx' = NoTx /\ Covers(bank[s], f) /\ bank' = Received(s, f)
BY DEF UpdateRecipients, UpdateLock, UpdateAddressList, UpdateOwner, Execute

LEMMA StepMoney == MoneyInv /\ [Next]_vars => MoneyInv'
<1> SUFFICES ASSUME MoneyInv, [Next]_vars
             PROVE  bank' \in [Accounts -> Coins] /\ (tx' # NoTx => UnderWay')
  BY StepLists DEF MoneyInv
<1>1. ASSUME NEW s \in Users, NEW f \in Funds \cup {NoCoins}, Send(s, f)
      PROVE  bank' \in [Accounts -> Coins] /\ UnderWay'
  BY <1>1, SendStarts
<1>2. ASSUME NEW s \in Users, NEW f \in Funds \cup {NoCoins},
             \/ \E list \in RecipientLists : UpdateRecipients(s, f, list)
             \/ \E lock \in BOOLEAN : UpdateLock(s, f, lock)
             \/ \E module \in AddressListModules \cup {NoList} : UpdateAddressList(s, f, module)
             \/ \E new \in Users : UpdateOwner(s, f, new)
      PROVE  bank' \in [Accounts -> Coins] /\ tx' = NoTx
  <2>1. tx' = NoTx /\ Covers(bank[s], f) /\ bank' = Received(s, f)
    BY <1>2, OtherMessages
  <2>2. f \in Coins /\ bank \in [Accounts -> Coins]
    BY FundsType DEF MoneyInv
  <2> QED
    BY <2>1, <2>2, ReceivedType
<1>3. CASE DeliverPayment
  BY <1>3, SendGoesOn
<1>4. CASE Fail
  <2>1. tx # NoTx /\ bank' = tx.undo /\ tx' = NoTx
    BY <1>4 DEF Fail, Waiting
  <2> QED
    BY <2>1 DEF MoneyInv, UnderWay
<1>5. CASE Commit
  BY <1>5 DEF Commit, MoneyInv
<1>6. CASE ListTransaction
  BY <1>6 DEF ListTransaction, MoneyInv
<1>7. CASE UNCHANGED vars
  <2>1. UNCHANGED <<recipients, bank, tx>>
    BY <1>7 DEF vars
  <2>2. UnderWay => UnderWay'
    BY <2>1 DEF UnderWay, SendOf, Remainder, PaidUpTo, WentThrough
  <2> QED
    BY <2>1, <2>2 DEF MoneyInv
<1> QED
  BY <1>1, <1>2, <1>3, <1>4, <1>5, <1>6, <1>7 DEF Next

----------------------------------------------------------------------------
\* Type correctness, balances included: no payment that the splitter makes takes
\* more from it, or from anyone, than is there.
THEOREM SplitterIsTyped == Spec => []TypeOK
<1>1. MoneyInv => TypeOK
  BY DEF MoneyInv, ListsInv, TypeOK, UnderWay
<1> QED
  BY <1>1, InitMoney, StepMoney, PTL DEF Spec

\* The shares of any configured list fit the funds, coin by coin, whatever the
\* amount: the subtraction of execute_send never underflows.
THEOREM SharesFit == Spec => []SharesNeverExceedFunds
<1>1. ListsInv => SharesNeverExceedFunds
  <2> SUFFICES ASSUME ListsInv, NEW f \in Funds, NEW d \in Denoms
               PROVE  SumFunction(Shares(f, recipients, d)) <= f[d]
    BY DEF SharesNeverExceedFunds
  <2>1. recipients \in RecipientLists /\ ValidRecipients(recipients) /\ f \in Coins
    BY FundsType DEF ListsInv, StoreType
  <2> QED
    BY <2>1, SharesBound
<1> QED
  BY <1>1, InitLists, StepLists, PTL DEF Spec

\* A Send that is through has paid everybody, and as the sender would have.
LEMMA SendEnds ==
  ASSUME MoneyInv, Commit
  PROVE  /\ \A i \in DOMAIN recipients : Payable(tx.funds, recipients[i])
         /\ bank' = DirectPayment(tx.undo, tx.sender, tx.funds)
<1> PICK s, f, undo, msgs, n :
      s = tx.sender /\ f = tx.funds /\ undo = tx.undo /\ msgs = tx.messages /\ n = Len(recipients)
  OBVIOUS
<1>1. tx # NoTx /\ ~(tx.sent < Len(msgs)) /\ bank' = bank
  BY DEF Commit, Waiting
<1>2. /\ tx \in [sender : Users, funds : Funds, undo : [Accounts -> Coins], messages : {msgs}, sent : 0..Len(msgs)]
      /\ SendOf(msgs, s, f) /\ PaidUpTo(bank, Transfer(undo, s, Contract, f), msgs, tx.sent)
      /\ \A i \in 1..tx.sent : WentThrough(msgs[i])
      /\ StoreType /\ bank \in [Accounts -> Coins]
  BY <1>1 DEF MoneyInv, UnderWay, ListsInv
<1>3. s \in Users /\ f \in Coins /\ undo \in [Accounts -> Coins]
  BY <1>2, FundsType
<1>4. tx.sent = Len(msgs)
  <2>1. Len(msgs) \in Nat
    BY <1>2, <1>3, SendIsCoinList DEF CoinList
  <2> QED
    BY <1>1, <1>2, <2>1
<1>5. bank = DirectPayment(undo, s, f)
  BY <1>2, <1>3, <1>4, AllPaid
<1>6. DOMAIN recipients = 1..n
  BY <1>2, ListDomain DEF StoreType
<1>7. ASSUME NEW i \in 1..n
      PROVE  Payable(f, recipients[i])
  <2>1. i \in 1..Len(msgs)
    BY <1>2 DEF SendOf
  <2>2. WentThrough(msgs[i])
    BY <1>2, <1>4, <2>1
  <2>3. /\ msgs[i].to = recipients[i].addr /\ msgs[i].coins = Share(f, recipients[i].percent)
        /\ msgs[i].named = Named(f)
    BY <1>2 DEF SendOf
  <2> QED
    BY <2>2, <2>3 DEF WentThrough, Payable, Named
<1> QED
  BY <1>1, <1>5, <1>6, <1>7

\* A Send that fails had a recipient who could not be paid: the coins are there, and
\* nothing stands against what is left going back to the sender.
LEMMA SendFails ==
  ASSUME MoneyInv, Fail
  PROVE  /\ \E i \in DOMAIN recipients : ~Payable(tx.funds, recipients[i])
         /\ bank' = tx.undo
<1> PICK s, f, undo, msgs, n, k :
      s = tx.sender /\ f = tx.funds /\ undo = tx.undo /\ msgs = tx.messages /\ n = Len(recipients)
      /\ k = tx.sent + 1
  OBVIOUS
<1>1. tx # NoTx /\ tx.sent < Len(msgs) /\ ~Sendable(msgs[k]) /\ bank' = undo
  BY DEF Fail, Waiting
<1>2. /\ tx \in [sender : Users, funds : Funds, undo : [Accounts -> Coins], messages : {msgs}, sent : 0..Len(msgs)]
      /\ SendOf(msgs, s, f) /\ PaidUpTo(bank, Transfer(undo, s, Contract, f), msgs, tx.sent)
      /\ StoreType
  BY <1>1 DEF MoneyInv, UnderWay, ListsInv
<1>3. s \in Users /\ f \in Coins /\ undo \in [Accounts -> Coins] /\ n \in Nat
  BY <1>2, FundsType DEF SendOf
<1>4. k \in 1..Len(msgs) /\ k - 1 = tx.sent
  <2>1. Len(msgs) \in Nat
    BY <1>2, <1>3, SendIsCoinList DEF CoinList
  <2> QED
    BY <1>1, <1>2, <2>1
<1>5. Covers(bank[Contract], msgs[k].coins)
  BY <1>2, <1>3, <1>4, PaymentFits
<1>6. ~WentThrough(msgs[k])
  BY <1>1, <1>5 DEF Sendable, WentThrough
<1>7. k \in 1..n
  <2>1. SUFFICES ASSUME k \notin 1..n
                 PROVE  FALSE
    OBVIOUS
  <2> PICK left : left = Remainder(f, recipients)
    OBVIOUS
  <2>2. ~IsEmpty(left) /\ k = n + 1
    <3>1. Len(msgs) = n + (IF IsEmpty(left) THEN 0 ELSE 1)
      BY <1>2 DEF SendOf
    <3>2. k <= n \/ k = n + 1
      BY <1>3, <1>4, <3>1
    <3> QED
      BY <1>3, <1>4, <2>1, <3>1, <3>2
  <2>3. msgs[k].to = s /\ msgs[k].coins = left /\ msgs[k].named = Named(left)
    BY <1>2, <2>2 DEF SendOf
  <2> QED
    BY <1>3, <1>6, <2>3, SplitterAssumption DEF WentThrough, Named
<1>8. ~Payable(f, recipients[k])
  <2>1. /\ msgs[k].to = recipients[k].addr /\ msgs[k].coins = Share(f, recipients[k].percent)
        /\ msgs[k].named = Named(f)
    BY <1>2, <1>7 DEF SendOf
  <2> QED
    BY <1>6, <2>1 DEF WentThrough, Payable, Named
<1>9. k \in DOMAIN recipients
  BY <1>2, <1>7, ListDomain DEF StoreType
<1> QED
  BY <1>1, <1>8, <1>9

\* What Conduit says of a step.
ConduitStep ==
  /\ tx # NoTx /\ tx' = NoTx =>
       bank' = IF \A i \in DOMAIN recipients : Payable(tx.funds, recipients[i])
               THEN DirectPayment(tx.undo, tx.sender, tx.funds) ELSE tx.undo
  /\ tx' # NoTx => tx'.undo = IF tx = NoTx THEN bank ELSE tx.undo
  /\ tx = NoTx /\ bank' # bank => \E s \in Users, f \in Funds : bank' = Received(s, f)

LEMMA EmptyFunds ==
  ASSUME bank \in [Accounts -> Coins], NEW s
  PROVE  Received(s, NoCoins) = bank
<1> PICK b : b = bank
  OBVIOUS
<1>1. b \in [Accounts -> [Denoms -> Nat]]
  BY DEF Coins
<1>2. Transfer(b, s, Contract, NoCoins) \in Purses /\ b \in Purses
  BY <1>1 DEF Transfer, NoCoins, Purses
<1>3. \A a \in Accounts, d \in Denoms : Transfer(b, s, Contract, NoCoins)[a][d] = b[a][d]
  BY <1>1 DEF Transfer, NoCoins
<1>4. Transfer(b, s, Contract, NoCoins) = b
  BY <1>2, <1>3, SamePurse
<1> QED
  BY <1>4 DEF Received

LEMMA StepConduit == MoneyInv /\ [Next]_vars => [ConduitStep]_vars
<1> SUFFICES ASSUME MoneyInv, Next
             PROVE  ConduitStep
  OBVIOUS
<1>1. ASSUME NEW s \in Users, NEW f \in Funds \cup {NoCoins}, Send(s, f)
      PROVE  ConduitStep
  <2>1. tx = NoTx /\ bank' = Received(s, f)
    BY <1>1 DEF Send, Execute
  <2>2. f \in Funds /\ tx'.undo = bank
    BY <1>1, SendStarts
  <2> QED
    BY <2>1, <2>2 DEF ConduitStep
<1>2. ASSUME NEW s \in Users, NEW f \in Funds \cup {NoCoins},
             \/ \E list \in RecipientLists : UpdateRecipients(s, f, list)
             \/ \E lock \in BOOLEAN : UpdateLock(s, f, lock)
             \/ \E module \in AddressListModules \cup {NoList} : UpdateAddressList(s, f, module)
             \/ \E new \in Users : UpdateOwner(s, f, new)
      PROVE  ConduitStep
  <2>1. tx = NoTx /\ tx' = NoTx /\ bank' = Received(s, f)
    BY <1>2, OtherMessages
  <2>2. f = NoCoins => bank' = bank
    BY <2>1, EmptyFunds DEF MoneyInv
  <2> QED
    BY <2>1, <2>2 DEF ConduitStep
<1>3. CASE DeliverPayment
  <2>1. tx # NoTx
    BY <1>3 DEF DeliverPayment, Waiting
  <2> QED
    BY <1>3, <2>1, SendGoesOn DEF ConduitStep
<1>4. CASE Fail
  <2>1. tx # NoTx /\ tx' = NoTx
    BY <1>4 DEF Fail, Waiting
  <2> QED
    BY <1>4, <2>1, SendFails DEF ConduitStep
<1>5. CASE Commit
  <2>1. tx # NoTx /\ tx' = NoTx
    BY <1>5 DEF Commit
  <2> QED
    BY <1>5, <2>1, SendEnds DEF ConduitStep
<1>6. CASE ListTransaction
  BY <1>6 DEF ListTransaction, ConduitStep
<1> QED
  BY <1>1, <1>2, <1>3, <1>4, <1>5, <1>6 DEF Next

\* Every splitter is a conduit, whatever the recipients, the percentages and the
\* amounts: when a Send is through, it has had the effect of the sender paying every
\* recipient directly, to the coin, and if it fails it has had none, and then because
\* a recipient could not be paid and never for want of coins.
THEOREM SplitterIsConduit == Spec => Conduit
<1>1. MoneyInv /\ [Next]_vars => [ConduitStep]_vars
  BY StepConduit
<1> QED
  BY <1>1, InitMoney, StepMoney, PTL DEF Spec, Conduit, ConduitStep
=============================================================================
