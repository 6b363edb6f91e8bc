---------------------------- MODULE CommonProofs ----------------------------
(***************************************************************************)
(* Facts that the proofs about several contracts need: the type of the     *)
(* address list contracts they consult, what a payment makes of the        *)
(* balances, sums, and what lists of payments, the fee modules and whole   *)
(* sales come to.                                                          *)
(*                                                                         *)
(* A sum is a recursive function over the subsets of a finite set, defined *)
(* by CHOOSE.  That there is such a function, and only one, is proved by   *)
(* induction on finite sets; every induction is an argument from the       *)
(* smallest set for which the claim fails.                                 *)
(***************************************************************************)
EXTENDS AddressList, Bank, Fees, Settlement, Integers, FiniteSetsExt, FiniteSetTheorems, SequenceTheorems,
        WellFoundedInduction, TLAPS

\* A new address list contract has a well-formed state, and no other is touched.
LEMMA InstantiateListType ==
  ASSUME AddressListType, NEW l, NEW s \in Users \cup {Contract}, NEW mods \in ModeratorSets,
         InstantiateList(l, s, mods)
  PROVE  AddressListType'
BY AddressListAssumption DEF AddressListType, ListState, InstantiateList, Save

\* So has every contract after a transaction on one of them.
LEMMA ListNextType == AddressListType /\ ListNext => AddressListType'
<1> SUFFICES ASSUME AddressListType, ListNext
             PROVE  AddressListType'
  OBVIOUS
<1>1. CASE \E l \in ListContracts, s \in Users, mods \in ModeratorSets : InstantiateList(l, s, mods)
  BY <1>1, InstantiateListType
<1>2. ASSUME NEW l \in DOMAIN lists, NEW s \in Users, NEW a \in Users,
             AddAddress(l, s, a) \/ RemoveAddress(l, s, a) \/ UpdateListOwner(l, s, a)
      PROVE  AddressListType'
  BY <1>2 DEF AddressListType, ListState, AddAddress, RemoveAddress, UpdateListOwner
<1> QED
  BY <1>1, <1>2 DEF ListNext

\* The one list a contract that is instantiated with a module starts with.
LEMMA OneListType ==
  ASSUME NEW l \in ListContracts, NEW mods \in SUBSET Users,
         lists = [k \in {l} |-> [owner |-> Contract, moderators |-> mods, included |-> {}]]
  PROVE  AddressListType
<1>1. [owner |-> Contract, moderators |-> mods, included |-> {}] \in ListState
  BY DEF ListState
<1> QED
  BY <1>1 DEF AddressListType

----------------------------------------------------------------------------
\* A payment that the payer can make leaves every account with coins.
LEMMA TransferType ==
  ASSUME NEW b \in [Accounts -> Coins], NEW from \in Accounts, NEW to \in Accounts,
         NEW coins \in Coins, Covers(b[from], coins)
  PROVE  Transfer(b, from, to, coins) \in [Accounts -> Coins]
<1>1. SUFFICES ASSUME NEW a \in Accounts, NEW d \in Denoms
               PROVE  (IF from = to THEN b[a][d]
                       ELSE IF a = from THEN b[a][d] - coins[d]
                       ELSE IF a = to THEN b[a][d] + coins[d]
                       ELSE b[a][d]) \in Nat
  BY DEF Transfer, Coins
<1>2. b[a][d] \in Nat /\ coins[d] \in Nat
  BY DEF Coins
<1>3. a = from => coins[d] <= b[a][d]
  BY DEF Covers
<1> QED
  BY <1>2, <1>3

\* Balances that are the same coin by coin.
Purses == [Accounts -> [Denoms -> Int]]

LEMMA SamePurse ==
  ASSUME NEW p \in Purses, NEW q \in Purses, \A a \in Accounts, d \in Denoms : p[a][d] = q[a][d]
  PROVE  p = q
<1>1. \A a \in Accounts : p[a] = q[a]
  BY DEF Purses
<1> QED
  BY <1>1 DEF Purses

----------------------------------------------------------------------------
\* A property of finite sets that fails, fails for a smallest one.
LEMMA SmallestSet ==
  ASSUME NEW S, IsFiniteSet(S), NEW Bad \in SUBSET SUBSET S, Bad # {}
  PROVE  \E T \in Bad : \A U \in Bad : U \subseteq T => U = T
<1> DEFINE R == StrictSubsetOrdering(S)
<1>1. IsWellFoundedOn(R, SUBSET S)
  BY FS_StrictSubsetOrderingWellFounded, FS_FiniteSubsetsOfFinite
<1>2. \E T \in Bad : \A U \in Bad : ~ (<<U, T>> \in R)
  <2> HIDE DEF R
  <2> QED
    BY <1>1, WFMin
<1> QED
  BY <1>2 DEF StrictSubsetOrdering

\* So does one of natural numbers.
LEMMA SmallestNumber ==
  ASSUME NEW Bad \in SUBSET Nat, Bad # {}
  PROVE  \E k \in Bad : \A j \in Bad : k <= j
<1> PICK n \in Bad : TRUE
  OBVIOUS
<1> DEFINE Up(k) == 0..k
           Ups == {Up(k) : k \in {j \in Bad : j <= n}}
<1>1. IsFiniteSet(Up(n))
  BY FS_Interval
<1>2. Ups \in SUBSET SUBSET Up(n) /\ Ups # {}
  OBVIOUS
<1>3. PICK T \in Ups : \A U \in Ups : U \subseteq T => U = T
  <2> HIDE DEF Ups, Up
  <2> QED
    BY <1>1, <1>2, SmallestSet
<1>4. PICK k \in Bad : k <= n /\ T = Up(k)
  OBVIOUS
<1>5. ASSUME NEW j \in Bad, j < k
      PROVE  FALSE
  <2>1. Up(j) \in Ups /\ Up(j) \subseteq T
    BY <1>4, <1>5
  <2>2. Up(j) = T
    <3> HIDE DEF Up, Ups
    <3> QED
      BY <1>3, <2>1
  <2>3. k \in Up(j)
    BY <1>4, <2>2
  <2> QED
    BY <1>5, <2>3
<1> QED
  BY <1>5

----------------------------------------------------------------------------
\* A fold over the subsets of S: b for the empty set, otherwise a step with the
\* chosen element from the fold of the others.
FoldEq(it, S, b, step, c) ==
  it = [s \in SUBSET S |-> IF s = {} THEN b ELSE step[c[s]][it[s \ {c[s]}]]]

\* There is such a function for every finite set, which is what the definition of
\* a recursive function by CHOOSE takes for granted.
LEMMA FoldExists ==
  ASSUME NEW S, IsFiniteSet(S), NEW V, NEW b \in V, NEW step \in [S -> [V -> V]],
         NEW c \in [(SUBSET S) \ {{}} -> S], \A s \in DOMAIN c : c[s] \in s
  PROVE  \E it \in [SUBSET S -> V] : FoldEq(it, S, b, step, c)
<1> DEFINE Body(it, s) == IF s = {} THEN b ELSE step[c[s]][it[s \ {c[s]}]]
           UpTo(it, n) == \A s \in SUBSET S : Cardinality(s) <= n => it[s] = Body(it, s)
           Solved(n) == \E it \in [SUBSET S -> V] : UpTo(it, n)
           Bad == {n \in 0..Cardinality(S) : ~Solved(n)}
<1>1. \A s \in SUBSET S : IsFiniteSet(s) /\ Cardinality(s) \in Nat /\ Cardinality(s) <= Cardinality(S)
  BY FS_Subset, FS_CardinalityType
<1>2. \A s \in (SUBSET S) \ {{}} : /\ c[s] \in s /\ s \ {c[s]} \in SUBSET S
                                   /\ Cardinality(s \ {c[s]}) = Cardinality(s) - 1
  BY <1>1, FS_RemoveElement
<1>3. \A it \in [SUBSET S -> V], s \in SUBSET S : Body(it, s) \in V
  BY <1>2
<1>4. Cardinality(S) \in Nat
  BY <1>1
<1>5. ASSUME NEW n \in Bad, \A j \in Bad : n <= j
      PROVE  FALSE
  <2>1. CASE n = 0
    <3> DEFINE it == [s \in SUBSET S |-> b]
    <3>1. it \in [SUBSET S -> V]
      OBVIOUS
    <3>2. \A s \in SUBSET S : Cardinality(s) <= 0 => s = {}
      BY <1>1, FS_EmptySet
    <3>3. UpTo(it, 0)
      BY <3>2
    <3> HIDE DEF it, UpTo
    <3> QED
      BY <2>1, <3>1, <3>3
  <2>2. CASE n # 0
    <3>1. n - 1 \in 0..Cardinality(S) /\ Solved(n - 1)
      <4> HIDE DEF Solved
      <4> QED
        BY <1>4, <1>5, <2>2
    <3>2. PICK it \in [SUBSET S -> V] : UpTo(it, n - 1)
      BY <3>1
    <3> DEFINE next == [s \in SUBSET S |-> IF Cardinality(s) <= n - 1 THEN it[s] ELSE Body(it, s)]
    <3>3. next \in [SUBSET S -> V]
      BY <1>3
    <3>4. \A s \in SUBSET S : next[s] = Body(it, s)
      BY <3>2
    <3>5. ASSUME NEW s \in SUBSET S, Cardinality(s) <= n
          PROVE  Body(next, s) = Body(it, s)
      <4>1. CASE s = {}
        BY <4>1
      <4>2. CASE s # {}
        <5>1. s \ {c[s]} \in SUBSET S /\ Cardinality(s \ {c[s]}) <= n - 1
          BY <1>1, <1>2, <1>4, <3>1, <3>5, <4>2
        <5>2. next[s \ {c[s]}] = it[s \ {c[s]}]
          BY <5>1
        <5> QED
          BY <4>2, <5>2
      <4> QED
        BY <4>1, <4>2
    <3>6. UpTo(next, n)
      BY <3>4, <3>5
    <3> HIDE DEF next, UpTo
    <3> QED
      BY <3>3, <3>6
  <2> QED
    BY <2>1, <2>2
<1>6. Bad = {}
  <2> HIDE DEF Bad
  <2>1. Bad \in SUBSET Nat
    BY DEF Bad
  <2> QED
    BY <1>5, <2>1, SmallestNumber
<1>7. PICK it \in [SUBSET S -> V] : UpTo(it, Cardinality(S))
  <2>1. Solved(Cardinality(S))
    <3> HIDE DEF Solved
    <3> QED
      BY <1>4, <1>6
  <2> QED
    BY <2>1
<1>8. \A s \in SUBSET S : it[s] = Body(it, s)
  BY <1>1, <1>7
<1> QED
  BY <1>8 DEF FoldEq

\* There is only one.
LEMMA FoldUnique ==
  ASSUME NEW S, IsFiniteSet(S), NEW T \in SUBSET S, NEW b, NEW step,
         NEW c, \A s \in (SUBSET S) \ {{}} : c[s] \in s,
         NEW f, FoldEq(f, S, b, step, c), NEW g, FoldEq(g, T, b, step, c)
  PROVE  f[T] = g[T]
<1> DEFINE Bad == {s \in SUBSET T : f[s] # g[s]}
<1>1. ASSUME NEW s \in Bad, \A u \in Bad : u \subseteq s => u = s
      PROVE  FALSE
  <2>1. /\ f[s] = IF s = {} THEN b ELSE step[c[s]][f[s \ {c[s]}]]
        /\ g[s] = IF s = {} THEN b ELSE step[c[s]][g[s \ {c[s]}]]
    BY DEF FoldEq
  <2>2. s # {} => f[s \ {c[s]}] = g[s \ {c[s]}]
    <3>1. s # {} => c[s] \in s /\ s \ {c[s]} \in SUBSET T /\ s \ {c[s]} \subseteq s
      OBVIOUS
    <3> QED
      BY <1>1, <3>1
  <2> QED
    BY <2>1, <2>2
<1>2. Bad = {}
  <2> HIDE DEF Bad
  <2>1. IsFiniteSet(T) /\ Bad \in SUBSET SUBSET T
    BY FS_Subset DEF Bad
  <2> QED
    BY <1>1, <2>1, SmallestSet
<1> QED
  BY <1>2

----------------------------------------------------------------------------
ChosenFrom(S) == [s \in (SUBSET S) \ {{}} |-> CHOOSE x \in s : TRUE]

Add(h, S) == [x \in S |-> [n \in Int |-> h[x] + n]]

\* A sum over a finite set is such a fold.
LEMMA SumIsFold ==
  ASSUME NEW S, IsFiniteSet(S), NEW h, \A x \in S : h[x] \in Int
  PROVE  \E it \in [SUBSET S -> Int] : FoldEq(it, S, 0, Add(h, S), ChosenFrom(S)) /\ SumFunctionOnSet(h, S) = it[S]
<1> DEFINE IsSum(it) == it = [s \in SUBSET S |-> IF s = {} THEN 0
                                ELSE LET x == CHOOSE x \in s : TRUE IN h[x] + it[s \ {x}]]
           iter == CHOOSE it : IsSum(it)
<1>1. Add(h, S) \in [S -> [Int -> Int]]
  BY DEF Add
<1>2. ChosenFrom(S) \in [(SUBSET S) \ {{}} -> S] /\ \A s \in DOMAIN ChosenFrom(S) : ChosenFrom(S)[s] \in s
  BY DEF ChosenFrom
<1>3. PICK it \in [SUBSET S -> Int] : FoldEq(it, S, 0, Add(h, S), ChosenFrom(S))
  <2> PICK step, c : step = Add(h, S) /\ c = ChosenFrom(S)
    OBVIOUS
  <2>1. 0 \in Int
    OBVIOUS
  <2> QED
    BY <1>1, <1>2, <2>1, FoldExists
<1>4. IsSum(it)
  BY <1>3 DEF FoldEq, Add, ChosenFrom
<1>5. IsSum(iter)
  <2> HIDE DEF IsSum
  <2> QED
    BY <1>4
<1>6. SumFunctionOnSet(h, S) = iter[S]
  BY DEF SumFunctionOnSet, FoldFunctionOnSet, MapThenFoldSet
<1>7. iter[S] = it[S]
  <2> HIDE DEF iter
  <2> DEFINE Bad == {s \in SUBSET S : iter[s] # it[s]}
  <2>1. ASSUME NEW s \in Bad, \A u \in Bad : u \subseteq s => u = s
        PROVE  FALSE
    <3>1. /\ s = {} => iter[s] = it[s]
          /\ LET x == CHOOSE x \in s : TRUE
             IN  iter[s \ {x}] = it[s \ {x}] => iter[s] = it[s]
      BY <1>4, <1>5
    <3>2. s # {} => LET x == CHOOSE x \in s : TRUE IN s \ {x} \subseteq s /\ s \ {x} # s
      OBVIOUS
    <3> QED
      BY <2>1, <3>1, <3>2
  <2>2. Bad = {}
    <3> HIDE DEF Bad
    <3>1. Bad \in SUBSET SUBSET S
      BY DEF Bad
    <3> QED
      BY <2>1, <3>1, SmallestSet
  <2> QED
    BY <2>2
<1> QED
  BY <1>3, <1>6, <1>7

LEMMA SumEmpty == \A h : SumFunctionOnSet(h, {}) = 0
<1> SUFFICES ASSUME NEW h
             PROVE  SumFunctionOnSet(h, {}) = 0
  OBVIOUS
<1>1. PICK it : FoldEq(it, {}, 0, Add(h, {}), ChosenFrom({})) /\ SumFunctionOnSet(h, {}) = it[{}]
  BY FS_EmptySet, SumIsFold
<1> QED
  BY <1>1 DEF FoldEq

LEMMA SumType ==
  ASSUME NEW S, IsFiniteSet(S), NEW h, \A x \in S : h[x] \in Int
  PROVE  SumFunctionOnSet(h, S) \in Int
<1>1. PICK it \in [SUBSET S -> Int] : SumFunctionOnSet(h, S) = it[S]
  BY SumIsFold
<1>2. S \in SUBSET S
  OBVIOUS
<1> QED
  BY <1>1, <1>2

\* What the definition says: the chosen element is added to the sum of the others.
LEMMA SumChosen ==
  ASSUME NEW S, IsFiniteSet(S), S # {}, NEW h, \A x \in S : h[x] \in Int
  PROVE  \E x \in S : SumFunctionOnSet(h, S) = h[x] + SumFunctionOnSet(h, S \ {x})
<1> PICK c : c = ChosenFrom(S)
  OBVIOUS
<1> DEFINE x == c[S]  T == S \ {x}
<1>1. x \in S /\ \A s \in (SUBSET S) \ {{}} : c[s] \in s
  BY DEF ChosenFrom
<1>2. PICK f \in [SUBSET S -> Int] : FoldEq(f, S, 0, Add(h, S), c) /\ SumFunctionOnSet(h, S) = f[S]
  BY SumIsFold
<1>3. IsFiniteSet(T) /\ T \in SUBSET S
  BY FS_Subset
<1>4. PICK g \in [SUBSET T -> Int] : FoldEq(g, T, 0, Add(h, T), ChosenFrom(T)) /\ SumFunctionOnSet(h, T) = g[T]
  BY <1>3, SumIsFold
<1>5. FoldEq(g, T, 0, Add(h, S), c)
  <2>1. ASSUME NEW s \in (SUBSET T) \ {{}}
        PROVE  ChosenFrom(T)[s] = c[s] /\ c[s] \in s /\ s \ {c[s]} \in SUBSET T
    <3>1. s \in (SUBSET S) \ {{}} /\ s \subseteq T
      BY <1>3
    <3>2. c[s] = CHOOSE z \in s : TRUE
      BY <3>1 DEF ChosenFrom
    <3>3. ChosenFrom(T)[s] = CHOOSE z \in s : TRUE
      BY DEF ChosenFrom
    <3> HIDE DEF T
    <3> QED
      BY <1>1, <3>1, <3>2, <3>3
  <2>2. \A z \in T, n \in Int : Add(h, T)[z][n] = Add(h, S)[z][n]
    BY <1>3 DEF Add
  <2>3. ASSUME NEW s \in SUBSET T
        PROVE  (IF s = {} THEN 0 ELSE Add(h, T)[ChosenFrom(T)[s]][g[s \ {ChosenFrom(T)[s]}]])
             = (IF s = {} THEN 0 ELSE Add(h, S)[c[s]][g[s \ {c[s]}]])
    <3> HIDE DEF T
    <3>1. CASE s # {}
      <4>1. ChosenFrom(T)[s] = c[s] /\ c[s] \in T /\ g[s \ {c[s]}] \in Int
        BY <2>1, <3>1
      <4>2. Add(h, T)[c[s]][g[s \ {c[s]}]] = Add(h, S)[c[s]][g[s \ {c[s]}]]
        BY <2>2, <4>1
      <4> QED
        BY <4>1, <4>2
    <3> QED
      BY <3>1
  <2> HIDE DEF T
  <2> QED
    BY <1>4, <2>3 DEF FoldEq
<1>6. f[T] = g[T]
  <2> PICK step, U, zero : step = Add(h, S) /\ U = T /\ zero = 0
    OBVIOUS
  <2> HIDE DEF T
  <2> QED
    BY <1>1, <1>2, <1>3, <1>5, FoldUnique
<1>7. f[S] = h[x] + f[T]
  BY <1>1, <1>2, <1>3 DEF FoldEq, Add
<1> QED
  BY <1>1, <1>2, <1>4, <1>6, <1>7

\* It does not matter which element is taken out.
LEMMA SumRemove ==
  ASSUME NEW S, IsFiniteSet(S), NEW h, \A x \in S : h[x] \in Int, NEW y \in S
  PROVE  SumFunctionOnSet(h, S) = h[y] + SumFunctionOnSet(h, S \ {y})
<1> DEFINE Sum(s) == SumFunctionOnSet(h, s)
           Bad == {s \in SUBSET S : \E z \in s : Sum(s) # h[z] + Sum(s \ {z})}
<1> HIDE DEF Sum
<1>1. ASSUME NEW s \in Bad, \A u \in Bad : u \subseteq s => u = s
      PROVE  FALSE
  <2>1. PICK z \in s : Sum(s) # h[z] + Sum(s \ {z})
    OBVIOUS
  <2>2. PICK x \in s : Sum(s) = h[x] + Sum(s \ {x})
    BY FS_Subset, SumChosen, <2>1 DEF Sum
  <2>3. x # z
    BY <2>1, <2>2
  <2>4. s \ {x} \notin Bad /\ s \ {z} \notin Bad
    BY <1>1, <2>1, <2>2
  <2>5. /\ Sum(s \ {x}) = h[z] + Sum((s \ {x}) \ {z})
        /\ Sum(s \ {z}) = h[x] + Sum((s \ {z}) \ {x})
    BY <2>3, <2>4
  <2>6. PICK rest : rest = Sum((s \ {x}) \ {z})
    OBVIOUS
  <2>7. rest = Sum((s \ {z}) \ {x})
    <3>1. (s \ {x}) \ {z} = (s \ {z}) \ {x}
      OBVIOUS
    <3> QED
      BY <2>6, <3>1
  <2>8. rest \in Int
    BY <2>6, FS_Subset, SumType DEF Sum
  <2>9. h[x] \in Int /\ h[z] \in Int
    OBVIOUS
  <2>10. Sum(s) = h[x] + (h[z] + rest) /\ Sum(s \ {z}) = h[x] + rest
    BY <2>2, <2>5, <2>6, <2>7
  <2> QED
    BY <2>1, <2>8, <2>9, <2>10
<1>2. Bad = {}
  <2>1. Bad \in SUBSET SUBSET S
    OBVIOUS
  <2> HIDE DEF Bad
  <2> QED
    BY <1>1, <2>1, SmallestSet
<1> QED
  BY <1>2 DEF Sum

LEMMA SumAdd ==
  ASSUME NEW S, IsFiniteSet(S), NEW y, y \notin S, NEW h, \A x \in S \cup {y} : h[x] \in Int
  PROVE  SumFunctionOnSet(h, S \cup {y}) = h[y] + SumFunctionOnSet(h, S)
<1> DEFINE T == S \cup {y}
<1>1. IsFiniteSet(T) /\ y \in T /\ T \ {y} = S
  BY FS_AddElement
<1> HIDE DEF T
<1>2. \A x \in T : h[x] \in Int
  BY DEF T
<1> QED
  BY <1>1, <1>2, SumRemove DEF T

\* The sum depends on the values in the set only, and is monotonic in them.
LEMMA SumSame ==
  ASSUME NEW S, IsFiniteSet(S), NEW h, NEW k, \A x \in S : h[x] \in Int /\ k[x] = h[x]
  PROVE  SumFunctionOnSet(h, S) = SumFunctionOnSet(k, S)
<1> DEFINE Bad == {s \in SUBSET S : SumFunctionOnSet(h, s) # SumFunctionOnSet(k, s)}
<1>1. ASSUME NEW s \in Bad, \A u \in Bad : u \subseteq s => u = s
      PROVE  FALSE
  <2>1. IsFiniteSet(s) /\ s # {}
    BY FS_Subset, SumEmpty
  <2>2. PICK x \in s : TRUE
    BY <2>1
  <2>3. s \ {x} \notin Bad
    BY <1>1
  <2>4. SumFunctionOnSet(h, s) = h[x] + SumFunctionOnSet(h, s \ {x})
    BY <2>1, SumRemove
  <2>5. SumFunctionOnSet(k, s) = k[x] + SumFunctionOnSet(k, s \ {x})
    BY <2>1, SumRemove
  <2> QED
    BY <2>3, <2>4, <2>5
<1>2. Bad = {}
  <2>1. Bad \in SUBSET SUBSET S
    OBVIOUS
  <2> HIDE DEF Bad
  <2> QED
    BY <1>1, <2>1, SmallestSet
<1> QED
  BY <1>2

\* Indices that add nothing may be left out.
LEMMA SumRestricted ==
  ASSUME NEW S, IsFiniteSet(S), NEW R \in SUBSET S, NEW h, NEW k,
         \A x \in R : h[x] \in Int /\ k[x] = h[x], \A x \in S \ R : h[x] = 0
  PROVE  SumFunctionOnSet(h, S) = SumFunctionOnSet(k, R)
<1> DEFINE Bad == {s \in SUBSET S : SumFunctionOnSet(h, s) # SumFunctionOnSet(k, s \cap R)}
<1>1. ASSUME NEW s \in Bad, \A u \in Bad : u \subseteq s => u = s
      PROVE  FALSE
  <2> PICK t : t = s \cap R
    OBVIOUS
  <2>1. IsFiniteSet(s) /\ IsFiniteSet(t) /\ s # {}
    <3>1. IsFiniteSet(s) /\ IsFiniteSet(t)
      BY FS_Subset
    <3>2. CASE s = {}
      <4>1. t = {}
        BY <3>2
      <4> QED
        BY <3>2, <4>1, SumEmpty
    <3> QED
      BY <3>1, <3>2
  <2>2. PICK x \in s : TRUE
    BY <2>1
  <2> PICK u : u = s \ {x}
    OBVIOUS
  <2>3. SumFunctionOnSet(h, u) = SumFunctionOnSet(k, u \cap R)
    <3>1. u \notin Bad
      BY <1>1
    <3> QED
      BY <3>1
  <2>4. \A y \in s : h[y] \in Int
    OBVIOUS
  <2>5. SumFunctionOnSet(h, s) = h[x] + SumFunctionOnSet(h, u) /\ SumFunctionOnSet(h, u) \in Int
    <3>1. IsFiniteSet(u) /\ \A y \in u : h[y] \in Int
      BY <2>1, <2>4, FS_Subset
    <3> QED
      BY <2>1, <2>4, <3>1, SumRemove, SumType
  <2>6. ASSUME x \in R
        PROVE  SumFunctionOnSet(h, s) = SumFunctionOnSet(k, t)
    <3>1. x \in t /\ u \cap R = t \ {x} /\ \A y \in t : k[y] \in Int
      BY <2>6
    <3>2. SumFunctionOnSet(k, t) = k[x] + SumFunctionOnSet(k, t \ {x})
      BY <2>1, <3>1, SumRemove
    <3>3. SumFunctionOnSet(k, u \cap R) = SumFunctionOnSet(k, t \ {x}) /\ k[x] = h[x]
      BY <2>6, <3>1
    <3>4. SumFunctionOnSet(h, s) = k[x] + SumFunctionOnSet(k, t \ {x})
      BY <2>3, <2>5, <3>3
    <3> QED
      BY <3>2, <3>4
  <2>7. ASSUME x \notin R
        PROVE  SumFunctionOnSet(h, s) = SumFunctionOnSet(k, t)
    <3>1. u \cap R = t /\ h[x] = 0
      BY <2>7
    <3>2. SumFunctionOnSet(h, s) = SumFunctionOnSet(h, u)
      BY <2>5, <3>1
    <3> QED
      BY <2>3, <3>1, <3>2
  <2>8. SumFunctionOnSet(h, s) = SumFunctionOnSet(k, t)
    BY <2>6, <2>7
  <2> QED
    BY <2>8
<1>2. Bad = {}
  <2>1. Bad \in SUBSET SUBSET S
    OBVIOUS
  <2> HIDE DEF Bad
  <2> QED
    BY <1>1, <2>1, SmallestSet
<1>3. S \cap R = R
  OBVIOUS
<1> QED
  BY <1>2, <1>3

LEMMA SumMonotonic ==
  ASSUME NEW S, IsFiniteSet(S), NEW h, NEW k, \A x \in S : h[x] \in Int /\ k[x] \in Int /\ h[x] <= k[x]
  PROVE  SumFunctionOnSet(h, S) <= SumFunctionOnSet(k, S)
<1> DEFINE Bad == {s \in SUBSET S : ~(SumFunctionOnSet(h, s) <= SumFunctionOnSet(k, s))}
<1>1. ASSUME NEW s \in Bad, \A u \in Bad : u \subseteq s => u = s
      PROVE  FALSE
  <2>1. IsFiniteSet(s) /\ s # {}
    <3>1. IsFiniteSet(s)
      BY FS_Subset
    <3>2. CASE s = {}
      <4>1. SumFunctionOnSet(h, s) = 0 /\ SumFunctionOnSet(k, s) = 0
        BY <3>2, SumEmpty
      <4> QED
        BY <4>1
    <3> QED
      BY <3>1, <3>2
  <2>2. PICK x \in s : TRUE
    BY <2>1
  <2>3. s \ {x} \notin Bad
    BY <1>1
  <2>4. /\ SumFunctionOnSet(h, s) = h[x] + SumFunctionOnSet(h, s \ {x})
        /\ SumFunctionOnSet(k, s) = k[x] + SumFunctionOnSet(k, s \ {x})
    BY <2>1, SumRemove
  <2>5. SumFunctionOnSet(h, s \ {x}) \in Int /\ SumFunctionOnSet(k, s \ {x}) \in Int
    BY <2>1, FS_Subset, SumType
  <2>6. h[x] \in Int /\ k[x] \in Int /\ h[x] <= k[x]
    OBVIOUS
  <2> QED
    BY <2>3, <2>4, <2>5, <2>6
<1>2. Bad = {}
  <2>1. Bad \in SUBSET SUBSET S
    OBVIOUS
  <2> HIDE DEF Bad
  <2> QED
    BY <1>1, <2>1, SmallestSet
<1> QED
  BY <1>2

LEMMA SumNat ==
  ASSUME NEW S, IsFiniteSet(S), NEW h, \A x \in S : h[x] \in Nat
  PROVE  SumFunctionOnSet(h, S) \in Nat
<1> PICK zero : zero = [x \in S |-> 0]
  OBVIOUS
<1>1. SumFunctionOnSet(h, S) \in Int /\ SumFunctionOnSet(zero, S) <= SumFunctionOnSet(h, S)
  BY SumType, SumMonotonic
<1>2. SumFunctionOnSet(zero, S) = 0
  <2> DEFINE Bad == {s \in SUBSET S : SumFunctionOnSet(zero, s) # 0}
  <2>1. ASSUME NEW s \in Bad, \A u \in Bad : u \subseteq s => u = s
        PROVE  FALSE
    <3>1. IsFiniteSet(s) /\ s # {}
      BY FS_Subset, SumEmpty
    <3>2. PICK x \in s : TRUE
      BY <3>1
    <3>3. SumFunctionOnSet(zero, s \ {x}) = 0
      BY <2>1
    <3>4. \A y \in s : zero[y] = 0 /\ zero[y] \in Int
      OBVIOUS
    <3>5. SumFunctionOnSet(zero, s) = zero[x] + SumFunctionOnSet(zero, s \ {x})
      BY <3>1, <3>4, SumRemove
    <3> QED
      BY <3>3, <3>4, <3>5
  <2>2. Bad = {}
    <3>1. Bad \in SUBSET SUBSET S
      OBVIOUS
    <3> HIDE DEF Bad
    <3> QED
      BY <2>1, <3>1, SmallestSet
  <2> QED
    BY <2>2
<1> QED
  BY <1>1, <1>2

\* What holds between multiples of the summands holds between those of the sums.
LEMMA SumScaled ==
  ASSUME NEW S, IsFiniteSet(S), NEW a \in Int, NEW b \in Int, NEW h, NEW k,
         \A x \in S : h[x] \in Int /\ k[x] \in Int /\ a * h[x] <= b * k[x]
  PROVE  a * SumFunctionOnSet(h, S) <= b * SumFunctionOnSet(k, S)
<1> PICK ah : ah = [x \in S |-> a * h[x]]
  OBVIOUS
<1> PICK bk : bk = [x \in S |-> b * k[x]]
  OBVIOUS
<1> DEFINE Bad == {s \in SUBSET S : \/ SumFunctionOnSet(ah, s) # a * SumFunctionOnSet(h, s)
                                    \/ SumFunctionOnSet(bk, s) # b * SumFunctionOnSet(k, s)}
<1>1. ASSUME NEW s \in Bad, \A u \in Bad : u \subseteq s => u = s
      PROVE  FALSE
  <2>1. IsFiniteSet(s)
    BY FS_Subset
  <2>2. s # {}
    <3>1. CASE s = {}
      <4>1. /\ SumFunctionOnSet(ah, s) = 0 /\ SumFunctionOnSet(h, s) = 0
            /\ SumFunctionOnSet(bk, s) = 0 /\ SumFunctionOnSet(k, s) = 0
        BY <3>1, SumEmpty
      <4>2. a * 0 = 0 /\ b * 0 = 0
        OBVIOUS
      <4> QED
        BY <4>1, <4>2
    <3> QED
      BY <3>1
  <2>3. PICK x \in s : TRUE
    BY <2>2
  <2>4. s \ {x} \notin Bad /\ s \ {x} \in SUBSET S
    BY <1>1
  <2>5. \A y \in s : /\ h[y] \in Int /\ k[y] \in Int /\ ah[y] = a * h[y] /\ bk[y] = b * k[y]
                     /\ ah[y] \in Int /\ bk[y] \in Int
    OBVIOUS
  <2>6. /\ SumFunctionOnSet(ah, s) = ah[x] + SumFunctionOnSet(ah, s \ {x})
        /\ SumFunctionOnSet(h, s) = h[x] + SumFunctionOnSet(h, s \ {x})
        /\ SumFunctionOnSet(bk, s) = bk[x] + SumFunctionOnSet(bk, s \ {x})
        /\ SumFunctionOnSet(k, s) = k[x] + SumFunctionOnSet(k, s \ {x})
    BY <2>1, <2>5, SumRemove
  <2>7. SumFunctionOnSet(h, s \ {x}) \in Int /\ SumFunctionOnSet(k, s \ {x}) \in Int
    BY <2>1, <2>5, FS_Subset, SumType
  <2>8. /\ SumFunctionOnSet(ah, s \ {x}) = a * SumFunctionOnSet(h, s \ {x})
        /\ SumFunctionOnSet(bk, s \ {x}) = b * SumFunctionOnSet(k, s \ {x})
    BY <2>4
  <2>9. /\ SumFunctionOnSet(ah, s) = a * SumFunctionOnSet(h, s)
        /\ SumFunctionOnSet(bk, s) = b * SumFunctionOnSet(k, s)
    <3> PICK hs, ks : hs = SumFunctionOnSet(h, s \ {x}) /\ ks = SumFunctionOnSet(k, s \ {x})
      OBVIOUS
    <3>1. a * (h[x] + hs) = a * h[x] + a * hs /\ b * (k[x] + ks) = b * k[x] + b * ks
      BY <2>5, <2>7
    <3> QED
      BY <2>5, <2>6, <2>8, <3>1
  <2> QED
    BY <2>9
<1>2. Bad = {}
  <2>1. Bad \in SUBSET SUBSET S
    OBVIOUS
  <2> HIDE DEF Bad
  <2> QED
    BY <1>1, <2>1, SmallestSet
<1>3. SumFunctionOnSet(ah, S) <= SumFunctionOnSet(bk, S)
  <2>1. \A x \in S : ah[x] \in Int /\ bk[x] \in Int /\ ah[x] <= bk[x]
    OBVIOUS
  <2> QED
    BY <2>1, SumMonotonic
<1> QED
  BY <1>2, <1>3

----------------------------------------------------------------------------
\* The indices up to the k-th.
LEMMA Prefix ==
  ASSUME NEW n \in Nat, NEW k \in 1..n
  PROVE  /\ k \in Nat /\ k - 1 \in 0..n /\ k \in 1..k /\ IsFiniteSet(1..k) /\ IsFiniteSet(1..(k-1))
         /\ (1..k) \ {k} = 1..(k-1) /\ 1..k \subseteq 1..n /\ 1..(k-1) \subseteq 1..k
<1>1. k \in Int /\ k - 1 \in Int /\ k - 1 \in 0..n /\ k \in 1..k /\ 1..k \subseteq 1..n
  OBVIOUS
<1>2. IsFiniteSet(1..k) /\ IsFiniteSet(1..(k-1))
  BY <1>1, FS_Interval
<1>3. (1..k) \ {k} = 1..(k-1)
  OBVIOUS
<1> QED
  BY <1>1, <1>2, <1>3

\* A set of natural numbers that is bounded has a largest element.
LEMMA MaxExists ==
  ASSUME NEW n \in Nat, NEW s \in SUBSET (1..n), s # {}
  PROVE  Max(s) \in s /\ \A y \in s : y <= Max(s)
<1> DEFINE Bounds == {m \in Nat : \A y \in s : y <= m}
<1>1. PICK m \in Bounds : \A j \in Bounds : m <= j
  <2>1. n \in Bounds
    OBVIOUS
  <2>2. Bounds \in SUBSET Nat
    OBVIOUS
  <2> HIDE DEF Bounds
  <2> QED
    BY <2>1, <2>2, SmallestNumber
<1>2. m \in s
  <2>1. PICK y \in s : TRUE
    OBVIOUS
  <2>2. y \in 1..n /\ y <= m /\ m - 1 \in Nat
    BY <2>1
  <2>3. CASE m \notin s
    <3>1. m - 1 \in Bounds
      BY <2>2, <2>3
    <3> QED
      BY <1>1, <3>1
  <2> QED
    BY <2>3
<1>3. \A y \in s : m >= y
  OBVIOUS
<1> QED
  BY <1>2, <1>3 DEF Max

\* Two functions on the subsets of S that are built alike, from the same choice of
\* elements, are the same.
BuiltAlike(f, g, c, S) ==
  /\ f[{}] = g[{}]
  /\ \A s \in (SUBSET S) \ {{}} :
       /\ c[s] \in s
       /\ f[s \ {c[s]}] = g[s \ {c[s]}] => f[s] = g[s]

LEMMA FoldsAgree ==
  ASSUME NEW S, IsFiniteSet(S), NEW c, NEW f, NEW g, BuiltAlike(f, g, c, S)
  PROVE  f[S] = g[S]
<1> DEFINE Bad == {s \in SUBSET S : f[s] # g[s]}
<1>1. ASSUME NEW s \in Bad, \A u \in Bad : u \subseteq s => u = s
      PROVE  FALSE
  <2>1. s \in (SUBSET S) \ {{}}
    BY DEF BuiltAlike
  <2>2. c[s] \in s
    BY <2>1 DEF BuiltAlike
  <2>3. f[s \ {c[s]}] = g[s \ {c[s]}]
    <3> PICK x : x = c[s]
      OBVIOUS
    <3>1. s \ {x} \in SUBSET S /\ s \ {x} \subseteq s /\ s \ {x} # s
      BY <2>1, <2>2
    <3> QED
      BY <1>1, <3>1
  <2> QED
    BY <2>1, <2>3 DEF BuiltAlike
<1>2. Bad = {}
  <2>1. Bad \in SUBSET SUBSET S
    OBVIOUS
  <2> HIDE DEF Bad
  <2> QED
    BY <1>1, <2>1, SmallestSet
<1> QED
  BY <1>2

\* A fold over a list from left to right: the last of the elements is folded into
\* what the others have made of b.
IsLeftFold(it, n, b, step) ==
  /\ it = [s \in SUBSET (1..n) |-> IF s = {} THEN b ELSE step[Max(s)][it[s \ {Max(s)}]]]
  /\ it[1..0] = b
  /\ \A k \in 1..n : it[1..k] = step[k][it[1..(k-1)]]

LEMMA LeftFoldExists ==
  ASSUME NEW n \in Nat, NEW V, NEW b \in V, NEW step \in [1..n -> [V -> V]]
  PROVE  \E it \in [SUBSET (1..n) -> V] : IsLeftFold(it, n, b, step)
<1> DEFINE S == 1..n
           c == [s \in (SUBSET S) \ {{}} |-> Max(s)]
<1>1. IsFiniteSet(S)
  BY FS_Interval
<1>2. c \in [(SUBSET S) \ {{}} -> S] /\ \A s \in DOMAIN c : c[s] \in s
  BY MaxExists
<1>3. PICK it \in [SUBSET S -> V] : FoldEq(it, S, b, step, c)
  <2> HIDE DEF c
  <2> QED
    BY <1>1, <1>2, FoldExists
<1>4. it = [s \in SUBSET S |-> IF s = {} THEN b ELSE step[Max(s)][it[s \ {Max(s)}]]]
  BY <1>3 DEF FoldEq
<1>5. ASSUME NEW k \in 1..n
      PROVE  Max(1..k) = k /\ (1..k) \ {k} = 1..(k-1) /\ 1..k \in SUBSET S /\ 1..k # {}
  <2> PICK s : s = 1..k
    OBVIOUS
  <2>1. s \in SUBSET (1..n) /\ s # {} /\ k \in s /\ s \ {k} = 1..(k-1)
    BY Prefix
  <2>2. Max(s) \in s /\ \A y \in s : y <= Max(s)
    BY <2>1, MaxExists
  <2>3. Max(s) = k
    BY <2>1, <2>2
  <2> QED
    BY <2>1, <2>3
<1>6. it[1..0] = b
  <2>1. 1..0 = {} /\ {} \in SUBSET S
    OBVIOUS
  <2> QED
    BY <1>4, <2>1
<1>7. ASSUME NEW k \in 1..n
      PROVE  it[1..k] = step[k][it[1..(k-1)]]
  <2> PICK s : s = 1..k
    OBVIOUS
  <2>1. s \in SUBSET S /\ s # {} /\ Max(s) = k /\ s \ {Max(s)} = 1..(k-1)
    BY <1>5
  <2> QED
    BY <1>4, <2>1
<1> QED
  BY <1>4, <1>6, <1>7 DEF IsLeftFold

----------------------------------------------------------------------------
\* The sum up to an index is the sum up to the one before it, and its own term.
LEMMA SumLast ==
  ASSUME NEW n \in Nat \ {0}, NEW h, \A i \in 1..n : h[i] \in Int
  PROVE  /\ SumFunctionOnSet(h, 1..n) = h[n] + SumFunctionOnSet(h, 1..(n-1))
         /\ SumFunctionOnSet(h, 1..(n-1)) \in Int
<1> PICK S, T : S = 1..n /\ T = 1..(n-1)
  OBVIOUS
<1>1. n \in S /\ IsFiniteSet(S) /\ IsFiniteSet(T) /\ S \ {n} = T
  BY Prefix
<1>2. \A i \in S : h[i] \in Int
  OBVIOUS
<1>3. SumFunctionOnSet(h, S) = h[n] + SumFunctionOnSet(h, S \ {n})
  BY <1>1, <1>2, SumRemove
<1>4. SumFunctionOnSet(h, T) \in Int
  BY <1>1, <1>2, SumType
<1> QED
  BY <1>1, <1>3, <1>4

LEMMA SumFirst ==
  ASSUME NEW n \in Nat, 1 \in 1..n, NEW h, \A i \in 1..n : h[i] \in Nat
  PROVE  SumFunctionOnSet(h, 1..n) = h[1] + SumFunctionOnSet(h, 2..n)
<1> PICK S : S = 1..n
  OBVIOUS
<1>1. IsFiniteSet(S) /\ 1 \in S
  BY FS_Interval
<1>2. S \ {1} = 2..n
  OBVIOUS
<1>3. \A i \in S : h[i] \in Int
  OBVIOUS
<1>4. SumFunctionOnSet(h, S) = h[1] + SumFunctionOnSet(h, S \ {1})
  BY <1>1, <1>3, SumRemove
<1> QED
  BY <1>2, <1>4

\* The sum over a list is the sum over its first part, of m, and its second, of n.
Joins(h, f, m, g, n) ==
  /\ \A i \in 1..m : h[i] = f[i] /\ f[i] \in Int
  /\ \A i \in 1..n : h[m + i] = g[i] /\ g[i] \in Int

LEMMA SumConcat ==
  ASSUME NEW m \in Nat, NEW n \in Nat, NEW f, NEW g, NEW h, Joins(h, f, m, g, n)
  PROVE  SumFunctionOnSet(h, 1..(m + n)) = SumFunctionOnSet(f, 1..m) + SumFunctionOnSet(g, 1..n)
<1> USE DEF Joins
<1> DEFINE Claim(k) == SumFunctionOnSet(h, 1..(m + k)) = SumFunctionOnSet(f, 1..m) + SumFunctionOnSet(g, 1..k)
           Bad == {k \in 0..n : ~Claim(k)}
<1>1. SumFunctionOnSet(f, 1..m) \in Int /\ SumFunctionOnSet(h, 1..m) = SumFunctionOnSet(f, 1..m)
  <2> PICK S : S = 1..m
    OBVIOUS
  <2>1. IsFiniteSet(S) /\ \A i \in S : f[i] \in Int /\ h[i] = f[i] /\ h[i] \in Int
    BY FS_Interval
  <2>2. SumFunctionOnSet(f, S) \in Int
    BY <2>1, SumType
  <2>3. SumFunctionOnSet(f, S) = SumFunctionOnSet(h, S)
    BY <2>1, SumSame
  <2> QED
    BY <2>2, <2>3
<1>2. Claim(0)
  <2>1. 1..0 = {} /\ m + 0 = m
    OBVIOUS
  <2> QED
    BY <1>1, <2>1, SumEmpty
<1>3. ASSUME NEW k \in 1..n, Claim(k - 1)
      PROVE  Claim(k)
  <2> PICK x : x = m + k
    OBVIOUS
  <2>1. \A i \in 1..x : h[i] \in Int
    <3> SUFFICES ASSUME NEW i \in 1..x
                 PROVE  h[i] \in Int
      OBVIOUS
    <3>1. CASE i <= m
      BY <3>1
    <3>2. CASE i > m
      <4> PICK j : j = i - m
        OBVIOUS
      <4>1. j \in 1..n /\ m + j = i
        BY <3>2
      <4> QED
        BY <4>1
    <3> QED
      BY <3>1, <3>2
  <2>2. \A i \in 1..k : g[i] \in Int
    OBVIOUS
  <2>3. x \in Nat \ {0} /\ k \in Nat \ {0} /\ x - 1 = m + (k - 1) /\ h[x] = g[k] /\ g[k] \in Int
    OBVIOUS
  <2>4. SumFunctionOnSet(h, 1..x) = h[x] + SumFunctionOnSet(h, 1..(x - 1))
    BY <2>1, <2>3, SumLast
  <2>5. /\ SumFunctionOnSet(g, 1..k) = g[k] + SumFunctionOnSet(g, 1..(k - 1))
        /\ SumFunctionOnSet(g, 1..(k - 1)) \in Int
    BY <2>2, <2>3, SumLast
  <2>6. SumFunctionOnSet(h, 1..(x - 1)) = SumFunctionOnSet(f, 1..m) + SumFunctionOnSet(g, 1..(k - 1))
    BY <1>3, <2>3
  <2> QED
    BY <1>1, <2>3, <2>4, <2>5, <2>6
<1>4. Bad = {}
  <2>1. ASSUME NEW k \in Bad, \A j \in Bad : k <= j
        PROVE  FALSE
    <3>1. k # 0
      BY <1>2
    <3>2. k \in 1..n /\ k - 1 \in 0..n /\ ~(k <= k - 1)
      BY <3>1
    <3>3. Claim(k - 1)
      BY <2>1, <3>2
    <3> QED
      BY <1>3, <3>2, <3>3
  <2>2. Bad \in SUBSET Nat
    OBVIOUS
  <2> HIDE DEF Bad
  <2> QED
    BY <2>1, <2>2, SmallestNumber
<1> QED
  BY <1>4

\* The sum of sums.
LEMMA SumPlus ==
  ASSUME NEW S, IsFiniteSet(S), NEW f, NEW g, NEW h,
         \A x \in S : f[x] \in Int /\ g[x] \in Int /\ h[x] = f[x] + g[x]
  PROVE  SumFunctionOnSet(h, S) = SumFunctionOnSet(f, S) + SumFunctionOnSet(g, S)
<1> DEFINE Bad == {s \in SUBSET S :
                     ~(SumFunctionOnSet(h, s) = SumFunctionOnSet(f, s) + SumFunctionOnSet(g, s))}
<1>1. ASSUME NEW s \in Bad, \A u \in Bad : u \subseteq s => u = s
      PROVE  FALSE
  <2>1. IsFiniteSet(s) /\ s # {}
    <3>1. IsFiniteSet(s)
      BY FS_Subset
    <3>2. CASE s = {}
      <4>1. SumFunctionOnSet(h, {}) = 0 /\ SumFunctionOnSet(f, {}) = 0 /\ SumFunctionOnSet(g, {}) = 0
        BY SumEmpty
      <4> QED
        BY <3>2, <4>1
    <3> QED
      BY <3>1, <3>2
  <2>2. PICK x \in s : TRUE
    BY <2>1
  <2>3. PICK t : t = s \ {x}
    OBVIOUS
  <2>4. t \in SUBSET S /\ t \notin Bad /\ IsFiniteSet(t)
    BY <1>1, <2>1, <2>3, FS_Subset
  <2>5. SumFunctionOnSet(h, t) = SumFunctionOnSet(f, t) + SumFunctionOnSet(g, t)
    BY <2>4
  <2>6. (\A y \in s : f[y] \in Int) /\ (\A y \in s : g[y] \in Int) /\ (\A y \in s : h[y] \in Int)
    OBVIOUS
  <2>7. /\ SumFunctionOnSet(h, s) = h[x] + SumFunctionOnSet(h, t)
        /\ SumFunctionOnSet(f, s) = f[x] + SumFunctionOnSet(f, t)
        /\ SumFunctionOnSet(g, s) = g[x] + SumFunctionOnSet(g, t)
    BY <2>1, <2>2, <2>3, <2>6, SumRemove
  <2>8. SumFunctionOnSet(f, t) \in Int /\ SumFunctionOnSet(g, t) \in Int
    <3>1. (\A y \in t : f[y] \in Int) /\ (\A y \in t : g[y] \in Int)
      BY <2>3, <2>6
    <3> QED
      BY <2>4, <3>1, SumType
  <2>9. f[x] \in Int /\ g[x] \in Int /\ h[x] = f[x] + g[x]
    BY <2>2
  <2>10. SumFunctionOnSet(h, s) = SumFunctionOnSet(f, s) + SumFunctionOnSet(g, s)
    BY <2>5, <2>7, <2>8, <2>9
  <2> QED
    BY <2>10
<1>2. Bad \subseteq SUBSET S
  OBVIOUS
<1>3. Bad = {}
  <2> HIDE DEF Bad
  <2> QED
    BY <1>1, <1>2, SmallestSet
<1>4. S \in SUBSET S
  OBVIOUS
<1> QED
  BY <1>3, <1>4

\* The weights of the members of a list, together.
Weights(w, q) == [i \in DOMAIN q |-> w[q[i]]]
SumOver(w, q) == SumFunction(Weights(w, q))

\* The sum of a list of n, whose weights are those of h.
AddsUp(w, q, h, n) ==
  /\ SumOver(w, q) = SumFunctionOnSet(h, 1..n)
  /\ \A i \in 1..n : h[i] = w[q[i]] /\ h[i] \in Int

LEMMA SumOverUpTo ==
  ASSUME NEW S, NEW w \in [S -> Int], NEW q \in Seq(S)
  PROVE  AddsUp(w, q, Weights(w, q), Len(q)) /\ SumOver(w, q) \in Int
<1>1. DOMAIN q = 1..Len(q) /\ Len(q) \in Nat /\ \A i \in 1..Len(q) : q[i] \in S
  OBVIOUS
<1> PICK f : f = Weights(w, q)
  OBVIOUS
<1> PICK n : n = Len(q)
  OBVIOUS
<1>2. \A i \in 1..n : f[i] = w[q[i]] /\ f[i] \in Int
  BY <1>1 DEF Weights
<1>3. SumOver(w, q) = SumFunctionOnSet(f, 1..n)
  BY <1>1 DEF SumOver, SumFunction, Weights
<1>4. IsFiniteSet(1..n) /\ \A i \in 1..n : f[i] \in Int
  BY <1>1, <1>2, FS_Interval
<1>5. SumFunctionOnSet(f, 1..n) \in Int
  BY <1>4, SumType
<1>6. AddsUp(w, q, f, n)
  BY <1>2, <1>3 DEF AddsUp
<1> QED
  BY <1>3, <1>5, <1>6

LEMMA SumOverConcat ==
  ASSUME NEW S, NEW w \in [S -> Int], NEW q \in Seq(S), NEW r \in Seq(S)
  PROVE  SumOver(w, q \o r) = SumOver(w, q) + SumOver(w, r)
<1>0. PICK m, n : m = Len(q) /\ n = Len(r)
  OBVIOUS
<1>1. PICK p : p = q \o r
  OBVIOUS
<1>2. PICK f, g, h : f = Weights(w, q) /\ g = Weights(w, r) /\ h = Weights(w, p)
  OBVIOUS
<1>3. /\ m \in Nat /\ n \in Nat /\ p \in Seq(S) /\ Len(p) = m + n
      /\ \A i \in 1..m : p[i] = q[i]
      /\ \A i \in 1..n : p[m + i] = r[i]
  BY <1>0, <1>1
<1>4. AddsUp(w, q, f, m)
  BY <1>0, <1>2, SumOverUpTo
<1>5. AddsUp(w, r, g, n)
  BY <1>0, <1>2, SumOverUpTo
<1>6. AddsUp(w, p, h, m + n)
  <2>1. AddsUp(w, p, h, Len(p))
    BY <1>2, <1>3, SumOverUpTo
  <2> QED
    BY <1>3, <2>1
<1>7. \A i \in 1..m : h[i] = f[i] /\ f[i] \in Int
  <2> TAKE i \in 1..m
  <2>1. i \in 1..(m + n) /\ p[i] = q[i]
    BY <1>3
  <2>2. h[i] = w[p[i]] /\ f[i] = w[q[i]] /\ f[i] \in Int
    BY <1>4, <1>6, <2>1 DEF AddsUp
  <2> QED
    BY <2>1, <2>2
<1>8. \A i \in 1..n : h[m + i] = g[i] /\ g[i] \in Int
  <2> TAKE i \in 1..n
  <2>1. PICK j : j = m + i
    OBVIOUS
  <2>2. j \in 1..(m + n) /\ p[j] = r[i]
    BY <1>3, <2>1
  <2>3. h[j] = w[p[j]] /\ g[i] = w[r[i]] /\ g[i] \in Int
    BY <1>5, <1>6, <2>2 DEF AddsUp
  <2> QED
    BY <2>1, <2>2, <2>3
<1>9. SumFunctionOnSet(h, 1..(m + n)) = SumFunctionOnSet(f, 1..m) + SumFunctionOnSet(g, 1..n)
  <2>1. m \in Nat /\ n \in Nat
    BY <1>3
  <2>2. Joins(h, f, m, g, n)
    BY <1>7, <1>8 DEF Joins
  <2> QED
    BY <2>1, <2>2, SumConcat
<1> QED
  BY <1>1, <1>4, <1>5, <1>6, <1>9 DEF AddsUp

LEMMA SumOverOne ==
  ASSUME NEW S, NEW w \in [S -> Int]
  PROVE  SumOver(w, <<>>) = 0 /\ \A x \in S : SumOver(w, <<x>>) = w[x]
<1>1. SumOver(w, <<>>) = 0
  <2>1. DOMAIN Weights(w, <<>>) = {}
    BY DEF Weights
  <2> QED
    BY <2>1, SumEmpty DEF SumOver, SumFunction
<1>2. ASSUME NEW x \in S
      PROVE  SumOver(w, <<x>>) = w[x]
  <2>0. PICK q : q = <<x>>
    OBVIOUS
  <2>1. q \in Seq(S) /\ Len(q) = 1 /\ q[1] = x
    BY <2>0
  <2> PICK h : h = Weights(w, q)
    OBVIOUS
  <2>2. AddsUp(w, q, h, Len(q))
    BY <2>1, SumOverUpTo
  <2>3. SumOver(w, q) = SumFunctionOnSet(h, 1..1) /\ h[1] = w[x] /\ w[x] \in Int
    BY <2>1, <2>2 DEF AddsUp
  <2>4. SumFunctionOnSet(h, 1..1) = h[1] + SumFunctionOnSet(h, 1..0)
    <3>1. 1 \in Nat \ {0} /\ 1 - 1 = 0 /\ \A i \in 1..1 : h[i] \in Int
      BY <2>3
    <3> QED
      BY <3>1, SumLast
  <2>5. SumFunctionOnSet(h, 1..0) = 0
    <3>1. 1..0 = {}
      OBVIOUS
    <3> QED
      BY <3>1, SumEmpty
  <2> QED
    BY <2>0, <2>3, <2>4, <2>5
<1> QED
  BY <1>1, <1>2

LEMMA SumOverTail ==
  ASSUME NEW S, NEW w \in [S -> Int], NEW q \in Seq(S), q # <<>>
  PROVE  SumOver(w, q) = w[Head(q)] + SumOver(w, Tail(q))
<1>0. PICK h, t : h = Head(q) /\ t = Tail(q)
  OBVIOUS
<1>1. PICK o : o = <<h>>
  OBVIOUS
<1>2. h \in S /\ t \in Seq(S) /\ o \in Seq(S)
  BY <1>0, <1>1
<1>3. q = o \o t
  <2>1. Len(q) \in Nat \ {0} /\ Len(t) = Len(q) - 1 /\ Len(o) = 1 /\ Len(o \o t) = Len(q) /\ o \o t \in Seq(S)
    BY <1>0, <1>1, <1>2
  <2>2. ASSUME NEW i \in 1..Len(q)
        PROVE  q[i] = (o \o t)[i]
    <3>1. CASE i = 1
      BY <1>0, <1>1, <1>2, <2>1, <3>1
    <3>2. CASE i # 1
      BY <1>0, <1>1, <1>2, <2>1, <3>2
    <3> QED
      BY <3>1, <3>2
  <2> QED
    BY <2>1, <2>2, SeqEqual
<1>4. SumOver(w, o \o t) = SumOver(w, o) + SumOver(w, t)
  BY <1>2, SumOverConcat
<1>5. SumOver(w, o) = w[h]
  BY <1>1, <1>2, SumOverOne
<1> QED
  BY <1>0, <1>3, <1>4, <1>5

\* No member weighs more than all of them.
LEMMA SumOverMember ==
  ASSUME NEW S, NEW w \in [S -> Nat], NEW q \in Seq(S), NEW k \in DOMAIN q
  PROVE  SumOver(w, q) >= w[q[k]]
<1>0. PICK T, n : T = 1..n /\ n = Len(q)
  OBVIOUS
<1> PICK h : h = Weights(w, q)
  OBVIOUS
<1>1. SumOver(w, q) = SumFunctionOnSet(h, T) /\ (\A i \in T : h[i] = w[q[i]] /\ h[i] \in Nat)
  <2>1. w \in [S -> Int]
    OBVIOUS
  <2>2. AddsUp(w, q, h, Len(q))
    BY <2>1, SumOverUpTo
  <2>3. \A i \in 1..Len(q) : q[i] \in S
    OBVIOUS
  <2> QED
    BY <1>0, <2>2, <2>3 DEF AddsUp
<1>2. IsFiniteSet(T) /\ k \in T
  <2>1. Len(q) \in Nat /\ k \in 1..Len(q)
    OBVIOUS
  <2> QED
    BY <1>0, <2>1, FS_Interval
<1>3. SumFunctionOnSet(h, T) = h[k] + SumFunctionOnSet(h, T \ {k})
  <2>1. \A i \in T : h[i] \in Int
    BY <1>1
  <2> QED
    BY <1>2, <2>1, SumRemove
<1>4. SumFunctionOnSet(h, T \ {k}) \in Nat
  <2>1. IsFiniteSet(T \ {k}) /\ \A i \in T \ {k} : h[i] \in Nat
    BY <1>1, <1>2, FS_Subset
  <2> QED
    BY <2>1, SumNat
<1> QED
  BY <1>1, <1>2, <1>3, <1>4

\* What a fold makes of a list, element by element: "iter" is the function on sets of
\* indices that the definition of FoldLeft chooses.
Iterating(iter, n, V, b, step) ==
  /\ iter[{}] = b
  /\ \A s \in (SUBSET (1..n)) \ {{}} :
       iter[s \ {Max(s)}] \in V => iter[s] = step[Max(s)][iter[s \ {Max(s)}]]

Results(g, n, V, b, step, last) ==
  /\ g \in [0..n -> V]
  /\ g[0] = b
  /\ \A k \in 1..n : g[k] = step[k][g[k - 1]]
  /\ g[n] = last

LEMMA Iterates ==
  ASSUME NEW n \in Nat, NEW V, NEW b \in V, NEW step \in [1..n -> [V -> V]], NEW iter,
         Iterating(iter, n, V, b, step)
  PROVE  \E g : Results(g, n, V, b, step, iter[1..n])
<1> PICK g : g = [k \in 0..n |-> iter[1..k]]
  OBVIOUS
<1>1. g[0] = b
  <2>1. 1..0 = {}
    OBVIOUS
  <2> QED
    BY <2>1 DEF Iterating
<1>2. ASSUME NEW k \in 1..n, g[k - 1] \in V
      PROVE  g[k] = step[k][g[k - 1]] /\ g[k] \in V
  <2> PICK s : s = 1..k
    OBVIOUS
  <2>1. s \in (SUBSET (1..n)) \ {{}} /\ k \in s /\ s \ {k} = 1..(k - 1) /\ k - 1 \in 0..n
    BY Prefix
  <2>2. Max(s) \in s /\ \A y \in s : y <= Max(s)
    BY <2>1, MaxExists
  <2>3. Max(s) = k
    BY <2>1, <2>2
  <2>4. g[k] = iter[s] /\ g[k - 1] = iter[s \ {k}]
    <3> PICK j : j = k - 1
      OBVIOUS
    <3>1. k \in 0..n /\ j \in 0..n /\ g[j] = iter[1..j] /\ g[k] = iter[1..k]
      BY <2>1
    <3> QED
      BY <2>1, <3>1
  <2>5. iter[s] = step[k][iter[s \ {k}]]
    BY <1>2, <2>1, <2>3, <2>4 DEF Iterating
  <2> QED
    BY <1>2, <2>4, <2>5
<1>3. \A k \in 0..n : g[k] \in V
  <2> DEFINE Bad == {k \in 0..n : g[k] \notin V}
  <2>1. ASSUME NEW k \in Bad, \A j \in Bad : k <= j
        PROVE  FALSE
    <3>1. k # 0
      BY <1>1
    <3>2. k \in 1..n /\ k - 1 \in 0..n /\ ~(k <= k - 1)
      BY <3>1
    <3>3. g[k - 1] \in V
      BY <2>1, <3>2
    <3> QED
      BY <1>2, <3>2, <3>3
  <2>2. Bad \in SUBSET Nat
    OBVIOUS
  <2>3. Bad = {}
    <3> HIDE DEF Bad
    <3> QED
      BY <2>1, <2>2, SmallestNumber
  <2> QED
    BY <2>3
<1>4. g \in [0..n -> V]
  BY <1>3
<1>5. \A k \in 1..n : g[k] = step[k][g[k - 1]]
  <2>1. \A k \in 1..n : k - 1 \in 0..n
    OBVIOUS
  <2> QED
    BY <1>2, <1>3, <2>1
<1>6. g[n] = iter[1..n]
  OBVIOUS
<1> QED
  BY <1>1, <1>4, <1>5, <1>6 DEF Results

----------------------------------------------------------------------------
\* A division by a number that is not a constant, and the product it comes from.
LEMMA DivBounds ==
  ASSUME NEW x \in Nat, NEW y \in Nat \ {0}
  PROVE  x \div y \in Nat /\ y * (x \div y) <= x /\ x < y * (x \div y) + y
OBVIOUS

\* multiply_ratio and the division back lose something exactly when the percentage
\* of the amount is no whole number, so that the fee is rounded up, by less than 1.
LEMMA PercentFeeIsCeiling ==
  ASSUME NEW pct \in 1..100, NEW amount \in Nat
  PROVE  /\ PercentFee(pct, amount) \in Nat
         /\ 100 * PercentFee(pct, amount) >= amount * pct
         /\ 100 * PercentFee(pct, amount) < amount * pct + 100
<1> DEFINE whole == amount * pct
           fee == whole \div 100
           reversed == (fee * 100) \div pct
<1>1. whole \in Nat
  OBVIOUS
<1>2. fee \in Nat /\ 100 * fee <= whole /\ whole < 100 * fee + 100
  BY <1>1
<1>3. fee * 100 \in Nat
  BY <1>2
<1>4. reversed \in Nat /\ pct * reversed <= fee * 100 /\ fee * 100 < pct * reversed + pct
  BY <1>3, DivBounds
<1>5. CASE amount > reversed
  <2>1. fee * 100 < whole
    <3>1. amount >= reversed + 1
      BY <1>4, <1>5
    <3>2. pct * amount >= pct * (reversed + 1)
      BY <1>4, <3>1
    <3> QED
      BY <1>4, <3>2
  <2> QED
    BY <1>1, <1>2, <1>5, <2>1 DEF PercentFee
<1>6. CASE amount <= reversed
  <2>1. pct * amount <= pct * reversed
    BY <1>4, <1>6
  <2>2. whole <= fee * 100
    BY <1>2, <1>4, <2>1
  <2> QED
    BY <1>1, <1>2, <1>4, <1>6, <2>2 DEF PercentFee
<1> QED
  BY <1>4, <1>5, <1>6

\* There is only one such number, and it is no more than the amount.
LEMMA CeilingIsUnique ==
  ASSUME NEW pct \in 1..100, NEW amount \in Nat, NEW m \in Nat,
         100 * m >= pct * amount, 100 * m < pct * amount + 100
  PROVE  m \in 0..amount /\ RoundedUp(pct, amount) = m
<1> DEFINE whole == pct * amount
           Least(n) == 100 * n >= whole /\ (n > 0 => 100 * (n - 1) < whole)
<1>1. whole \in Nat /\ whole <= 100 * amount
  <2>1. pct * amount <= 100 * amount
    OBVIOUS
  <2> QED
    BY <2>1
<1>2. m \in 0..amount
  BY <1>1
<1>3. Least(m)
  BY <1>1
<1>4. \A n \in 0..amount : Least(n) => n = m
  BY <1>1
<1>5. RoundedUp(pct, amount) = CHOOSE n \in 0..amount : Least(n)
  BY DEF RoundedUp
<1> HIDE DEF Least
<1> QED
  BY <1>2, <1>3, <1>4, <1>5

\* calculate_fee takes the fee that the reference definition owes the receiver: the
\* percentage rounded up, once, in favour of the receiver, and never more than the
\* amount itself, whatever the amount.
LEMMA PercentFeeIsTheFeeDue ==
  ASSUME NEW pct \in 1..100, NEW amount \in Nat
  PROVE  PercentFee(pct, amount) = RoundedUp(pct, amount) /\ PercentFee(pct, amount) <= amount
<1>1. pct * amount = amount * pct
  OBVIOUS
<1>2. /\ PercentFee(pct, amount) \in Nat
      /\ 100 * PercentFee(pct, amount) >= pct * amount
      /\ 100 * PercentFee(pct, amount) < pct * amount + 100
  BY <1>1, PercentFeeIsCeiling
<1>3. PercentFee(pct, amount) \in 0..amount /\ RoundedUp(pct, amount) = PercentFee(pct, amount)
  BY <1>2, CeilingIsUnique
<1> QED
  BY <1>2, <1>3

----------------------------------------------------------------------------
PaymentOf(T, D) == [to : T, coin : [denom : D, amount : Nat]]
Payments(T, D) == Seq(PaymentOf(T, D))

LEMMA PaymentList ==
  ASSUME NEW T, NEW D, NEW ps \in Payments(T, D)
  PROVE  /\ Len(ps) \in Nat /\ DOMAIN ps = 1..Len(ps)
         /\ \A i \in 1..Len(ps) : /\ ps[i] \in PaymentOf(T, D) /\ ps[i].to \in T
                                  /\ ps[i].coin.denom \in D /\ ps[i].coin.amount \in Nat
<1> PICK P : P = PaymentOf(T, D)
  OBVIOUS
<1>1. ps \in Seq(P)
  BY DEF Payments
<1>2. Len(ps) \in Nat /\ DOMAIN ps = 1..Len(ps) /\ \A i \in 1..Len(ps) : ps[i] \in P
  BY <1>1
<1>3. \A p \in P : p.to \in T /\ p.coin.denom \in D /\ p.coin.amount \in Nat
  BY DEF PaymentOf
<1> QED
  BY <1>2, <1>3

\* What a payment brings to these addresses, and what all of a list do.
Brings(p, A, d) == IF p.to \in A THEN InDenom(p.coin, d) ELSE 0
Income(ps, A, d) == [i \in DOMAIN ps |-> Brings(ps[i], A, d)]
ReceivedBy(ps, A, d) == SumFunction(Income(ps, A, d))

LEMMA ReceivedUpTo ==
  ASSUME NEW T, NEW D, NEW ps \in Payments(T, D), NEW A, NEW d
  PROVE  /\ ReceivedBy(ps, A, d) = SumFunctionOnSet(Income(ps, A, d), 1..Len(ps))
         /\ \A i \in 1..Len(ps) : /\ Income(ps, A, d)[i] = Brings(ps[i], A, d)
                                  /\ Income(ps, A, d)[i] \in Nat
         /\ ReceivedBy(ps, A, d) \in Nat
<1> PICK w, n : w = Income(ps, A, d) /\ n = Len(ps)
  OBVIOUS
<1>1. DOMAIN ps = 1..n /\ n \in Nat
  BY PaymentList
<1>2. ASSUME NEW i \in 1..n
      PROVE  w[i] = Brings(ps[i], A, d) /\ w[i] \in Nat
  BY <1>1, PaymentList DEF Brings, InDenom, Income
<1>3. ReceivedBy(ps, A, d) = SumFunctionOnSet(w, 1..n)
  BY <1>1 DEF ReceivedBy, Income, SumFunction
<1>4. IsFiniteSet(1..n) /\ \A i \in 1..n : w[i] \in Nat
  BY <1>1, <1>2, FS_Interval
<1>5. SumFunctionOnSet(w, 1..n) \in Nat
  BY <1>4, SumNat
<1> QED
  BY <1>2, <1>3, <1>5

\* One more payment.
LEMMA PaidAppend ==
  ASSUME NEW T, NEW D, NEW ps \in Payments(T, D), NEW to \in T,
         NEW coin \in [denom : D, amount : Nat], NEW A, NEW d
  PROVE  /\ AddPayment(ps, to, coin) \in Payments(T, D)
         /\ AddPayment(ps, to, coin) # Refused
         /\ ps # Refused => AddPayment(ps, to, coin)[1] = ps[1]
         /\ ReceivedBy(AddPayment(ps, to, coin), A, d)
              = ReceivedBy(ps, A, d) + (IF to \in A THEN InDenom(coin, d) ELSE 0)
<1>0. PICK p, qs : p = Payment(to, coin) /\ qs = Append(ps, p)
  OBVIOUS
<1> PICK n : n = Len(ps)
  OBVIOUS
<1>1. p \in PaymentOf(T, D) /\ p.to = to /\ p.coin = coin
  BY <1>0 DEF Payment, PaymentOf
<1>2. /\ qs \in Payments(T, D) /\ n \in Nat /\ Len(qs) = n + 1
      /\ \A i \in 1..n : qs[i] = ps[i]
      /\ qs[n + 1] = p /\ qs # <<>>
      /\ ps # <<>> => n # 0
  <2> PICK P : P = PaymentOf(T, D)
    OBVIOUS
  <2>1. ps \in Seq(P) /\ p \in P
    BY <1>1 DEF Payments
  <2>2. /\ qs \in Seq(P) /\ n \in Nat /\ Len(qs) = n + 1
        /\ \A i \in 1..n : qs[i] = ps[i]
        /\ qs[n + 1] = p /\ qs # <<>>
        /\ ps # <<>> => n # 0
    BY <1>0, <2>1
  <2> QED
    BY <2>2 DEF Payments
<1>3. ps # <<>> => qs[1] = ps[1]
  BY <1>2
<1>4. PICK f, h : f = Income(ps, A, d) /\ h = Income(qs, A, d)
  OBVIOUS
<1>5. /\ ReceivedBy(ps, A, d) = SumFunctionOnSet(f, 1..n)
      /\ \A i \in 1..n : f[i] = Brings(ps[i], A, d) /\ f[i] \in Nat
  BY <1>4, ReceivedUpTo
<1>6. /\ ReceivedBy(qs, A, d) = SumFunctionOnSet(h, 1..(n + 1))
      /\ \A i \in 1..(n + 1) : h[i] = Brings(qs[i], A, d) /\ h[i] \in Nat
  <2>1. /\ ReceivedBy(qs, A, d) = SumFunctionOnSet(h, 1..Len(qs))
        /\ \A i \in 1..Len(qs) : h[i] = Brings(qs[i], A, d) /\ h[i] \in Nat
    <3>1. qs \in Payments(T, D)
      BY <1>2
    <3> QED
      BY <1>4, <3>1, ReceivedUpTo
  <2>2. Len(qs) = n + 1
    BY <1>2
  <2> QED
    BY <2>1, <2>2
<1>7. SumFunctionOnSet(h, 1..(n + 1)) = h[n + 1] + SumFunctionOnSet(h, 1..n)
  <2>1. n + 1 \in Nat \ {0} /\ (n + 1) - 1 = n /\ \A i \in 1..(n + 1) : h[i] \in Int
    BY <1>2, <1>6
  <2> QED
    BY <2>1, SumLast
<1>8. SumFunctionOnSet(h, 1..n) = SumFunctionOnSet(f, 1..n)
  <2>1. IsFiniteSet(1..n)
    BY <1>2, FS_Interval
  <2>2. \A i \in 1..n : f[i] \in Int /\ h[i] = f[i]
    BY <1>2, <1>5, <1>6
  <2> QED
    BY <2>1, <2>2, SumSame
<1>9. h[n + 1] = (IF to \in A THEN InDenom(coin, d) ELSE 0) /\ h[n + 1] \in Nat
  BY <1>1, <1>2, <1>6 DEF Brings
<1>10. ReceivedBy(ps, A, d) \in Nat
  BY ReceivedUpTo
<1>11. ReceivedBy(qs, A, d) = ReceivedBy(ps, A, d) + (IF to \in A THEN InDenom(coin, d) ELSE 0)
  BY <1>5, <1>6, <1>7, <1>8, <1>9, <1>10
<1>12. AddPayment(ps, to, coin) = qs
  BY <1>0 DEF AddPayment
<1> QED
  BY <1>2, <1>3, <1>11, <1>12 DEF Refused

\* The owner's payment comes first, in the denomination of the price.
Headed(ps, owner, cur) == ps # Refused /\ ps[1].to = owner /\ ps[1].coin.denom = cur

LEMMA HeadIsFirst ==
  ASSUME NEW T, NEW D, NEW ps \in Payments(T, D), NEW owner, NEW cur, Headed(ps, owner, cur)
  PROVE  FirstPaymentTo(ps, owner) = 1
<1> PICK I : I = {i \in 1..Len(ps) : ps[i].to = owner}
  OBVIOUS
<1>1. 1 \in I /\ \A i \in I : i >= 1 /\ i \in Int
  <2>1. Len(ps) \in Nat /\ ps # <<>> /\ ps[1].to = owner
    BY PaymentList DEF Headed, Refused
  <2>2. Len(ps) # 0
    BY <2>1 DEF Payments
  <2> QED
    BY <2>1, <2>2
<1>2. Min(I) = 1
  BY <1>1 DEF Min
<1> QED
  BY <1>1, <1>2 DEF FirstPaymentTo, SelectInSeq

\* A deduction from the owner's payment.
LEMMA PaidDeduct ==
  ASSUME NEW T, NEW D, NEW ps \in Payments(T, D), NEW owner, NEW cur, Headed(ps, owner, cur),
         NEW coin \in [denom : D, amount : Nat], NEW A, NEW d
  PROVE  /\ CanDeduct(ps, owner, coin) <=> coin.denom = cur /\ coin.amount <= ps[1].coin.amount
         /\ CanDeduct(ps, owner, coin) =>
              /\ DeductPayment(ps, owner, coin) \in Payments(T, D)
              /\ Headed(DeductPayment(ps, owner, coin), owner, cur)
              /\ DeductPayment(ps, owner, coin)[1].coin.amount = ps[1].coin.amount - coin.amount
              /\ ReceivedBy(DeductPayment(ps, owner, coin), A, d)
                   = ReceivedBy(ps, A, d) - (IF owner \in A THEN InDenom(coin, d) ELSE 0)
<1>1. FirstPaymentTo(ps, owner) = 1
  BY HeadIsFirst
<1>2. /\ Len(ps) \in Nat \ {0} /\ DOMAIN ps = 1..Len(ps) /\ 1 \in 1..Len(ps)
      /\ \A i \in 1..Len(ps) : ps[i] \in PaymentOf(T, D)
      /\ ps[1].coin.amount \in Nat /\ ps[1].coin.denom = cur /\ ps[1].to = owner
  <2>1. Len(ps) \in Nat /\ ps # <<>>
    BY PaymentList DEF Headed, Refused
  <2>2. Len(ps) # 0
    BY <2>1 DEF Payments
  <2>3. 1 \in 1..Len(ps)
    BY <2>1, <2>2
  <2> QED
    BY <2>1, <2>2, <2>3, PaymentList DEF Headed
<1>3. CanDeduct(ps, owner, coin) <=> coin.denom = cur /\ coin.amount <= ps[1].coin.amount
  <2>1. ps[1].coin.amount \in Nat /\ coin.amount \in Nat /\ ps[1].coin.denom = cur
    BY <1>2
  <2> QED
    BY <1>1, <2>1 DEF CanDeduct
<1>4. ASSUME CanDeduct(ps, owner, coin)
      PROVE  /\ DeductPayment(ps, owner, coin) \in Payments(T, D)
             /\ Headed(DeductPayment(ps, owner, coin), owner, cur)
             /\ DeductPayment(ps, owner, coin)[1].coin.amount = ps[1].coin.amount - coin.amount
             /\ ReceivedBy(DeductPayment(ps, owner, coin), A, d)
                  = ReceivedBy(ps, A, d) - (IF owner \in A THEN InDenom(coin, d) ELSE 0)
  <2> PICK n, left : n = Len(ps) /\ left = ps[1].coin.amount - coin.amount
    OBVIOUS
  <2> PICK p : p = [ps[1] EXCEPT !.coin.amount = left]
    OBVIOUS
  <2>0. PICK qs : qs = [ps EXCEPT ![1] = p]
    OBVIOUS
  <2>1. left \in Nat
    BY <1>2, <1>3, <1>4
  <2>2. /\ p \in PaymentOf(T, D) /\ p.to = owner
        /\ p.coin.denom = cur /\ p.coin.amount = left
    <3>1. ps[1] \in PaymentOf(T, D)
      BY <1>2
    <3> QED
      BY <1>2, <2>1, <3>1 DEF PaymentOf
  <2>3. DeductPayment(ps, owner, coin) = qs
    BY <1>1, <2>0 DEF DeductPayment
  <2>4. /\ qs \in Payments(T, D) /\ Len(qs) = n /\ qs[1] = p /\ qs # <<>>
        /\ \A i \in 2..n : qs[i] = ps[i]
    <3> PICK P : P = PaymentOf(T, D)
      OBVIOUS
    <3>1. ps \in Seq(P) /\ p \in P /\ 1 \in 1..n
      BY <1>2, <2>2 DEF Payments
    <3>2. qs \in Seq(P) /\ Len(qs) = n /\ qs[1] = p
      <4>1. ps \in Seq(P) /\ 1 \in 1..Len(ps)
        BY <1>2, <3>1
      <4> QED
        BY <2>0, <3>1, <4>1, ExceptSeq
    <3>3. \A i \in 2..n : qs[i] = ps[i]
      BY <2>0, <3>1
    <3>4. qs # <<>>
      BY <1>2, <3>2
    <3> QED
      BY <3>2, <3>3, <3>4 DEF Payments
  <2>5. PICK f, h : f = Income(ps, A, d) /\ h = Income(qs, A, d)
    OBVIOUS
  <2>6. /\ ReceivedBy(ps, A, d) = SumFunctionOnSet(f, 1..n)
        /\ \A i \in 1..n : f[i] = Brings(ps[i], A, d) /\ f[i] \in Nat
    BY <2>5, ReceivedUpTo
  <2>7. /\ ReceivedBy(qs, A, d) = SumFunctionOnSet(h, 1..n)
        /\ \A i \in 1..n : h[i] = Brings(qs[i], A, d) /\ h[i] \in Nat
    <3>1. /\ ReceivedBy(qs, A, d) = SumFunctionOnSet(h, 1..Len(qs))
          /\ \A i \in 1..Len(qs) : h[i] = Brings(qs[i], A, d) /\ h[i] \in Nat
      <4>1. qs \in Payments(T, D)
        BY <2>4
      <4> QED
        BY <2>5, <4>1, ReceivedUpTo
    <3>2. Len(qs) = n
      BY <2>4
    <3> QED
      BY <3>1, <3>2
  <2>8. n \in Nat /\ 1 \in 1..n
    BY <1>2
  <2>9. SumFunctionOnSet(f, 1..n) = f[1] + SumFunctionOnSet(f, 2..n)
    BY <2>6, <2>8, SumFirst
  <2>10. SumFunctionOnSet(h, 1..n) = h[1] + SumFunctionOnSet(h, 2..n)
    BY <2>7, <2>8, SumFirst
  <2>11. SumFunctionOnSet(f, 2..n) = SumFunctionOnSet(h, 2..n) /\ SumFunctionOnSet(f, 2..n) \in Int
    <3> PICK S : S = 2..n
      OBVIOUS
    <3>1. IsFiniteSet(S)
      <4>1. 2 \in Int /\ n \in Int
        BY <2>8
      <4> QED
        BY <4>1, FS_Interval
    <3>2. \A i \in S : f[i] \in Int /\ h[i] = f[i]
      BY <2>4, <2>6, <2>7, <2>8
    <3> QED
      BY <3>1, <3>2, SumSame, SumType
  <2>12. h[1] = f[1] - (IF owner \in A THEN InDenom(coin, d) ELSE 0)
    <3>1. f[1] = Brings(ps[1], A, d) /\ h[1] = Brings(p, A, d)
      BY <2>4, <2>6, <2>7, <2>8
    <3>2. ps[1].to = owner /\ ps[1].coin.denom = cur /\ coin.denom = cur /\ coin.amount \in Nat
          /\ ps[1].coin.amount \in Nat
      BY <1>2, <1>3, <1>4
    <3> QED
      BY <2>2, <3>1, <3>2 DEF Brings, InDenom
  <2>13. f[1] \in Int /\ (IF owner \in A THEN InDenom(coin, d) ELSE 0) \in Int
    BY <2>6, <2>8 DEF InDenom
  <2>14. ReceivedBy(qs, A, d) = ReceivedBy(ps, A, d) - (IF owner \in A THEN InDenom(coin, d) ELSE 0)
    BY <2>6, <2>7, <2>9, <2>10, <2>11, <2>12, <2>13
  <2> QED
    BY <2>2, <2>3, <2>4, <2>14 DEF Headed, Refused
<1> QED
  BY <1>3, <1>4

----------------------------------------------------------------------------
\* Induction up to a number.
LEMMA CountUp ==
  ASSUME NEW n \in Nat, NEW Good, 0 \in Good, \A k \in 1..n : k - 1 \in Good => k \in Good
  PROVE  \A k \in 0..n : k \in Good
<1> DEFINE Bad == {k \in 0..n : k \notin Good}
<1>1. ASSUME NEW k \in Bad, \A j \in Bad : k <= j
      PROVE  FALSE
  <2>1. k \in 1..n /\ k - 1 \in 0..n /\ ~(k <= k - 1)
    OBVIOUS
  <2> QED
    BY <1>1, <2>1
<1>2. Bad \in SUBSET Nat
  OBVIOUS
<1>3. Bad = {}
  <2> HIDE DEF Bad
  <2> QED
    BY <1>1, <1>2, SmallestNumber
<1> QED
  BY <1>3

\* How many of the first k of a list are among these.
Count(list, k, A) == Cardinality({j \in 1..k : list[j] \in A})

LEMMA CountNone ==
  ASSUME NEW list, NEW A
  PROVE  Count(list, 0, A) = 0
<1>1. {j \in 1..0 : list[j] \in A} = {}
  OBVIOUS
<1> QED
  BY <1>1, FS_EmptySet DEF Count

LEMMA CountFinite ==
  ASSUME NEW list, NEW A, NEW k \in Nat
  PROVE  IsFiniteSet({j \in 1..k : list[j] \in A}) /\ Count(list, k, A) \in Nat
<1> PICK S : S = {j \in 1..k : list[j] \in A}
  OBVIOUS
<1>1. S \subseteq 1..k /\ IsFiniteSet(1..k)
  BY FS_Interval
<1>2. IsFiniteSet(S) /\ Cardinality(S) \in Nat
  BY <1>1, FS_Subset, FS_CardinalityType
<1> QED
  BY <1>2 DEF Count

LEMMA CountNext ==
  ASSUME NEW list, NEW A, NEW k \in Nat \ {0}
  PROVE  /\ Count(list, k - 1, A) \in Nat
         /\ list[k] \in A => Count(list, k, A) = Count(list, k - 1, A) + 1
         /\ list[k] \notin A => Count(list, k, A) = Count(list, k - 1, A)
<1> PICK S, S1 : S = {j \in 1..k : list[j] \in A} /\ S1 = {j \in 1..(k - 1) : list[j] \in A}
  OBVIOUS
<1>1. Count(list, k, A) = Cardinality(S) /\ Count(list, k - 1, A) = Cardinality(S1)
  BY DEF Count
<1>2. IsFiniteSet(S1) /\ Cardinality(S1) \in Nat
  <2>1. k - 1 \in Nat
    OBVIOUS
  <2> QED
    BY <1>1, <2>1, CountFinite
<1>3. ASSUME list[k] \in A
      PROVE  Cardinality(S) = Cardinality(S1) + 1
  <2>1. S = S1 \cup {k} /\ k \notin S1
    BY <1>3
  <2> QED
    BY <1>2, <2>1, FS_AddElement
<1>4. ASSUME list[k] \notin A
      PROVE  Cardinality(S) = Cardinality(S1)
  <2>1. S = S1
    BY <1>4
  <2> QED
    BY <2>1
<1> QED
  BY <1>1, <1>2, <1>3, <1>4

\* A tax is paid to every receiver, on top of the other payments.
LEMMA TaxPays ==
  ASSUME NEW T, NEW D, NEW ps \in Payments(T, D), ps # Refused, NEW m, NEW price,
         m.receivers \in Seq(T), ~FeePanics(m.rate, price),
         CalculateFee(m.rate, price) \in [denom : D, amount : Nat], NEW A, NEW d
  PROVE  /\ ApplyTax(ps, m, price) \in Payments(T, D)
         /\ ApplyTax(ps, m, price) # Refused
         /\ ApplyTax(ps, m, price)[1] = ps[1]
         /\ ReceivedBy(ApplyTax(ps, m, price), A, d)
              = ReceivedBy(ps, A, d)
                  + InDenom(CalculateFee(m.rate, price), d) * Count(m.receivers, Len(m.receivers), A)
<1> PICK V, coin, list : V = Payments(T, D) /\ coin = CalculateFee(m.rate, price) /\ list = m.receivers
  OBVIOUS
<1> PICK n : n = Len(list)
  OBVIOUS
<1> DEFINE step == [k \in 1..n |-> [b \in V |-> AddPayment(b, list[k], coin)]]
           IsFold(it) == it = [s \in SUBSET (1..n) |-> IF s = {} THEN ps
                                 ELSE LET k == Max(s) IN AddPayment(it[s \ {k}], list[k], coin)]
           iter == CHOOSE it : IsFold(it)
<1>1. n \in Nat /\ DOMAIN list = 1..n /\ \A k \in 1..n : list[k] \in T
  OBVIOUS
<1>2. ApplyTax(ps, m, price) = iter[1..n]
  BY <1>1 DEF ApplyTax, FoldLeft, MapThenFoldSet
<1>3. ASSUME NEW b \in V, NEW k \in 1..n
      PROVE  /\ AddPayment(b, list[k], coin) \in V
             /\ AddPayment(b, list[k], coin) # Refused
             /\ b # Refused => AddPayment(b, list[k], coin)[1] = b[1]
             /\ ReceivedBy(AddPayment(b, list[k], coin), A, d)
                  = ReceivedBy(b, A, d) + (IF list[k] \in A THEN InDenom(coin, d) ELSE 0)
  <2>1. b \in Payments(T, D) /\ list[k] \in T /\ coin \in [denom : D, amount : Nat]
    BY <1>1
  <2> PICK to : to = list[k]
    OBVIOUS
  <2>2. to \in T
    BY <2>1
  <2> QED
    BY <2>1, <2>2, PaidAppend
<1>4. step \in [1..n -> [V -> V]]
  BY <1>3
<1>5. \A s \in (SUBSET (1..n)) \ {{}} : Max(s) \in s /\ s \ {Max(s)} \in SUBSET (1..n)
  BY <1>1, MaxExists
<1>6. \E it : IsFold(it)
  <2>1. PICK it \in [SUBSET (1..n) -> V] : IsLeftFold(it, n, ps, step)
    <3> HIDE DEF step
    <3> QED
      BY <1>1, <1>4, LeftFoldExists
  <2>2. IsFold(it)
    BY <1>5, <2>1 DEF IsLeftFold
  <2> QED
    BY <2>2
<1>7. IsFold(iter)
  <2> HIDE DEF IsFold
  <2> QED
    BY <1>6
<1>8. Iterating(iter, n, V, ps, step)
  <2> HIDE DEF iter
  <2>1. iter[{}] = ps
    BY <1>7
  <2>2. ASSUME NEW s \in (SUBSET (1..n)) \ {{}}, iter[s \ {Max(s)}] \in V
        PROVE  iter[s] = step[Max(s)][iter[s \ {Max(s)}]]
    <3> PICK k, b : k = Max(s) /\ b = iter[s \ {k}]
      OBVIOUS
    <3>1. k \in 1..n /\ b \in V
      BY <1>5, <2>2
    <3>2. iter[s] = AddPayment(b, list[k], coin)
      BY <1>7
    <3>3. step[k][b] = AddPayment(b, list[k], coin)
      BY <3>1
    <3> QED
      BY <3>2, <3>3
  <2> HIDE DEF step
  <2> QED
    BY <2>1, <2>2 DEF Iterating
<1>9. PICK g : Results(g, n, V, ps, step, iter[1..n])
  <2> HIDE DEF step, iter
  <2> QED
    BY <1>1, <1>4, <1>8, Iterates
<1>10. /\ \A k \in 0..n : g[k] \in V
       /\ g[0] = ps /\ g[n] = ApplyTax(ps, m, price)
       /\ \A k \in 1..n : g[k] = AddPayment(g[k - 1], list[k], coin)
  <2>1. \A k \in 0..n : g[k] \in V
    BY <1>9 DEF Results
  <2>2. ASSUME NEW k \in 1..n
        PROVE  g[k] = AddPayment(g[k - 1], list[k], coin)
    <3> PICK b : b = g[k - 1]
      OBVIOUS
    <3>1. b \in V
      <4>1. k - 1 \in 0..n
        BY <1>1
      <4> QED
        BY <2>1, <4>1
    <3>2. step[k][b] = AddPayment(b, list[k], coin)
      BY <3>1
    <3> HIDE DEF step
    <3> QED
      BY <1>9, <3>2 DEF Results
  <2> QED
    BY <1>2, <1>9, <2>1, <2>2 DEF Results
<1> HIDE DEF iter, step, IsFold
<1> DEFINE Good == {k \in 0..n : /\ g[k] # Refused /\ g[k][1] = ps[1]
                                 /\ ReceivedBy(g[k], A, d)
                                      = ReceivedBy(ps, A, d) + InDenom(coin, d) * Count(list, k, A)}
<1>11. ReceivedBy(ps, A, d) \in Nat /\ InDenom(coin, d) \in Nat
  BY ReceivedUpTo DEF InDenom
<1>12. 0 \in Good
  <2>1. Count(list, 0, A) = 0
    BY CountNone
  <2> QED
    BY <1>1, <1>10, <1>11, <2>1
<1>13. ASSUME NEW k \in 1..n, k - 1 \in Good
       PROVE  k \in Good
  <2> PICK b, x, c, c1 : /\ b = g[k - 1] /\ x = InDenom(coin, d)
                         /\ c = Count(list, k, A) /\ c1 = Count(list, k - 1, A)
    OBVIOUS
  <2>1. k - 1 \in 0..n /\ b \in V
    BY <1>1, <1>10
  <2>2. /\ b # Refused /\ b[1] = ps[1]
        /\ ReceivedBy(b, A, d) = ReceivedBy(ps, A, d) + x * c1
    BY <1>13
  <2>3. /\ c1 \in Nat
        /\ list[k] \in A => c = c1 + 1
        /\ list[k] \notin A => c = c1
    <3>1. k \in Nat \ {0} /\ k - 1 \in Nat
      BY <1>1
    <3> QED
      BY <3>1, CountNext
  <2>4. /\ g[k] # Refused /\ g[k][1] = b[1]
        /\ ReceivedBy(g[k], A, d) = ReceivedBy(b, A, d) + (IF list[k] \in A THEN x ELSE 0)
    BY <1>3, <1>10, <2>1, <2>2
  <2>5. x \in Nat /\ x * (c1 + 1) = x * c1 + x /\ x * c1 \in Nat
    BY <1>11, <2>3
  <2>6. ReceivedBy(g[k], A, d) = ReceivedBy(ps, A, d) + x * c
    <3>1. CASE list[k] \in A
      <4>1. x * c = x * c1 + x
        BY <2>3, <2>5, <3>1
      <4> QED
        BY <1>11, <2>2, <2>4, <2>5, <3>1, <4>1
    <3>2. CASE list[k] \notin A
      <4>1. c = c1
        BY <2>3, <3>2
      <4> QED
        BY <1>11, <2>2, <2>4, <2>5, <3>2, <4>1
    <3> QED
      BY <3>1, <3>2
  <2> QED
    BY <1>1, <2>2, <2>4, <2>6
<1>14. n \in Good
  <2> HIDE DEF Good
  <2>1. \A k \in 1..n : k - 1 \in Good => k \in Good
    BY <1>13
  <2>2. \A k \in 0..n : k \in Good
    BY <1>1, <1>12, <2>1, CountUp
  <2> QED
    BY <1>1, <2>2
<1> QED
  BY <1>1, <1>10, <1>14

----------------------------------------------------------------------------
\* A royalty to one receiver: taken from the owner's payment and paid on.
LEMMA RoyaltyToOne ==
  ASSUME NEW T, NEW D, NEW ps \in Payments(T, D), NEW owner, NEW cur, Headed(ps, owner, cur),
         NEW to \in T, NEW coin \in [denom : D, amount : Nat], NEW A, NEW d
  PROVE  /\ ~(coin.denom = cur /\ coin.amount <= ps[1].coin.amount) =>
              PayRoyalty(ps, owner, to, coin) = Refused
         /\ coin.denom = cur /\ coin.amount <= ps[1].coin.amount =>
              /\ PayRoyalty(ps, owner, to, coin) \in Payments(T, D)
              /\ Headed(PayRoyalty(ps, owner, to, coin), owner, cur)
              /\ PayRoyalty(ps, owner, to, coin)[1].coin.amount
                   = ps[1].coin.amount - coin.amount
              /\ ReceivedBy(PayRoyalty(ps, owner, to, coin), A, d)
                   = (ReceivedBy(ps, A, d) - (IF owner \in A THEN InDenom(coin, d) ELSE 0))
                       + (IF to \in A THEN InDenom(coin, d) ELSE 0)
<1>1. ps # Refused
  BY DEF Headed
<1>2. CanDeduct(ps, owner, coin) <=> coin.denom = cur /\ coin.amount <= ps[1].coin.amount
  BY PaidDeduct
<1>3. ASSUME CanDeduct(ps, owner, coin)
      PROVE  /\ PayRoyalty(ps, owner, to, coin) \in Payments(T, D)
             /\ Headed(PayRoyalty(ps, owner, to, coin), owner, cur)
             /\ PayRoyalty(ps, owner, to, coin)[1].coin.amount
                  = ps[1].coin.amount - coin.amount
             /\ ReceivedBy(PayRoyalty(ps, owner, to, coin), A, d)
                  = (ReceivedBy(ps, A, d) - (IF owner \in A THEN InDenom(coin, d) ELSE 0))
                      + (IF to \in A THEN InDenom(coin, d) ELSE 0)
  <2>0. PICK less : less = DeductPayment(ps, owner, coin)
    OBVIOUS
  <2>1. /\ less \in Payments(T, D)
        /\ Headed(less, owner, cur)
        /\ less[1].coin.amount = ps[1].coin.amount - coin.amount
        /\ ReceivedBy(less, A, d)
             = ReceivedBy(ps, A, d) - (IF owner \in A THEN InDenom(coin, d) ELSE 0)
    BY <1>3, <2>0, PaidDeduct
  <2>2. less # Refused
    BY <2>1 DEF Headed
  <2>3. PICK more : more = AddPayment(less, to, coin)
    OBVIOUS
  <2>4. /\ more \in Payments(T, D) /\ more # Refused /\ more[1] = less[1]
        /\ ReceivedBy(more, A, d)
             = ReceivedBy(less, A, d) + (IF to \in A THEN InDenom(coin, d) ELSE 0)
    BY <2>1, <2>2, <2>3, PaidAppend
  <2>5. PayRoyalty(ps, owner, to, coin) = more
    BY <1>1, <1>3, <2>0, <2>3 DEF PayRoyalty
  <2>6. Headed(more, owner, cur)
    BY <2>1, <2>4 DEF Headed
  <2> QED
    BY <2>1, <2>4, <2>5, <2>6
<1>4. ~CanDeduct(ps, owner, coin) => PayRoyalty(ps, owner, to, coin) = Refused
  BY DEF PayRoyalty
<1> QED
  BY <1>2, <1>3, <1>4

\* What a royalty to the first k of a list leaves of the payments: nothing, if it is
\* in another denomination than the owner's payment or k times the fee is more;
\* otherwise it has moved from the owner to the receivers.
Bearable(ps, cur, coin, k) ==
  k = 0 \/ (coin.denom = cur /\ k * coin.amount <= ps[1].coin.amount)

RoyaltyPaid(b, ps, owner, cur, coin, list, k, A, d) ==
  IF Bearable(ps, cur, coin, k)
  THEN /\ Headed(b, owner, cur)
       /\ b[1].coin.amount = ps[1].coin.amount - k * coin.amount
       /\ ReceivedBy(b, A, d)
            = (ReceivedBy(ps, A, d) + InDenom(coin, d) * Count(list, k, A))
                - (IF owner \in A THEN InDenom(coin, d) * k ELSE 0)
  ELSE b = Refused

LEMMA RoyaltyNext ==
  ASSUME NEW T, NEW D, NEW ps \in Payments(T, D), NEW owner, NEW cur, Headed(ps, owner, cur),
         NEW coin \in [denom : D, amount : Nat], NEW A, NEW d, NEW list, NEW k \in Nat \ {0},
         list[k] \in T, NEW b \in Payments(T, D),
         RoyaltyPaid(b, ps, owner, cur, coin, list, k - 1, A, d)
  PROVE  RoyaltyPaid(PayRoyalty(b, owner, list[k], coin), ps, owner, cur, coin, list, k, A, d)
<1> PICK j, amount, head, c, c1, x, to :
      /\ j = k - 1 /\ amount = coin.amount /\ head = ps[1].coin.amount
      /\ c = Count(list, k, A) /\ c1 = Count(list, j, A)
      /\ x = InDenom(coin, d) /\ to = list[k]
  OBVIOUS
<1>1. /\ j \in Nat /\ k = j + 1 /\ amount \in Nat /\ x \in Nat /\ c1 \in Nat /\ to \in T
      /\ to \in A => c = c1 + 1
      /\ to \notin A => c = c1
  BY CountNext DEF InDenom
<1>2. head \in Nat /\ ReceivedBy(ps, A, d) \in Nat
  <2>1. Len(ps) \in Nat /\ ps # <<>>
    BY PaymentList DEF Headed, Refused
  <2>2. Len(ps) # 0
    BY <2>1 DEF Payments
  <2>3. 1 \in 1..Len(ps)
    BY <2>1, <2>2
  <2> QED
    BY <2>3, PaymentList, ReceivedUpTo
<1>3. k * amount = j * amount + amount /\ j * amount \in Nat /\ k * amount \in Nat
  BY <1>1
<1>4. CASE Bearable(ps, cur, coin, j)
  <2>1. /\ Headed(b, owner, cur)
        /\ b[1].coin.amount = head - j * amount
        /\ ReceivedBy(b, A, d) = (ReceivedBy(ps, A, d) + x * c1) - (IF owner \in A THEN x * j ELSE 0)
    BY <1>4 DEF RoyaltyPaid
  <2>2. CASE coin.denom = cur /\ amount <= head - j * amount
    <3>1. Bearable(ps, cur, coin, k)
      BY <1>2, <1>3, <2>2 DEF Bearable
    <3>2. PICK q : q = PayRoyalty(b, owner, to, coin)
      OBVIOUS
    <3>3. /\ Headed(q, owner, cur)
          /\ q[1].coin.amount = b[1].coin.amount - amount
          /\ ReceivedBy(q, A, d)
               = (ReceivedBy(b, A, d) - (IF owner \in A THEN x ELSE 0)) + (IF to \in A THEN x ELSE 0)
      BY <1>1, <2>1, <2>2, <3>2, RoyaltyToOne
    <3>4. q[1].coin.amount = head - k * amount
      BY <1>2, <1>3, <2>1, <3>3
    <3>5. x * k = x * j + x /\ x * (c1 + 1) = x * c1 + x /\ x * c1 \in Nat /\ x * j \in Nat
      BY <1>1
    <3>6. x * c = x * c1 + (IF to \in A THEN x ELSE 0)
      <4>1. CASE to \in A
        BY <1>1, <3>5, <4>1
      <4>2. CASE to \notin A
        BY <1>1, <3>5, <4>2
      <4> QED
        BY <4>1, <4>2
    <3>7. ReceivedBy(q, A, d) = (ReceivedBy(ps, A, d) + x * c) - (IF owner \in A THEN x * k ELSE 0)
      BY <1>1, <1>2, <2>1, <3>3, <3>5, <3>6
    <3> QED
      BY <3>1, <3>2, <3>3, <3>4, <3>7 DEF RoyaltyPaid
  <2>3. CASE ~(coin.denom = cur /\ amount <= head - j * amount)
    <3>1. ~Bearable(ps, cur, coin, k)
      BY <1>2, <1>3, <2>3 DEF Bearable
    <3>2. PayRoyalty(b, owner, to, coin) = Refused
      BY <1>1, <2>1, <2>3, RoyaltyToOne
    <3> QED
      BY <3>1, <3>2 DEF RoyaltyPaid
  <2> QED
    BY <2>2, <2>3
<1>5. CASE ~Bearable(ps, cur, coin, j)
  <2>1. b = Refused
    BY <1>5 DEF RoyaltyPaid
  <2>2. ~Bearable(ps, cur, coin, k)
    BY <1>1, <1>2, <1>3, <1>5 DEF Bearable
  <2> QED
    BY <2>1, <2>2 DEF RoyaltyPaid, PayRoyalty
<1> QED
  BY <1>4, <1>5

LEMMA RoyaltyOrRefusal ==
  ASSUME NEW T, NEW D, NEW ps \in Payments(T, D), NEW owner, NEW cur,
         ps = Refused \/ Headed(ps, owner, cur),
         NEW to \in T, NEW coin \in [denom : D, amount : Nat]
  PROVE  /\ PayRoyalty(ps, owner, to, coin) \in Payments(T, D)
         /\ \/ PayRoyalty(ps, owner, to, coin) = Refused
            \/ Headed(PayRoyalty(ps, owner, to, coin), owner, cur)
<1>1. Refused \in Payments(T, D)
  BY DEF Refused, Payments
<1>2. CASE ps = Refused
  BY <1>1, <1>2 DEF PayRoyalty
<1>3. CASE Headed(ps, owner, cur) /\ coin.denom = cur /\ coin.amount <= ps[1].coin.amount
  BY <1>3, RoyaltyToOne
<1>4. CASE Headed(ps, owner, cur) /\ ~(coin.denom = cur /\ coin.amount <= ps[1].coin.amount)
  BY <1>1, <1>4, RoyaltyToOne
<1> QED
  BY <1>2, <1>3, <1>4

\* A royalty is paid to every receiver, or to none.
LEMMA RoyaltyPays ==
  ASSUME NEW T, NEW D, NEW ps \in Payments(T, D), NEW owner, NEW cur, Headed(ps, owner, cur),
         NEW m, NEW price, m.receivers \in Seq(T), ~FeePanics(m.rate, price),
         CalculateFee(m.rate, price) \in [denom : D, amount : Nat], NEW A, NEW d
  PROVE  /\ ApplyRoyalty(ps, m, owner, price) \in Payments(T, D)
         /\ RoyaltyPaid(ApplyRoyalty(ps, m, owner, price), ps, owner, cur,
                        CalculateFee(m.rate, price), m.receivers, Len(m.receivers), A, d)
<1> PICK V, coin, list : V = Payments(T, D) /\ coin = CalculateFee(m.rate, price) /\ list = m.receivers
  OBVIOUS
<1> PICK n : n = Len(list)
  OBVIOUS
<1> DEFINE Paid(b, k) == RoyaltyPaid(b, ps, owner, cur, coin, list, k, A, d)
<1> PICK W : W = {b \in V : b = Refused \/ Headed(b, owner, cur)}
  OBVIOUS
<1> DEFINE step == [k \in 1..n |-> [b \in W |-> PayRoyalty(b, owner, list[k], coin)]]
           IsFold(it) == it = [s \in SUBSET (1..n) |-> IF s = {} THEN ps
                                 ELSE LET k == Max(s) IN PayRoyalty(it[s \ {k}], owner, list[k], coin)]
           iter == CHOOSE it : IsFold(it)
<1>1. n \in Nat /\ DOMAIN list = 1..n /\ \A k \in 1..n : list[k] \in T
  OBVIOUS
<1>2. ApplyRoyalty(ps, m, owner, price) = iter[1..n]
  BY <1>1 DEF ApplyRoyalty, FoldLeft, MapThenFoldSet
<1>3. ps \in W /\ \A b \in W : b \in V
  OBVIOUS
<1>4. ASSUME NEW b \in W, NEW k \in 1..n
      PROVE  PayRoyalty(b, owner, list[k], coin) \in W
  <2>1. b \in Payments(T, D) /\ list[k] \in T /\ coin \in [denom : D, amount : Nat]
        /\ (b = Refused \/ Headed(b, owner, cur))
    BY <1>1
  <2>2. /\ PayRoyalty(b, owner, list[k], coin) \in Payments(T, D)
        /\ PayRoyalty(b, owner, list[k], coin) = Refused \/ Headed(PayRoyalty(b, owner, list[k], coin), owner, cur)
    BY <2>1, RoyaltyOrRefusal
  <2> QED
    BY <2>2
<1>5. step \in [1..n -> [W -> W]]
  BY <1>4
<1>6. \A s \in (SUBSET (1..n)) \ {{}} : Max(s) \in s /\ s \ {Max(s)} \in SUBSET (1..n)
  BY <1>1, MaxExists
<1>7. \E it : IsFold(it)
  <2>1. PICK it \in [SUBSET (1..n) -> W] : IsLeftFold(it, n, ps, step)
    <3> HIDE DEF step
    <3> QED
      BY <1>1, <1>3, <1>5, LeftFoldExists
  <2>2. IsFold(it)
    BY <1>6, <2>1 DEF IsLeftFold
  <2> QED
    BY <2>2
<1>8. IsFold(iter)
  <2> HIDE DEF IsFold
  <2> QED
    BY <1>7
<1>9. Iterating(iter, n, W, ps, step)
  <2> HIDE DEF iter
  <2>1. iter[{}] = ps
    BY <1>8
  <2>2. ASSUME NEW s \in (SUBSET (1..n)) \ {{}}, iter[s \ {Max(s)}] \in W
        PROVE  iter[s] = step[Max(s)][iter[s \ {Max(s)}]]
    <3> PICK k, b : k = Max(s) /\ b = iter[s \ {k}]
      OBVIOUS
    <3>1. k \in 1..n /\ b \in W
      BY <1>6, <2>2
    <3>2. iter[s] = PayRoyalty(b, owner, list[k], coin)
      BY <1>8
    <3>3. step[k][b] = PayRoyalty(b, owner, list[k], coin)
      BY <3>1
    <3> QED
      BY <3>2, <3>3
  <2> HIDE DEF step
  <2> QED
    BY <2>1, <2>2 DEF Iterating
<1>10. PICK g : Results(g, n, W, ps, step, iter[1..n])
  <2> HIDE DEF step, iter
  <2> QED
    BY <1>1, <1>3, <1>5, <1>9, Iterates
<1>11. /\ \A k \in 0..n : g[k] \in W
       /\ g[0] = ps /\ g[n] = ApplyRoyalty(ps, m, owner, price)
       /\ \A k \in 1..n : g[k] = PayRoyalty(g[k - 1], owner, list[k], coin)
  <2>1. \A k \in 0..n : g[k] \in W
    BY <1>10 DEF Results
  <2>2. ASSUME NEW k \in 1..n
        PROVE  g[k] = PayRoyalty(g[k - 1], owner, list[k], coin)
    <3> PICK b : b = g[k - 1]
      OBVIOUS
    <3>1. b \in W
      <4>1. k - 1 \in 0..n
        BY <1>1
      <4> QED
        BY <2>1, <4>1
    <3>2. step[k][b] = PayRoyalty(b, owner, list[k], coin)
      BY <3>1
    <3> HIDE DEF step
    <3> QED
      BY <1>10, <3>2 DEF Results
  <2> QED
    BY <1>2, <1>10, <2>1, <2>2 DEF Results
<1> HIDE DEF iter, step, IsFold
<1> DEFINE Good == {k \in 0..n : Paid(g[k], k)}
<1>12. 0 \in Good
  <2>1. Count(list, 0, A) = 0 /\ ReceivedBy(ps, A, d) \in Nat /\ InDenom(coin, d) \in Nat /\ coin.amount \in Nat
    BY CountNone, ReceivedUpTo DEF InDenom
  <2>2. ps[1].coin.amount \in Nat
    <3>1. Len(ps) \in Nat /\ ps # <<>>
      BY PaymentList DEF Headed, Refused
    <3>2. Len(ps) # 0
      BY <3>1 DEF Payments
    <3>3. 1 \in 1..Len(ps)
      BY <3>1, <3>2
    <3> QED
      BY <3>3, PaymentList
  <2>3. Paid(ps, 0)
    BY <2>1, <2>2 DEF RoyaltyPaid, Bearable
  <2> HIDE DEF Paid
  <2> QED
    BY <1>1, <1>11, <2>3
<1>13. ASSUME NEW k \in 1..n, k - 1 \in Good
       PROVE  k \in Good
  <2> PICK b : b = g[k - 1]
    OBVIOUS
  <2>1. b \in V /\ k \in Nat \ {0} /\ list[k] \in T /\ g[k] = PayRoyalty(b, owner, list[k], coin)
    <3>1. k - 1 \in 0..n
      BY <1>1
    <3>2. b \in W
      BY <1>11, <3>1
    <3> QED
      BY <1>1, <1>3, <1>11, <3>2
  <2>2. RoyaltyPaid(b, ps, owner, cur, coin, list, k - 1, A, d)
    BY <1>13
  <2>3. RoyaltyPaid(PayRoyalty(b, owner, list[k], coin), ps, owner, cur, coin, list, k, A, d)
    <3>1. b \in Payments(T, D)
      BY <2>1
    <3> QED
      BY <2>1, <2>2, <3>1, RoyaltyNext
  <2>4. Paid(g[k], k)
    BY <2>1, <2>3
  <2> HIDE DEF Paid
  <2> QED
    BY <1>1, <2>4
<1>14. n \in Good
  <2> HIDE DEF Good
  <2>1. \A k \in 1..n : k - 1 \in Good => k \in Good
    BY <1>13
  <2>2. \A k \in 0..n : k \in Good
    BY <1>1, <1>12, <2>1, CountUp
  <2> QED
    BY <1>1, <2>2
<1> QED
  BY <1>1, <1>3, <1>11, <1>14

----------------------------------------------------------------------------
\* The fee that is computed is the fee that is due.
LEMMA FeeIsDue ==
  ASSUME NEW m, NEW price, price.amount \in Nat, RateGiven(m.rate),
         ~FeePanics(m.rate, price), NEW d
  PROVE  /\ CalculateFee(m.rate, price)
              = CoinOf(CalculateFee(m.rate, price).denom, CalculateFee(m.rate, price).amount)
         /\ CalculateFee(m.rate, price).amount \in Nat
         /\ \/ CalculateFee(m.rate, price).denom = price.denom
            \/ m.rate.kind = "flat" /\ CalculateFee(m.rate, price).amount > 0
         /\ m.rate.kind = "flat" => CalculateFee(m.rate, price) = m.rate.coin
         /\ FeeDue(m, price, d) = InDenom(CalculateFee(m.rate, price), d)
         /\ FeeDue(m, price, d) \in Nat
<1>1. CASE m.rate.kind = "flat"
  <2> PICK coin : coin = m.rate.coin
    OBVIOUS
  <2>1. coin = CoinOf(coin.denom, coin.amount) /\ coin.amount \in Nat \ {0}
    BY <1>1 DEF RateGiven
  <2>2. CalculateFee(m.rate, price) = coin
    BY <1>1 DEF CalculateFee
  <2>3. FeeDue(m, price, d) = InDenom(coin, d) /\ InDenom(coin, d) \in Nat
    BY <1>1, <2>1 DEF FeeDue, InDenom
  <2> QED
    BY <1>1, <2>1, <2>2, <2>3
<1>2. CASE m.rate.kind # "flat"
  <2>1. m.rate.kind = "percent" /\ m.rate.pct \in Nat \ {0} /\ m.rate.pct \in 1..100
    BY <1>2 DEF RateGiven, FeePanics
  <2> PICK fee : fee = PercentFee(m.rate.pct, price.amount)
    OBVIOUS
  <2>2. fee \in Nat
    BY <2>1, PercentFeeIsCeiling
  <2>3. fee = RoundedUp(m.rate.pct, price.amount)
    BY <2>1, PercentFeeIsTheFeeDue
  <2>4. CalculateFee(m.rate, price) = [denom |-> price.denom, amount |-> fee]
    BY <1>2 DEF CalculateFee, CoinOf
  <2>5. FeeDue(m, price, d) = IF price.denom = d THEN fee ELSE 0
    BY <1>2, <2>3 DEF FeeDue
  <2> QED
    BY <1>2, <2>2, <2>4, <2>5 DEF CoinOf, InDenom
<1> QED
  BY <1>1, <1>2

\* A module that a list may hold: if it takes fees, of these and to these.
TakesFees(m) == m.kind \in {"tax", "royalty"}

FeesGiven(m, T, D) ==
  TakesFees(m) => /\ m.receivers \in Seq(T)
                  /\ RateGiven(m.rate)
                  /\ m.rate.kind = "flat" => m.rate.coin.denom \in D

\* What a module takes from the price, and what it brings to these addresses.
RoyaltyIn(m, price, d) ==
  IF m.kind = "royalty" THEN FeeDue(m, price, d) * Len(m.receivers) ELSE 0

FeesIn(m, price, d, A) ==
  IF TakesFees(m) THEN FeeDue(m, price, d) * Count(m.receivers, Len(m.receivers), A) ELSE 0

ModulePanics(m, price) == TakesFees(m) /\ FeePanics(m.rate, price)

LEMMA FeesTyped ==
  ASSUME NEW T, NEW D, NEW m, FeesGiven(m, T, D), NEW price, price.amount \in Nat, price.denom \in D,
         ~ModulePanics(m, price), NEW d, NEW A
  PROVE  /\ RoyaltyIn(m, price, d) \in Nat
         /\ FeesIn(m, price, d, A) \in Nat
         /\ TakesFees(m) => CalculateFee(m.rate, price) \in [denom : D, amount : Nat]
<1>1. CASE TakesFees(m)
  <2>1. RateGiven(m.rate) /\ ~FeePanics(m.rate, price) /\ m.receivers \in Seq(T)
        /\ (m.rate.kind = "flat" => m.rate.coin.denom \in D)
    BY <1>1 DEF FeesGiven, ModulePanics
  <2>2. Len(m.receivers) \in Nat /\ Count(m.receivers, Len(m.receivers), A) \in Nat
    <3>1. Len(m.receivers) \in Nat
      BY <2>1
    <3> QED
      BY <3>1, CountFinite
  <2>3. FeeDue(m, price, d) \in Nat
    BY <2>1, FeeIsDue
  <2> PICK coin : coin = CalculateFee(m.rate, price)
    OBVIOUS
  <2>4. /\ coin = CoinOf(coin.denom, coin.amount) /\ coin.amount \in Nat
        /\ coin.denom = price.denom \/ m.rate.kind = "flat"
        /\ m.rate.kind = "flat" => coin = m.rate.coin
    BY <2>1, FeeIsDue
  <2>5. coin.denom \in D
    BY <2>1, <2>4
  <2>6. coin \in [denom : D, amount : Nat]
    BY <2>4, <2>5 DEF CoinOf
  <2>7. RoyaltyIn(m, price, d) \in Nat
    BY <2>2, <2>3 DEF RoyaltyIn
  <2>8. FeesIn(m, price, d, A) \in Nat
    BY <2>2, <2>3 DEF FeesIn
  <2> QED
    BY <2>6, <2>7, <2>8
<1>2. CASE ~TakesFees(m)
  BY <1>2 DEF TakesFees, RoyaltyIn, FeesIn
<1> QED
  BY <1>1, <1>2

\* One module's hook: it is refused exactly when its fee cannot be computed or its
\* royalties are more than what is left to the owner; otherwise they are taken from
\* that and its fees paid.
LeftTo(ps, cur, d) == IF d = cur THEN ps[1].coin.amount ELSE 0

Overdrawn(ps, m, price, D) ==
  \E e \in D : RoyaltyIn(m, price, e) > LeftTo(ps, price.denom, e)

ModuleOutcome(q, ps, owner, m, price, D, A, d) ==
  /\ ModulePanics(m, price) => q = Refused
  /\ ~ModulePanics(m, price) =>
       /\ Overdrawn(ps, m, price, D) => q = Refused
       /\ ~Overdrawn(ps, m, price, D) => /\ Headed(q, owner, price.denom)
                                         /\ q[1].coin.amount = ps[1].coin.amount - RoyaltyIn(m, price, price.denom)
                                         /\ ReceivedBy(q, A, d)
                                              = (ReceivedBy(ps, A, d) + FeesIn(m, price, d, A))
                                                  - (IF owner \in A THEN RoyaltyIn(m, price, d) ELSE 0)

LEMMA ModuleStep ==
  ASSUME NEW T, NEW D, NEW ps \in Payments(T, D), NEW owner,
         NEW price, price.amount \in Nat, price.denom \in D,
         Headed(ps, owner, price.denom),
         NEW m, FeesGiven(m, T, D), NEW A, NEW d
  PROVE  ModuleOutcome(ApplyModule(ps, m, owner, price), ps, owner, m, price, D, A, d)
<1> PICK q, cur, head, coin, x, n, c :
      /\ q = ApplyModule(ps, m, owner, price) /\ cur = price.denom /\ head = ps[1].coin.amount
      /\ coin = CalculateFee(m.rate, price) /\ x = InDenom(coin, d)
      /\ n = Len(m.receivers) /\ c = Count(m.receivers, Len(m.receivers), A)
  OBVIOUS
<1>1. ps # Refused /\ head \in Nat /\ ReceivedBy(ps, A, d) \in Nat
  <2>1. Len(ps) \in Nat /\ ps # <<>>
    BY PaymentList DEF Headed, Refused
  <2>2. Len(ps) # 0
    BY <2>1 DEF Payments
  <2>3. 1 \in 1..Len(ps)
    BY <2>1, <2>2
  <2> QED
    BY <2>3, PaymentList, ReceivedUpTo DEF Headed
<1>2. CASE ~TakesFees(m)
  <2>1. q = ps
    BY <1>1, <1>2 DEF ApplyModule, TakesFees
  <2>2. \A e : RoyaltyIn(m, price, e) = 0 /\ FeesIn(m, price, e, A) = 0
    BY <1>2 DEF RoyaltyIn, FeesIn, TakesFees
  <2>3. \A e : LeftTo(ps, cur, e) \in Nat
    BY <1>1 DEF LeftTo
  <2>4. ~ModulePanics(m, price)
    BY <1>2 DEF ModulePanics
  <2>5. ~Overdrawn(ps, m, price, D)
    BY <2>2, <2>3 DEF Overdrawn
  <2> QED
    BY <1>1, <2>1, <2>2, <2>4, <2>5 DEF ModuleOutcome
<1>3. CASE TakesFees(m) /\ FeePanics(m.rate, price)
  <2>1. q = Refused
    BY <1>1, <1>3 DEF ApplyModule, TakesFees, ApplyTax, ApplyRoyalty
  <2>2. ModulePanics(m, price)
    BY <1>3 DEF ModulePanics
  <2> QED
    BY <2>1, <2>2 DEF ModuleOutcome
<1>4. ASSUME TakesFees(m), ~FeePanics(m.rate, price)
      PROVE  /\ coin \in [denom : D, amount : Nat] /\ coin.denom \in D /\ coin.amount \in Nat
             /\ m.receivers \in Seq(T) /\ n \in Nat /\ c \in Nat /\ x \in Nat
             /\ ~ModulePanics(m, price)
             /\ \A e : FeeDue(m, price, e) = InDenom(coin, e)
             /\ coin.denom = cur \/ coin.amount > 0
  <2>1. ~ModulePanics(m, price) /\ m.receivers \in Seq(T) /\ RateGiven(m.rate)
    BY <1>4 DEF ModulePanics, FeesGiven
  <2>2. coin \in [denom : D, amount : Nat]
    BY <1>4, <2>1, FeesTyped
  <2>3. coin.denom \in D /\ coin.amount \in Nat /\ x \in Nat
    BY <2>2 DEF InDenom
  <2>4. n \in Nat /\ c \in Nat
    <3>1. n \in Nat
      BY <2>1
    <3> QED
      BY <3>1, CountFinite
  <2>5. ASSUME NEW e
        PROVE  FeeDue(m, price, e) = InDenom(coin, e) /\ (coin.denom = cur \/ coin.amount > 0)
    BY <1>4, <2>1, FeeIsDue
  <2> QED
    BY <2>1, <2>2, <2>3, <2>4, <2>5
<1>5. CASE m.kind = "tax" /\ ~FeePanics(m.rate, price)
  <2>0. TakesFees(m)
    BY <1>5 DEF TakesFees
  <2>1. q = ApplyTax(ps, m, price)
    BY <1>1, <1>5 DEF ApplyModule
  <2>2. /\ q \in Payments(T, D) /\ q # Refused /\ q[1] = ps[1]
        /\ ReceivedBy(q, A, d) = ReceivedBy(ps, A, d) + x * c
    BY <1>1, <1>4, <1>5, <2>0, <2>1, TaxPays
  <2>3. \A e : RoyaltyIn(m, price, e) = 0
    BY <1>5 DEF RoyaltyIn
  <2>4. FeesIn(m, price, d, A) = x * c /\ x * c \in Nat
    BY <1>4, <1>5, <2>0 DEF FeesIn
  <2>5. \A e : LeftTo(ps, cur, e) \in Nat
    BY <1>1 DEF LeftTo
  <2>6. ~Overdrawn(ps, m, price, D)
    BY <2>3, <2>5 DEF Overdrawn
  <2>7. Headed(q, owner, cur)
    BY <2>2 DEF Headed
  <2>8. q[1].coin.amount = head - 0
    BY <1>1, <2>2
  <2> QED
    BY <1>1, <1>4, <1>5, <2>0, <2>2, <2>3, <2>4, <2>6, <2>7, <2>8 DEF ModuleOutcome
<1>6. CASE m.kind = "royalty" /\ ~FeePanics(m.rate, price)
  <2>0. TakesFees(m)
    BY <1>6 DEF TakesFees
  <2>1. q = ApplyRoyalty(ps, m, owner, price)
    BY <1>1, <1>6 DEF ApplyModule
  <2>2. q \in Payments(T, D) /\ RoyaltyPaid(q, ps, owner, cur, coin, m.receivers, n, A, d)
    <3>1. m.receivers \in Seq(T) /\ coin \in [denom : D, amount : Nat]
      BY <1>4, <1>6, <2>0
    <3> QED
      BY <1>6, <2>1, <3>1, RoyaltyPays
  <2>3. \A e : RoyaltyIn(m, price, e) = InDenom(coin, e) * n
    BY <1>4, <1>6, <2>0 DEF RoyaltyIn
  <2>4. FeesIn(m, price, d, A) = x * c /\ x * c \in Nat /\ x * n \in Nat
    BY <1>4, <1>6, <2>0 DEF FeesIn
  <2>5. coin.amount * n = n * coin.amount /\ coin.amount * n \in Nat /\ 0 * n = 0
    BY <1>4, <1>6, <2>0
  <2>6. CASE Bearable(ps, cur, coin, n)
    <3>1. ASSUME NEW e
          PROVE  RoyaltyIn(m, price, e) <= LeftTo(ps, cur, e)
      <4>1. CASE n = 0
        <5>1. InDenom(coin, e) \in Nat /\ LeftTo(ps, cur, e) \in Nat
          BY <1>1, <1>4, <1>6, <2>0 DEF InDenom, LeftTo
        <5> QED
          BY <2>3, <4>1, <5>1
      <4>2. CASE coin.denom = cur /\ n * coin.amount <= head
        BY <1>1, <2>3, <2>5, <4>2 DEF InDenom, LeftTo
      <4> QED
        BY <2>6, <4>1, <4>2 DEF Bearable
    <3>2. ~Overdrawn(ps, m, price, D)
      <4>1. \A e : LeftTo(ps, cur, e) \in Nat /\ RoyaltyIn(m, price, e) \in Nat
        <5>1. \A e : InDenom(coin, e) \in Nat /\ LeftTo(ps, cur, e) \in Nat
          BY <1>1, <1>4, <1>6, <2>0 DEF InDenom, LeftTo
        <5> QED
          BY <1>4, <1>6, <2>0, <2>3, <5>1
      <4> QED
        BY <3>1, <4>1 DEF Overdrawn
    <3>3. /\ Headed(q, owner, cur)
          /\ q[1].coin.amount = head - n * coin.amount
          /\ ReceivedBy(q, A, d) = (ReceivedBy(ps, A, d) + x * c) - (IF owner \in A THEN x * n ELSE 0)
      BY <2>2, <2>6 DEF RoyaltyPaid
    <3>4. q[1].coin.amount = head - RoyaltyIn(m, price, cur)
      <4>1. CASE n = 0
        <5>1. InDenom(coin, cur) * n = 0 /\ n * coin.amount = 0
          BY <1>4, <1>6, <2>0, <4>1 DEF InDenom
        <5> QED
          BY <2>3, <3>3, <5>1
      <4>2. CASE coin.denom = cur
        <5>1. InDenom(coin, cur) = coin.amount
          BY <4>2 DEF InDenom
        <5> QED
          BY <2>3, <2>5, <3>3, <5>1
      <4> QED
        BY <2>6, <4>1, <4>2 DEF Bearable
    <3>5. RoyaltyIn(m, price, d) = x * n
      BY <2>3
    <3> QED
      BY <1>4, <1>6, <2>0, <2>2, <2>4, <3>2, <3>3, <3>4, <3>5 DEF ModuleOutcome
  <2>7. CASE ~Bearable(ps, cur, coin, n)
    <3>1. q = Refused
      BY <2>2, <2>7 DEF RoyaltyPaid
    <3>2. n \in Nat \ {0} /\ ~(coin.denom = cur /\ n * coin.amount <= head)
      BY <1>4, <1>6, <2>0, <2>7 DEF Bearable
    <3>3. Overdrawn(ps, m, price, D)
      <4>1. CASE coin.denom = cur
        <5>1. RoyaltyIn(m, price, cur) = coin.amount * n /\ LeftTo(ps, cur, cur) = head
          BY <2>3, <4>1 DEF InDenom, LeftTo
        <5>2. coin.amount * n > head
          BY <1>1, <2>5, <3>2, <4>1
        <5> QED
          BY <1>4, <1>6, <2>0, <4>1, <5>1, <5>2 DEF Overdrawn
      <4>2. CASE coin.denom # cur
        <5>1. RoyaltyIn(m, price, coin.denom) = coin.amount * n /\ LeftTo(ps, cur, coin.denom) = 0
          BY <2>3, <4>2 DEF InDenom, LeftTo
        <5>2. coin.amount > 0 /\ coin.amount \in Nat /\ coin.denom \in D
          BY <1>4, <1>6, <2>0, <4>2
        <5>3. coin.amount * n > 0
          BY <3>2, <5>2
        <5> QED
          BY <5>1, <5>2, <5>3 DEF Overdrawn
      <4> QED
        BY <4>1, <4>2
    <3> QED
      BY <1>4, <1>6, <2>0, <3>1, <3>3 DEF ModuleOutcome
  <2> QED
    BY <2>6, <2>7
<1> QED
  BY <1>2, <1>3, <1>5, <1>6 DEF TakesFees

\* The three outcomes, each as it is cited.
LEMMA ModuleFails ==
  ASSUME NEW T, NEW D, NEW ps \in Payments(T, D), NEW owner,
         NEW price, price.amount \in Nat, price.denom \in D,
         Headed(ps, owner, price.denom), NEW m, FeesGiven(m, T, D), ModulePanics(m, price)
  PROVE  ApplyModule(ps, m, owner, price) = Refused
<1>1. ModuleOutcome(ApplyModule(ps, m, owner, price), ps, owner, m, price, D, T, D)
  BY ModuleStep
<1> QED
  BY <1>1 DEF ModuleOutcome

LEMMA ModuleOverdraws ==
  ASSUME NEW T, NEW D, NEW ps \in Payments(T, D), NEW owner,
         NEW price, price.amount \in Nat, price.denom \in D,
         Headed(ps, owner, price.denom), NEW m, FeesGiven(m, T, D), ~ModulePanics(m, price),
         Overdrawn(ps, m, price, D)
  PROVE  ApplyModule(ps, m, owner, price) = Refused
<1>1. ModuleOutcome(ApplyModule(ps, m, owner, price), ps, owner, m, price, D, T, D)
  BY ModuleStep
<1> QED
  BY <1>1 DEF ModuleOutcome

LEMMA ModulePays ==
  ASSUME NEW T, NEW D, NEW ps \in Payments(T, D), NEW owner,
         NEW price, price.amount \in Nat, price.denom \in D,
         Headed(ps, owner, price.denom), NEW m, FeesGiven(m, T, D), ~ModulePanics(m, price),
         ~Overdrawn(ps, m, price, D), NEW A, NEW d
  PROVE  /\ Headed(ApplyModule(ps, m, owner, price), owner, price.denom)
         /\ ApplyModule(ps, m, owner, price)[1].coin.amount
              = ps[1].coin.amount - RoyaltyIn(m, price, price.denom)
         /\ ReceivedBy(ApplyModule(ps, m, owner, price), A, d)
              = (ReceivedBy(ps, A, d) + FeesIn(m, price, d, A))
                  - (IF owner \in A THEN RoyaltyIn(m, price, d) ELSE 0)
<1>1. ModuleOutcome(ApplyModule(ps, m, owner, price), ps, owner, m, price, D, A, d)
  BY ModuleStep
<1> QED
  BY <1>1 DEF ModuleOutcome

----------------------------------------------------------------------------
\* What the first k modules take from the price, and bring to these addresses.
Royalties(ms, price, e) == [i \in DOMAIN ms |-> RoyaltyIn(ms[i], price, e)]
FeesFor(ms, price, e, A) == [i \in DOMAIN ms |-> FeesIn(ms[i], price, e, A)]
RoyaltiesUpTo(ms, k, price, e) == SumFunctionOnSet(Royalties(ms, price, e), 1..k)
FeesUpTo(ms, k, price, e, A) == SumFunctionOnSet(FeesFor(ms, price, e, A), 1..k)

NonePanics(ms, k, price) == \A i \in 1..k : ~ModulePanics(ms[i], price)

ModuleList(ms, T, D) == \A i \in 1..Len(ms) : FeesGiven(ms[i], T, D)

PriceIn(price, D) == price.amount \in Nat /\ price.denom \in D

LEMMA FeeSums ==
  ASSUME NEW T, NEW D, NEW ms, DOMAIN ms = 1..Len(ms), Len(ms) \in Nat, ModuleList(ms, T, D),
         NEW price, PriceIn(price, D), NEW k \in 0..Len(ms), NonePanics(ms, k, price), NEW e, NEW A
  PROVE  /\ RoyaltiesUpTo(ms, k, price, e) \in Nat
         /\ FeesUpTo(ms, k, price, e, A) \in Nat
         /\ k = 0 => RoyaltiesUpTo(ms, k, price, e) = 0 /\ FeesUpTo(ms, k, price, e, A) = 0
         /\ k > 0 =>
              /\ RoyaltiesUpTo(ms, k, price, e)
                   = RoyaltyIn(ms[k], price, e) + RoyaltiesUpTo(ms, k - 1, price, e)
              /\ FeesUpTo(ms, k, price, e, A)
                   = FeesIn(ms[k], price, e, A) + FeesUpTo(ms, k - 1, price, e, A)
<1>0. PICK f, h : f = Royalties(ms, price, e) /\ h = FeesFor(ms, price, e, A)
  OBVIOUS
<1>1. ASSUME NEW i \in 1..k
      PROVE  /\ f[i] = RoyaltyIn(ms[i], price, e) /\ f[i] \in Nat
             /\ h[i] = FeesIn(ms[i], price, e, A) /\ h[i] \in Nat
  <2>1. i \in 1..Len(ms) /\ i \in DOMAIN ms
    OBVIOUS
  <2>2. f[i] = RoyaltyIn(ms[i], price, e) /\ h[i] = FeesIn(ms[i], price, e, A)
    BY <1>0, <2>1 DEF Royalties, FeesFor
  <2>3. FeesGiven(ms[i], T, D) /\ ~ModulePanics(ms[i], price) /\ price.amount \in Nat /\ price.denom \in D
    BY <2>1 DEF ModuleList, NonePanics, PriceIn
  <2>4. RoyaltyIn(ms[i], price, e) \in Nat /\ FeesIn(ms[i], price, e, A) \in Nat
    BY <2>3, FeesTyped
  <2> QED
    BY <2>2, <2>4
<1>2. IsFiniteSet(1..k) /\ k \in Nat
  BY FS_Interval
<1>3. SumFunctionOnSet(f, 1..k) \in Nat /\ SumFunctionOnSet(h, 1..k) \in Nat
  <2>1. \A i \in 1..k : f[i] \in Nat
    BY <1>1
  <2>2. \A i \in 1..k : h[i] \in Nat
    BY <1>1
  <2> QED
    BY <1>2, <2>1, <2>2, SumNat
<1>4. k = 0 => SumFunctionOnSet(f, 1..k) = 0 /\ SumFunctionOnSet(h, 1..k) = 0
  <2>1. 1..0 = {}
    OBVIOUS
  <2> QED
    BY <2>1, SumEmpty
<1>5. ASSUME k > 0
      PROVE  /\ SumFunctionOnSet(f, 1..k) = RoyaltyIn(ms[k], price, e) + SumFunctionOnSet(f, 1..(k - 1))
             /\ SumFunctionOnSet(h, 1..k) = FeesIn(ms[k], price, e, A) + SumFunctionOnSet(h, 1..(k - 1))
  <2>1. k \in Nat \ {0} /\ k \in 1..k
    BY <1>5
  <2>2. \A i \in 1..k : f[i] \in Int
    BY <1>1
  <2>3. \A i \in 1..k : h[i] \in Int
    BY <1>1
  <2>4. SumFunctionOnSet(f, 1..k) = f[k] + SumFunctionOnSet(f, 1..(k - 1))
    BY <2>1, <2>2, SumLast
  <2>5. SumFunctionOnSet(h, 1..k) = h[k] + SumFunctionOnSet(h, 1..(k - 1))
    BY <2>1, <2>3, SumLast
  <2>6. f[k] = RoyaltyIn(ms[k], price, e) /\ h[k] = FeesIn(ms[k], price, e, A)
    BY <1>1, <2>1
  <2> QED
    BY <2>4, <2>5, <2>6
<1> QED
  BY <1>0, <1>3, <1>4, <1>5 DEF RoyaltiesUpTo, FeesUpTo

\* What the first k modules leave of the price: nothing, if a fee of theirs cannot be
\* computed or their royalties are more than the price; otherwise they are paid.
PriceBears(ms, k, price, D) ==
  /\ NonePanics(ms, k, price)
  /\ \A e \in D : RoyaltiesUpTo(ms, k, price, e) <= InDenom(price, e)

SettledUpTo(b, ms, k, owner, price, D, A, d) ==
  IF PriceBears(ms, k, price, D)
  THEN /\ Headed(b, owner, price.denom)
       /\ b[1].coin.amount = price.amount - RoyaltiesUpTo(ms, k, price, price.denom)
       /\ ReceivedBy(b, A, d)
            = ((IF owner \in A THEN InDenom(price, d) ELSE 0) + FeesUpTo(ms, k, price, d, A))
                - (IF owner \in A THEN RoyaltiesUpTo(ms, k, price, d) ELSE 0)
  ELSE b = Refused

LEMMA SettledSum ==
  ASSUME NEW owner, NEW A, NEW f1 \in Nat, NEW r1 \in Nat, NEW x \in Nat, NEW y \in Nat, NEW z \in Nat,
         NEW f, f = x + f1, NEW r, r = y + r1,
         NEW rb, rb = ((IF owner \in A THEN z ELSE 0) + f1) - (IF owner \in A THEN r1 ELSE 0),
         NEW rq, rq = (rb + x) - (IF owner \in A THEN y ELSE 0)
  PROVE  rq = ((IF owner \in A THEN z ELSE 0) + f) - (IF owner \in A THEN r ELSE 0)
OBVIOUS

LEMMA SettledNext ==
  ASSUME NEW T, NEW D, NEW ms, DOMAIN ms = 1..Len(ms), Len(ms) \in Nat, ModuleList(ms, T, D),
         NEW price, PriceIn(price, D), NEW k \in 1..Len(ms), NEW owner, NEW A, NEW d,
         NEW b \in Payments(T, D),
         SettledUpTo(b, ms, k - 1, owner, price, D, A, d)
  PROVE  SettledUpTo(ApplyModule(b, ms[k], owner, price), ms, k, owner, price, D, A, d)
<1>0. PICK j, m, cur, q :
        j = k - 1 /\ m = ms[k] /\ cur = price.denom /\ q = ApplyModule(b, m, owner, price)
  OBVIOUS
<1>1. /\ j \in 0..Len(ms) /\ k \in 0..Len(ms) /\ k > 0 /\ k - 1 = j
      /\ FeesGiven(m, T, D) /\ price.amount \in Nat /\ price.denom \in D
        /\ cur \in D /\ cur = price.denom
  BY <1>0 DEF ModuleList, PriceIn
<1>2. NonePanics(ms, k, price) <=> NonePanics(ms, j, price) /\ ~ModulePanics(m, price)
  <2>1. \A i : i \in 1..k <=> i \in 1..j \/ i = k
    BY <1>1
  <2> QED
    BY <1>0, <2>1 DEF NonePanics
<1>3. CASE ~PriceBears(ms, j, price, D)
  <2>1. b = Refused
    BY <1>0, <1>3 DEF SettledUpTo
  <2>2. q = Refused
    BY <1>0, <2>1 DEF ApplyModule
  <2>3. ~PriceBears(ms, k, price, D)
    <3>1. CASE ~NonePanics(ms, k, price)
      BY <3>1 DEF PriceBears
    <3>2. CASE NonePanics(ms, k, price)
      <4>1. NonePanics(ms, j, price)
        BY <1>2, <3>2
      <4>2. PICK e \in D : ~(RoyaltiesUpTo(ms, j, price, e) <= InDenom(price, e))
        BY <1>3, <4>1 DEF PriceBears
      <4>3. RoyaltiesUpTo(ms, k, price, e) = RoyaltyIn(m, price, e) + RoyaltiesUpTo(ms, j, price, e)
        BY <1>0, <1>1, <3>2, FeeSums
      <4>4. RoyaltiesUpTo(ms, j, price, e) \in Nat
        BY <1>1, <4>1, FeeSums
      <4>5. RoyaltyIn(m, price, e) \in Nat /\ InDenom(price, e) \in Nat
        <5>1. ~ModulePanics(m, price)
          BY <1>2, <3>2
        <5> QED
          BY <1>1, <5>1, FeesTyped DEF InDenom
      <4>6. ~(RoyaltiesUpTo(ms, k, price, e) <= InDenom(price, e))
        BY <4>2, <4>3, <4>4, <4>5
      <4> QED
        BY <4>6 DEF PriceBears
    <3> QED
      BY <3>1, <3>2
  <2> QED
    BY <1>0, <2>2, <2>3 DEF SettledUpTo
<1>4. CASE PriceBears(ms, j, price, D)
  <2>0. Headed(b, owner, price.denom)
    BY <1>0, <1>4 DEF SettledUpTo
  <2>1. /\ Headed(b, owner, cur)
        /\ b[1].coin.amount = price.amount - RoyaltiesUpTo(ms, j, price, cur)
        /\ ReceivedBy(b, A, d)
             = ((IF owner \in A THEN InDenom(price, d) ELSE 0) + FeesUpTo(ms, j, price, d, A))
                 - (IF owner \in A THEN RoyaltiesUpTo(ms, j, price, d) ELSE 0)
    BY <1>0, <1>4 DEF SettledUpTo
  <2>2. NonePanics(ms, j, price) /\ \A e \in D : RoyaltiesUpTo(ms, j, price, e) <= InDenom(price, e)
    BY <1>4 DEF PriceBears
  <2>3. CASE ModulePanics(m, price)
    <3>1. ApplyModule(b, m, owner, price) = Refused
      BY <1>1, <2>0, <2>3, ModuleFails
    <3>2. ~PriceBears(ms, k, price, D)
      BY <1>2, <2>3 DEF PriceBears
    <3> QED
      <4>1. q = Refused
        BY <1>0, <3>1
      <4> QED
        BY <1>0, <3>2, <4>1 DEF SettledUpTo
  <2>4. CASE ~ModulePanics(m, price)
    <3>1. NonePanics(ms, k, price)
      BY <1>2, <2>2, <2>4
    <3>2. ASSUME NEW e
          PROVE  /\ RoyaltiesUpTo(ms, k, price, e) = RoyaltyIn(m, price, e) + RoyaltiesUpTo(ms, j, price, e)
                 /\ FeesUpTo(ms, k, price, e, A) = FeesIn(m, price, e, A) + FeesUpTo(ms, j, price, e, A)
                 /\ RoyaltiesUpTo(ms, j, price, e) \in Nat /\ FeesUpTo(ms, j, price, e, A) \in Nat
                 /\ RoyaltyIn(m, price, e) \in Nat /\ FeesIn(m, price, e, A) \in Nat
                 /\ InDenom(price, e) \in Nat
      <4>1. /\ RoyaltiesUpTo(ms, k, price, e) = RoyaltyIn(m, price, e) + RoyaltiesUpTo(ms, j, price, e)
            /\ FeesUpTo(ms, k, price, e, A) = FeesIn(m, price, e, A) + FeesUpTo(ms, j, price, e, A)
        BY <1>0, <1>1, <3>1, FeeSums
      <4>2. RoyaltiesUpTo(ms, j, price, e) \in Nat /\ FeesUpTo(ms, j, price, e, A) \in Nat
        BY <1>1, <2>2, FeeSums
      <4>3. RoyaltyIn(m, price, e) \in Nat /\ FeesIn(m, price, e, A) \in Nat
        BY <1>1, <2>4, FeesTyped
      <4> QED
        BY <1>1, <4>1, <4>2, <4>3 DEF InDenom
    <3>3. ASSUME NEW e \in D
          PROVE  LeftTo(b, cur, e) = InDenom(price, e) - RoyaltiesUpTo(ms, j, price, e)
      <4>1. CASE e = cur
        BY <1>1, <2>1, <4>1 DEF LeftTo, InDenom
      <4>2. CASE e # cur
        <5>1. InDenom(price, e) = 0 /\ LeftTo(b, cur, e) = 0
          BY <1>1, <4>2 DEF LeftTo, InDenom
        <5>2. RoyaltiesUpTo(ms, j, price, e) = 0
          BY <2>2, <3>2, <5>1
        <5> QED
          BY <5>1, <5>2
      <4> QED
        BY <4>1, <4>2
    <3>4. PriceBears(ms, k, price, D) <=> ~Overdrawn(b, m, price, D)
      <4>1. ASSUME NEW e \in D
            PROVE  RoyaltiesUpTo(ms, k, price, e) <= InDenom(price, e)
                     <=> ~(RoyaltyIn(m, price, e) > LeftTo(b, cur, e))
        <5> PICK r, r1, x, y, l : /\ r = RoyaltiesUpTo(ms, k, price, e) /\ r1 = RoyaltiesUpTo(ms, j, price, e)
                                  /\ x = RoyaltyIn(m, price, e) /\ y = InDenom(price, e)
                                  /\ l = LeftTo(b, cur, e)
          OBVIOUS
        <5>1. r = x + r1 /\ l = y - r1 /\ r1 \in Nat /\ x \in Nat /\ y \in Nat
          BY <3>2, <3>3
        <5>2. r <= y <=> ~(x > l)
          BY <5>1
        <5> QED
          BY <5>2
      <4> QED
        BY <1>0, <3>1, <4>1 DEF PriceBears, Overdrawn
    <3>5. CASE Overdrawn(b, m, price, D)
      <4>1. q = Refused
        <5>1. ApplyModule(b, m, owner, price) = Refused
          BY <1>1, <2>0, <2>4, <3>5, ModuleOverdraws
        <5> QED
          BY <1>0, <5>1
      <4> QED
        BY <1>0, <3>4, <3>5, <4>1 DEF SettledUpTo
    <3>6. CASE ~Overdrawn(b, m, price, D)
      <4>1. /\ Headed(q, owner, cur)
            /\ q[1].coin.amount = b[1].coin.amount - RoyaltyIn(m, price, cur)
            /\ ReceivedBy(q, A, d) = (ReceivedBy(b, A, d) + FeesIn(m, price, d, A))
                                       - (IF owner \in A THEN RoyaltyIn(m, price, d) ELSE 0)
        <5>1. /\ Headed(ApplyModule(b, m, owner, price), owner, cur)
              /\ ApplyModule(b, m, owner, price)[1].coin.amount = b[1].coin.amount - RoyaltyIn(m, price, cur)
              /\ ReceivedBy(ApplyModule(b, m, owner, price), A, d)
                   = (ReceivedBy(b, A, d) + FeesIn(m, price, d, A))
                       - (IF owner \in A THEN RoyaltyIn(m, price, d) ELSE 0)
          BY <1>1, <2>0, <2>4, <3>6, ModulePays
        <5> QED
          BY <1>0, <5>1
      <4>2. q[1].coin.amount = price.amount - RoyaltiesUpTo(ms, k, price, cur)
        <5> PICK r, r1, y : /\ r = RoyaltiesUpTo(ms, k, price, cur) /\ r1 = RoyaltiesUpTo(ms, j, price, cur)
                            /\ y = RoyaltyIn(m, price, cur)
          OBVIOUS
        <5>1. r = y + r1 /\ r1 \in Nat /\ y \in Nat /\ price.amount \in Nat
          BY <1>1, <3>2
        <5>2. b[1].coin.amount = price.amount - r1 /\ q[1].coin.amount = b[1].coin.amount - y
          BY <2>1, <4>1
        <5>3. q[1].coin.amount = price.amount - r
          BY <5>1, <5>2
        <5> QED
          BY <5>3
      <4>3. ReceivedBy(q, A, d)
             = ((IF owner \in A THEN InDenom(price, d) ELSE 0) + FeesUpTo(ms, k, price, d, A))
                 - (IF owner \in A THEN RoyaltiesUpTo(ms, k, price, d) ELSE 0)
        BY <2>1, <3>2, <4>1, SettledSum
      <4> QED
        BY <1>0, <3>4, <3>6, <4>1, <4>2, <4>3 DEF SettledUpTo
    <3> QED
      BY <3>5, <3>6
  <2> QED
    BY <2>3, <2>4
<1> QED
  BY <1>3, <1>4

----------------------------------------------------------------------------
LEMMA ModuleTyped ==
  ASSUME NEW T, NEW D, NEW ps \in Payments(T, D), NEW owner,
         NEW price, price.amount \in Nat, price.denom \in D,
         ps = Refused \/ Headed(ps, owner, price.denom), NEW m, FeesGiven(m, T, D)
  PROVE  /\ ApplyModule(ps, m, owner, price) \in Payments(T, D)
         /\ \/ ApplyModule(ps, m, owner, price) = Refused
            \/ Headed(ApplyModule(ps, m, owner, price), owner, price.denom)
<1> PICK q, cur, coin : /\ q = ApplyModule(ps, m, owner, price) /\ cur = price.denom
                        /\ coin = CalculateFee(m.rate, price)
  OBVIOUS
<1>1. Refused \in Payments(T, D)
  BY DEF Refused, Payments
<1>2. CASE ps = Refused
  BY <1>1, <1>2 DEF ApplyModule
<1>3. CASE Headed(ps, owner, cur)
  <2>0. ps # Refused
    BY <1>3 DEF Headed
  <2>1. CASE ~TakesFees(m)
    <3>1. q = ps
      BY <2>0, <2>1 DEF ApplyModule, TakesFees
    <3> QED
      BY <1>3, <3>1
  <2>2. CASE ModulePanics(m, price)
    <3>1. q = Refused
      BY <2>0, <2>2 DEF ModulePanics, ApplyModule, TakesFees, ApplyTax, ApplyRoyalty
    <3> QED
      BY <1>1, <3>1
  <2>3. ASSUME TakesFees(m), ~ModulePanics(m, price)
        PROVE  /\ coin \in [denom : D, amount : Nat] /\ m.receivers \in Seq(T)
               /\ ~FeePanics(m.rate, price)
    BY <2>3, FeesTyped DEF FeesGiven, ModulePanics
  <2>4. CASE m.kind = "tax" /\ ~ModulePanics(m, price)
    <3>1. TakesFees(m) /\ q = ApplyTax(ps, m, price)
      BY <2>0, <2>4 DEF TakesFees, ApplyModule
    <3>2. q \in Payments(T, D) /\ q # Refused /\ q[1] = ps[1]
      <4>1. ReceivedBy(q, T, D) = ReceivedBy(ps, T, D) + InDenom(coin, D) * Count(m.receivers, Len(m.receivers), T)
            /\ q \in Payments(T, D) /\ q # Refused /\ q[1] = ps[1]
        BY <2>0, <2>3, <2>4, <3>1, TaxPays
      <4> QED
        BY <4>1
    <3> QED
      BY <1>3, <3>2 DEF Headed
  <2>5. CASE m.kind = "royalty" /\ ~ModulePanics(m, price)
    <3>1. TakesFees(m) /\ q = ApplyRoyalty(ps, m, owner, price)
      BY <2>0, <2>5 DEF TakesFees, ApplyModule
    <3>2. q \in Payments(T, D) /\ RoyaltyPaid(q, ps, owner, cur, coin, m.receivers, Len(m.receivers), T, D)
      <4>1. m.receivers \in Seq(T) /\ coin \in [denom : D, amount : Nat] /\ ~FeePanics(m.rate, price)
        BY <2>3, <2>5, <3>1
      <4> QED
        BY <1>3, <3>1, <4>1, RoyaltyPays
    <3>3. q = Refused \/ Headed(q, owner, cur)
      BY <3>2 DEF RoyaltyPaid
    <3> QED
      BY <3>2, <3>3
  <2> QED
    BY <2>1, <2>2, <2>4, <2>5 DEF TakesFees
<1> QED
  BY <1>2, <1>3

\* The payment the others start from.
LEMMA PriceIsFirst ==
  ASSUME NEW T, NEW D, NEW owner \in T, NEW price \in [denom : D, amount : Nat], NEW A, NEW d
  PROVE  /\ <<Payment(owner, price)>> \in Payments(T, D)
         /\ Headed(<<Payment(owner, price)>>, owner, price.denom)
         /\ <<Payment(owner, price)>>[1].coin = price
         /\ ReceivedBy(<<Payment(owner, price)>>, A, d) = (IF owner \in A THEN InDenom(price, d) ELSE 0)
<1>1. PICK ps, e : ps = <<Payment(owner, price)>> /\ e = Refused
  OBVIOUS
<1>2. e \in Payments(T, D) /\ DOMAIN e = 1..0 /\ 1..0 = {}
  BY <1>1 DEF Refused, Payments
<1>3. ReceivedBy(e, A, d) = 0
  <2>1. DOMAIN Income(e, A, d) = {}
    BY <1>2 DEF Income
  <2> QED
    BY <2>1, SumEmpty DEF ReceivedBy, SumFunction
<1>4. ps = AddPayment(e, owner, price)
  BY <1>1 DEF AddPayment, Refused
<1>5. /\ ps \in Payments(T, D)
      /\ ReceivedBy(ps, A, d) = ReceivedBy(e, A, d) + (IF owner \in A THEN InDenom(price, d) ELSE 0)
  BY <1>2, <1>4, PaidAppend
<1>6. ps # Refused /\ ps[1] = Payment(owner, price)
  BY <1>1 DEF Refused
<1>7. ps[1].to = owner /\ ps[1].coin = price
  BY <1>6 DEF Payment
<1>8. (IF owner \in A THEN InDenom(price, d) ELSE 0) \in Nat
  BY DEF InDenom
<1>9. ReceivedBy(ps, A, d) = (IF owner \in A THEN InDenom(price, d) ELSE 0)
  BY <1>3, <1>5, <1>8
<1>10. Headed(ps, owner, price.denom)
  BY <1>6, <1>7 DEF Headed
<1> QED
  BY <1>1, <1>5, <1>7, <1>9, <1>10

\* The payments of an agreed transfer.
LEMMA AgreedSettles ==
  ASSUME NEW T, NEW D, NEW ms, DOMAIN ms = 1..Len(ms), Len(ms) \in Nat, ModuleList(ms, T, D),
         NEW owner \in T, NEW price \in [denom : D, amount : Nat], NEW A, NEW d
  PROVE  /\ AgreedPayments(ms, owner, price) \in Payments(T, D)
         /\ SettledUpTo(AgreedPayments(ms, owner, price), ms, Len(ms), owner, price, D, A, d)
<1> PICK V, cur, n : V = Payments(T, D) /\ cur = price.denom /\ n = Len(ms)
  OBVIOUS
<1>0. PICK first : first = <<Payment(owner, price)>>
  OBVIOUS
<1>1. /\ first \in V /\ Headed(first, owner, cur) /\ first[1].coin = price
      /\ ReceivedBy(first, A, d) = (IF owner \in A THEN InDenom(price, d) ELSE 0)
  BY <1>0, PriceIsFirst
<1> PICK W : W = {b \in V : b = Refused \/ Headed(b, owner, cur)}
  OBVIOUS
<1> DEFINE step == [k \in 1..n |-> [b \in W |-> ApplyModule(b, ms[k], owner, price)]]
           IsFold(it) == it = [s \in SUBSET (1..n) |-> IF s = {} THEN first
                                 ELSE LET k == Max(s) IN ApplyModule(it[s \ {k}], ms[k], owner, price)]
           iter == CHOOSE it : IsFold(it)
<1>2. AgreedPayments(ms, owner, price) = iter[1..n]
  BY <1>0 DEF AgreedPayments, FoldLeft, MapThenFoldSet
<1>3. first \in W /\ \A b \in W : b \in V
  BY <1>1
<1>4. ASSUME NEW b \in W, NEW k \in 1..n
      PROVE  ApplyModule(b, ms[k], owner, price) \in W
  <2>1. /\ b \in Payments(T, D) /\ (b = Refused \/ Headed(b, owner, price.denom))
        /\ FeesGiven(ms[k], T, D) /\ price.amount \in Nat /\ price.denom \in D
    BY DEF ModuleList
  <2>2. /\ ApplyModule(b, ms[k], owner, price) \in Payments(T, D)
        /\ \/ ApplyModule(b, ms[k], owner, price) = Refused
           \/ Headed(ApplyModule(b, ms[k], owner, price), owner, price.denom)
    BY <2>1, ModuleTyped
  <2> QED
    BY <2>2
<1>5. step \in [1..n -> [W -> W]]
  BY <1>4
<1>6. n \in Nat /\ \A s \in (SUBSET (1..n)) \ {{}} : Max(s) \in s /\ s \ {Max(s)} \in SUBSET (1..n)
  BY MaxExists
<1>7. \E it : IsFold(it)
  <2>1. PICK it \in [SUBSET (1..n) -> W] : IsLeftFold(it, n, first, step)
    <3> HIDE DEF step
    <3> QED
      BY <1>3, <1>5, <1>6, LeftFoldExists
  <2>2. IsFold(it)
    BY <1>6, <2>1 DEF IsLeftFold
  <2> QED
    BY <2>2
<1>8. IsFold(iter)
  <2> HIDE DEF IsFold
  <2> QED
    BY <1>7
<1>9. Iterating(iter, n, W, first, step)
  <2> HIDE DEF iter
  <2>1. iter[{}] = first
    BY <1>8
  <2>2. ASSUME NEW s \in (SUBSET (1..n)) \ {{}}, iter[s \ {Max(s)}] \in W
        PROVE  iter[s] = step[Max(s)][iter[s \ {Max(s)}]]
    <3> PICK k, b : k = Max(s) /\ b = iter[s \ {k}]
      OBVIOUS
    <3>1. k \in 1..n /\ b \in W
      BY <1>6, <2>2
    <3>2. iter[s] = ApplyModule(b, ms[k], owner, price)
      BY <1>8
    <3>3. step[k][b] = ApplyModule(b, ms[k], owner, price)
      BY <3>1
    <3> QED
      BY <3>2, <3>3
  <2> HIDE DEF step
  <2> QED
    BY <2>1, <2>2 DEF Iterating
<1>10. PICK g : Results(g, n, W, first, step, iter[1..n])
  <2> HIDE DEF step, iter
  <2> QED
    BY <1>3, <1>5, <1>6, <1>9, Iterates
<1>11. /\ \A k \in 0..n : g[k] \in W
       /\ g[0] = first /\ g[n] = AgreedPayments(ms, owner, price)
       /\ \A k \in 1..n : g[k] = ApplyModule(g[k - 1], ms[k], owner, price)
  <2>1. \A k \in 0..n : g[k] \in W
    BY <1>10 DEF Results
  <2>2. ASSUME NEW k \in 1..n
        PROVE  g[k] = ApplyModule(g[k - 1], ms[k], owner, price)
    <3> PICK b : b = g[k - 1]
      OBVIOUS
    <3>1. b \in W
      <4>1. k - 1 \in 0..n
        BY <1>6
      <4> QED
        BY <2>1, <4>1
    <3>2. step[k][b] = ApplyModule(b, ms[k], owner, price)
      BY <3>1
    <3> HIDE DEF step
    <3> QED
      BY <1>10, <3>2 DEF Results
  <2> QED
    BY <1>2, <1>10, <2>1, <2>2 DEF Results
<1> HIDE DEF iter, step, IsFold
<1>12. PriceIn(price, D)
  BY DEF PriceIn
<1> DEFINE Good == {k \in 0..n : SettledUpTo(g[k], ms, k, owner, price, D, A, d)}
<1>13. 0 \in Good
  <2>1. NonePanics(ms, 0, price)
    BY DEF NonePanics
  <2>2. 0 \in 0..Len(ms)
    OBVIOUS
  <2>3. ASSUME NEW e
        PROVE  /\ RoyaltiesUpTo(ms, 0, price, e) = 0 /\ FeesUpTo(ms, 0, price, e, A) = 0
               /\ InDenom(price, e) \in Nat
    <3>1. RoyaltiesUpTo(ms, 0, price, e) = 0 /\ FeesUpTo(ms, 0, price, e, A) = 0
      BY <1>12, <2>1, <2>2, FeeSums
    <3> QED
      BY <3>1 DEF InDenom
  <2>4. PriceBears(ms, 0, price, D)
    BY <2>1, <2>3 DEF PriceBears
  <2>5. first[1].coin.amount = price.amount - RoyaltiesUpTo(ms, 0, price, price.denom)
    BY <1>1, <2>3
  <2>6. ReceivedBy(first, A, d)
          = ((IF owner \in A THEN InDenom(price, d) ELSE 0) + FeesUpTo(ms, 0, price, d, A))
              - (IF owner \in A THEN RoyaltiesUpTo(ms, 0, price, d) ELSE 0)
    BY <1>1, <2>3
  <2>7. SettledUpTo(first, ms, 0, owner, price, D, A, d)
    BY <1>1, <2>4, <2>5, <2>6 DEF SettledUpTo
  <2> QED
    BY <1>6, <1>11, <2>7
<1>14. ASSUME NEW k \in 1..n, k - 1 \in Good
       PROVE  k \in Good
  <2>1. PICK b : b = g[k - 1]
    OBVIOUS
  <2>2. b \in Payments(T, D) /\ g[k] = ApplyModule(b, ms[k], owner, price) /\ k \in 1..Len(ms)
    <3>1. k - 1 \in 0..n
      BY <1>6
    <3>2. b \in W
      BY <1>11, <2>1, <3>1
    <3> QED
      BY <1>3, <1>11, <2>1, <3>2
  <2>3. SettledUpTo(b, ms, k - 1, owner, price, D, A, d)
    BY <1>14, <2>1
  <2>4. SettledUpTo(ApplyModule(b, ms[k], owner, price), ms, k, owner, price, D, A, d)
    BY <1>12, <2>2, <2>3, SettledNext
  <2> QED
    BY <1>6, <2>2, <2>4
<1>15. n \in Good
  <2> HIDE DEF Good
  <2>1. \A k \in 1..n : k - 1 \in Good => k \in Good
    BY <1>14
  <2>2. \A k \in 0..n : k \in Good
    BY <1>6, <1>13, <2>1, CountUp
  <2> QED
    BY <1>6, <2>2
<1> QED
  BY <1>3, <1>6, <1>11, <1>15

----------------------------------------------------------------------------
\* A module that takes fees names each of its receivers once for each place in its list.
LEMMA NamedIsCount ==
  ASSUME NEW T, NEW D, NEW m, FeesGiven(m, T, D), TakesFees(m), NEW A
  PROVE  /\ TimesNamed(m, A) = Count(m.receivers, Len(m.receivers), A)
         /\ Cardinality(DOMAIN m.receivers) = Len(m.receivers)
<1>1. m.receivers \in Seq(T)
  BY DEF FeesGiven
<1> PICK n : n = Len(m.receivers)
  OBVIOUS
<1>2. n \in Nat /\ DOMAIN m.receivers = 1..n
  BY <1>1
<1>3. Cardinality(1..n) = n
  <2>1. 1 \in Int /\ n \in Int /\ (IF 1 > n THEN 0 ELSE n - 1 + 1) = n
    BY <1>2
  <2> QED
    BY <2>1, FS_Interval
<1>4. TimesNamed(m, A) = Count(m.receivers, n, A)
  BY <1>2 DEF TimesNamed, Count
<1> QED
  BY <1>2, <1>3, <1>4

\* What the modules of one kind take or add, module by module.
KindIn(kind, m, price, d) == IF m.kind = kind THEN FeeDue(m, price, d) * Len(m.receivers) ELSE 0
KindFees(kind, ms, price, d) == [i \in DOMAIN ms |-> KindIn(kind, ms[i], price, d)]

\* The sum of the settlement, which leaves out the modules of other kinds.
LEMMA KindSums ==
  ASSUME NEW T, NEW D, NEW ms, DOMAIN ms = 1..Len(ms), Len(ms) \in Nat, ModuleList(ms, T, D),
         NEW price, PriceIn(price, D), NonePanics(ms, Len(ms), price), NEW d,
         NEW kind \in {"tax", "royalty"}
  PROVE  /\ FeesOfKind(kind, ms, price, d) = SumFunctionOnSet(KindFees(kind, ms, price, d), 1..Len(ms))
         /\ \A i \in 1..Len(ms) : /\ KindFees(kind, ms, price, d)[i] = KindIn(kind, ms[i], price, d)
                                   /\ KindFees(kind, ms, price, d)[i] \in Nat
<1>0. PICK n, S : n = Len(ms) /\ S = 1..n
  OBVIOUS
<1>1. n \in Nat /\ IsFiniteSet(S) /\ S = DOMAIN ms /\ n = Len(ms) /\ S = 1..n
  BY <1>0, FS_Interval
<1>2. PICK R, h, k :
        /\ R = FeeModulesOf(ms, {kind}) /\ h = KindFees(kind, ms, price, d)
        /\ k = [i \in FeeModulesOf(ms, {kind}) |->
                  FeeDue(ms[i], price, d) * Cardinality(DOMAIN ms[i].receivers)]
  OBVIOUS
<1>3. R \in SUBSET S /\ \A i \in S : i \in R <=> ms[i].kind = kind
  BY <1>1, <1>2 DEF FeeModulesOf
<1>4. \A i \in S : h[i] = KindIn(kind, ms[i], price, d)
  BY <1>1, <1>2 DEF KindFees
<1>5. ASSUME NEW i \in R
      PROVE  h[i] \in Nat /\ k[i] = h[i]
  <2>0. PICK m : m = ms[i]
    OBVIOUS
  <2>1. i \in S /\ m.kind = kind /\ TakesFees(m)
    BY <1>3, <2>0 DEF TakesFees
  <2>2. FeesGiven(m, T, D) /\ ~ModulePanics(m, price)
    BY <1>1, <2>0, <2>1 DEF ModuleList, NonePanics
  <2>3. Cardinality(DOMAIN m.receivers) = Len(m.receivers)
    <3>1. TimesNamed(m, T) = Count(m.receivers, Len(m.receivers), T)
          /\ Cardinality(DOMAIN m.receivers) = Len(m.receivers)
      BY <2>1, <2>2, NamedIsCount
    <3> QED
      BY <3>1
  <2>4. k[i] = FeeDue(m, price, d) * Len(m.receivers)
    BY <1>2, <2>0, <2>3
  <2>5. FeeDue(m, price, d) \in Nat
    <3>1. RateGiven(m.rate) /\ ~FeePanics(m.rate, price) /\ price.amount \in Nat
      BY <2>1, <2>2 DEF FeesGiven, ModulePanics, PriceIn
    <3> QED
      BY <3>1, FeeIsDue
  <2>6. Len(m.receivers) \in Nat
    BY <2>1, <2>2 DEF FeesGiven
  <2>7. h[i] = FeeDue(m, price, d) * Len(m.receivers)
    BY <1>4, <2>0, <2>1 DEF KindIn
  <2> QED
    BY <2>4, <2>5, <2>6, <2>7
<1>6. \A i \in S \ R : h[i] = 0
  BY <1>3, <1>4 DEF KindIn
<1>7. SumFunctionOnSet(h, S) = SumFunctionOnSet(k, R)
  <2>1. \A i \in R : h[i] \in Int /\ k[i] = h[i]
    BY <1>5
  <2>2. IsFiniteSet(S) /\ R \in SUBSET S
    BY <1>1, <1>3
  <2> QED
    BY <1>6, <2>1, <2>2, SumRestricted
<1>8. DOMAIN k = R
  BY <1>2
<1>9. FeesOfKind(kind, ms, price, d) = SumFunctionOnSet(k, DOMAIN k)
  BY <1>2 DEF FeesOfKind, SumFunction
<1>10. \A i \in S : h[i] \in Nat
  <2> TAKE i \in S
  <2>1. CASE i \in R
    BY <1>5, <2>1
  <2>2. CASE i \notin R
    BY <1>6, <2>2
  <2> QED
    BY <2>1, <2>2
<1> QED
  BY <1>0, <1>2, <1>4, <1>7, <1>8, <1>9, <1>10

\* The sums of the settlement, which leave out the modules without fees.
LEMMA SettlementSums ==
  ASSUME NEW T, NEW D, NEW ms, DOMAIN ms = 1..Len(ms), Len(ms) \in Nat, ModuleList(ms, T, D),
         NEW price, PriceIn(price, D), NonePanics(ms, Len(ms), price), NEW d, NEW a
  PROVE  /\ FeesOfKind("royalty", ms, price, d) = RoyaltiesUpTo(ms, Len(ms), price, d)
         /\ FeesTo(a, ms, price, d) = FeesUpTo(ms, Len(ms), price, d, {a})
<1>0. PICK n, S : n = Len(ms) /\ S = 1..n
  OBVIOUS
<1>1. n \in Nat /\ IsFiniteSet(S) /\ S = DOMAIN ms /\ n = Len(ms) /\ S = 1..n
  BY <1>0, FS_Interval
<1>2. ASSUME NEW i \in S
      PROVE  FeesGiven(ms[i], T, D) /\ ~ModulePanics(ms[i], price)
  BY <1>0 DEF ModuleList, NonePanics
<1>3. ASSUME NEW i \in S, NEW A
      PROVE  RoyaltyIn(ms[i], price, d) \in Int /\ FeesIn(ms[i], price, d, A) \in Int
  BY <1>2, FeesTyped DEF PriceIn
<1>4. FeesOfKind("royalty", ms, price, d) = RoyaltiesUpTo(ms, n, price, d)
  <2>1. PICK h : h = KindFees("royalty", ms, price, d)
    OBVIOUS
  <2>2. /\ FeesOfKind("royalty", ms, price, d) = SumFunctionOnSet(KindFees("royalty", ms, price, d), 1..Len(ms))
        /\ \A i \in 1..Len(ms) : /\ KindFees("royalty", ms, price, d)[i] = KindIn("royalty", ms[i], price, d)
                                  /\ KindFees("royalty", ms, price, d)[i] \in Nat
    BY KindSums
  <2>3. h = Royalties(ms, price, d)
    BY <2>1 DEF KindFees, KindIn, Royalties, RoyaltyIn
  <2> QED
    BY <1>0, <2>1, <2>2, <2>3 DEF RoyaltiesUpTo
<1>5. FeesTo(a, ms, price, d) = FeesUpTo(ms, n, price, d, {a})
  <2>0. PICK R, h, k :
          /\ R = FeeModulesOf(ms, {"tax", "royalty"}) /\ h = FeesFor(ms, price, d, {a})
          /\ k = [i \in FeeModulesOf(ms, {"tax", "royalty"}) |->
                    FeeDue(ms[i], price, d) * TimesNamed(ms[i], {a})]
    OBVIOUS
  <2>1. R \in SUBSET S /\ \A i \in S : i \in R <=> TakesFees(ms[i])
    BY <1>1, <2>0 DEF FeeModulesOf, TakesFees
  <2>2. \A i \in S : h[i] = FeesIn(ms[i], price, d, {a})
    BY <1>1, <2>0 DEF FeesFor
  <2>3. ASSUME NEW i \in R
        PROVE  h[i] \in Int /\ k[i] = h[i]
    <3>1. i \in S /\ TakesFees(ms[i]) /\ FeesGiven(ms[i], T, D)
      BY <1>2, <2>1
    <3>2. TimesNamed(ms[i], {a}) = Count(ms[i].receivers, Len(ms[i].receivers), {a})
      BY <3>1, NamedIsCount
    <3>3. k[i] = FeeDue(ms[i], price, d) * TimesNamed(ms[i], {a})
      BY <2>0
    <3>4. FeesIn(ms[i], price, d, {a}) = FeeDue(ms[i], price, d) * TimesNamed(ms[i], {a})
      BY <3>1, <3>2 DEF FeesIn
    <3>5. FeesIn(ms[i], price, d, {a}) \in Int
      BY <1>3, <3>1
    <3> QED
      BY <2>2, <3>1, <3>3, <3>4, <3>5
  <2>4. \A i \in S \ R : h[i] = 0
    BY <2>1, <2>2 DEF FeesIn
  <2>5. SumFunctionOnSet(h, S) = SumFunctionOnSet(k, R)
    <3>1. \A i \in R : h[i] \in Int /\ k[i] = h[i]
      BY <2>3
    <3>2. IsFiniteSet(S) /\ R \in SUBSET S
      BY <1>1, <2>1
    <3> QED
      BY <2>4, <3>1, <3>2, SumRestricted
  <2>6. DOMAIN k = R
    BY <2>0
  <2>7. FeesTo(a, ms, price, d) = SumFunctionOnSet(k, DOMAIN k)
    BY <2>0 DEF FeesTo, SumFunction
  <2> QED
    BY <1>0, <2>0, <2>5, <2>6, <2>7 DEF FeesUpTo
<1> QED
  BY <1>0, <1>4, <1>5

\* Refused exactly when the price does not bear its royalties; otherwise every
\* address is paid what it is due.
LEMMA AgreedIsDue ==
  ASSUME NEW T, NEW D, NEW ms, DOMAIN ms = 1..Len(ms), Len(ms) \in Nat, ModuleList(ms, T, D),
         NEW owner \in T, NEW price \in [denom : D, amount : Nat], NEW a, NEW d
  PROVE  /\ AgreedPayments(ms, owner, price) = Refused <=> ~PriceBears(ms, Len(ms), price, D)
         /\ AgreedPayments(ms, owner, price) # Refused =>
              ReceivedBy(AgreedPayments(ms, owner, price), {a}, d) = Due(a, owner, ms, price, d)
<1> PICK n, ps : n = Len(ms) /\ ps = AgreedPayments(ms, owner, price)
  OBVIOUS
<1>1. SettledUpTo(ps, ms, n, owner, price, D, {a}, d)
  BY AgreedSettles
<1>2. ps = Refused <=> ~PriceBears(ms, n, price, D)
  BY <1>1 DEF SettledUpTo, Headed
<1>3. ASSUME ps # Refused
      PROVE  ReceivedBy(ps, {a}, d) = Due(a, owner, ms, price, d)
  <2>1. NonePanics(ms, n, price) /\ PriceBears(ms, n, price, D) /\ PriceIn(price, D)
    BY <1>2, <1>3 DEF PriceBears, PriceIn
  <2>2. ReceivedBy(ps, {a}, d)
          = ((IF owner \in {a} THEN InDenom(price, d) ELSE 0) + FeesUpTo(ms, n, price, d, {a}))
              - (IF owner \in {a} THEN RoyaltiesUpTo(ms, n, price, d) ELSE 0)
    BY <1>1, <2>1 DEF SettledUpTo
  <2>3. /\ FeesOfKind("royalty", ms, price, d) = RoyaltiesUpTo(ms, n, price, d)
        /\ FeesTo(a, ms, price, d) = FeesUpTo(ms, n, price, d, {a})
    <3>1. /\ FeesOfKind("royalty", ms, price, d) = RoyaltiesUpTo(ms, Len(ms), price, d)
          /\ FeesTo(a, ms, price, d) = FeesUpTo(ms, Len(ms), price, d, {a})
      BY <2>1, SettlementSums
    <3> QED
      BY <3>1
  <2>4. n \in 0..Len(ms)
    OBVIOUS
  <2>5. RoyaltiesUpTo(ms, n, price, d) \in Nat /\ FeesUpTo(ms, n, price, d, {a}) \in Nat
    BY <2>1, <2>4, FeeSums
  <2>6. InDenom(price, d) \in Nat
    BY DEF InDenom
  <2>7. CASE a = owner
    BY <2>2, <2>3, <2>5, <2>6, <2>7 DEF Due, SellersPart
  <2>8. CASE a # owner
    BY <2>2, <2>3, <2>5, <2>6, <2>8 DEF Due, SellersPart
  <2> QED
    BY <2>7, <2>8
<1> QED
  BY <1>2, <1>3

\* When everybody who may be paid is counted, a module's fees are those of its kind.
LEMMA AllNamed ==
  ASSUME NEW T, NEW list \in Seq(T)
  PROVE  Count(list, Len(list), T) = Len(list)
<1> PICK n : n = Len(list)
  OBVIOUS
<1>1. n \in Nat /\ {j \in 1..n : list[j] \in T} = 1..n
  OBVIOUS
<1>2. Cardinality(1..n) = n
  <2>1. 1 \in Int /\ n \in Int /\ (IF 1 > n THEN 0 ELSE n - 1 + 1) = n
    BY <1>1
  <2> QED
    BY <2>1, FS_Interval
<1> QED
  BY <1>1, <1>2 DEF Count

LEMMA AllFees ==
  ASSUME NEW T, NEW D, NEW ms, DOMAIN ms = 1..Len(ms), Len(ms) \in Nat, ModuleList(ms, T, D),
         NEW price, PriceIn(price, D), NonePanics(ms, Len(ms), price), NEW d
  PROVE  /\ FeesUpTo(ms, Len(ms), price, d, T)
              = FeesOfKind("tax", ms, price, d) + FeesOfKind("royalty", ms, price, d)
         /\ FeesOfKind("tax", ms, price, d) \in Nat
         /\ FeesOfKind("royalty", ms, price, d) \in Nat
<1>0. PICK n, S : n = Len(ms) /\ S = 1..n
  OBVIOUS
<1>1. n \in Nat /\ IsFiniteSet(S) /\ S = DOMAIN ms
  BY <1>0, FS_Interval
<1>2. PICK f, g, h :
        /\ f = KindFees("tax", ms, price, d) /\ g = KindFees("royalty", ms, price, d)
        /\ h = FeesFor(ms, price, d, T)
  OBVIOUS
<1>3. /\ FeesOfKind("tax", ms, price, d) = SumFunctionOnSet(f, S)
      /\ \A i \in S : f[i] = KindIn("tax", ms[i], price, d) /\ f[i] \in Nat
  BY <1>0, <1>2, KindSums
<1>4. /\ FeesOfKind("royalty", ms, price, d) = SumFunctionOnSet(g, S)
      /\ \A i \in S : g[i] = KindIn("royalty", ms[i], price, d) /\ g[i] \in Nat
  BY <1>0, <1>2, KindSums
<1>5. ASSUME NEW i \in S
      PROVE  h[i] = f[i] + g[i]
  <2>0. PICK m : m = ms[i]
    OBVIOUS
  <2>1. h[i] = FeesIn(m, price, d, T) /\ FeesGiven(m, T, D)
    BY <1>0, <1>1, <1>2, <2>0 DEF FeesFor, ModuleList
  <2>2. f[i] = KindIn("tax", m, price, d) /\ g[i] = KindIn("royalty", m, price, d)
        /\ f[i] \in Nat /\ g[i] \in Nat
    BY <1>3, <1>4, <2>0
  <2>3. CASE TakesFees(m)
    <3>1. Count(m.receivers, Len(m.receivers), T) = Len(m.receivers)
      BY <2>1, <2>3, AllNamed DEF FeesGiven
    <3>2. h[i] = FeeDue(m, price, d) * Len(m.receivers)
      BY <2>1, <2>3, <3>1 DEF FeesIn
    <3>3. CASE m.kind = "tax"
      BY <2>2, <3>2, <3>3 DEF KindIn
    <3>4. CASE m.kind = "royalty"
      BY <2>2, <3>2, <3>4 DEF KindIn
    <3> QED
      BY <2>3, <3>3, <3>4 DEF TakesFees
  <2>4. CASE ~TakesFees(m)
    BY <2>1, <2>2, <2>4 DEF FeesIn, KindIn, TakesFees
  <2> QED
    BY <2>3, <2>4
<1>6. SumFunctionOnSet(h, S) = SumFunctionOnSet(f, S) + SumFunctionOnSet(g, S)
  <2>1. \A i \in S : f[i] \in Int /\ g[i] \in Int /\ h[i] = f[i] + g[i]
    BY <1>3, <1>4, <1>5
  <2> QED
    BY <1>1, <2>1, SumPlus
<1>7. SumFunctionOnSet(f, S) \in Nat /\ SumFunctionOnSet(g, S) \in Nat
  <2>1. (\A i \in S : f[i] \in Nat) /\ (\A i \in S : g[i] \in Nat)
    BY <1>3, <1>4
  <2> QED
    BY <1>1, <2>1, SumNat
<1> QED
  BY <1>0, <1>2, <1>3, <1>4, <1>6, <1>7 DEF FeesUpTo

\* What an agreed transfer that is not refused costs, and brings its parties: all that
\* is paid is the cost, no part of it is owed by anyone, and the seller's part is in it.
SettledFor(ms, owner, price, T, a, d) ==
  /\ ReceivedBy(AgreedPayments(ms, owner, price), {a}, d) = Due(a, owner, ms, price, d)
  /\ ReceivedBy(AgreedPayments(ms, owner, price), T, d) = Cost(ms, price, d)
  /\ Cost(ms, price, d) \in Nat
  /\ Due(a, owner, ms, price, d) \in Nat
  /\ Due(owner, owner, ms, price, d) >= SellersPart(ms, price, d)
  /\ SellersPart(ms, price, d) \in Int

LEMMA AgreedSums ==
  ASSUME NEW T, NEW D, NEW ms, DOMAIN ms = 1..Len(ms), Len(ms) \in Nat, ModuleList(ms, T, D),
         NEW owner \in T, NEW price \in [denom : D, amount : Nat],
         AgreedPayments(ms, owner, price) # Refused, NEW a, NEW d \in D
  PROVE  SettledFor(ms, owner, price, T, a, d)
<1> PICK n : n = Len(ms)
  OBVIOUS
<1> PICK ps : ps = AgreedPayments(ms, owner, price)
  OBVIOUS
<1>1. ps \in Payments(T, D) /\ SettledUpTo(ps, ms, n, owner, price, D, T, d)
  BY AgreedSettles
<1>2. \A b : ReceivedBy(ps, {b}, d) = Due(b, owner, ms, price, d)
  <2> TAKE b
  <2>1. /\ AgreedPayments(ms, owner, price) = Refused <=> ~PriceBears(ms, Len(ms), price, D)
        /\ AgreedPayments(ms, owner, price) # Refused =>
             ReceivedBy(AgreedPayments(ms, owner, price), {b}, d) = Due(b, owner, ms, price, d)
    BY AgreedIsDue
  <2> QED
    BY <2>1
<1>3. PriceBears(ms, n, price, D) /\ NonePanics(ms, n, price) /\ PriceIn(price, D)
  BY <1>1 DEF SettledUpTo, PriceBears, PriceIn
<1>4. ReceivedBy(ps, T, d) = (InDenom(price, d) + FeesUpTo(ms, n, price, d, T)) - RoyaltiesUpTo(ms, n, price, d)
  BY <1>1, <1>3 DEF SettledUpTo
<1>5. FeesOfKind("royalty", ms, price, d) = RoyaltiesUpTo(ms, n, price, d)
  <2>1. /\ FeesOfKind("royalty", ms, price, d) = RoyaltiesUpTo(ms, Len(ms), price, d)
        /\ FeesTo(a, ms, price, d) = FeesUpTo(ms, Len(ms), price, d, {a})
    BY <1>3, SettlementSums
  <2> QED
    BY <2>1
<1>6. /\ FeesUpTo(ms, n, price, d, T) = FeesOfKind("tax", ms, price, d) + FeesOfKind("royalty", ms, price, d)
      /\ FeesOfKind("tax", ms, price, d) \in Nat /\ FeesOfKind("royalty", ms, price, d) \in Nat
  BY <1>3, AllFees
<1>7. InDenom(price, d) \in Nat
  BY DEF InDenom
<1>8. ReceivedBy(ps, T, d) = Cost(ms, price, d) /\ Cost(ms, price, d) \in Nat
  BY <1>4, <1>5, <1>6, <1>7 DEF Cost
<1>9. Due(a, owner, ms, price, d) \in Nat
  <2>1. ReceivedBy(ps, {a}, d) \in Nat
    <3>1. /\ ReceivedBy(ps, {a}, d) = SumFunctionOnSet(Income(ps, {a}, d), 1..Len(ps))
          /\ \A i \in 1..Len(ps) : /\ Income(ps, {a}, d)[i] = Brings(ps[i], {a}, d)
                                   /\ Income(ps, {a}, d)[i] \in Nat
          /\ ReceivedBy(ps, {a}, d) \in Nat
      BY <1>1, ReceivedUpTo
    <3> QED
      BY <3>1
  <2> QED
    BY <1>2, <2>1
<1>10. Due(owner, owner, ms, price, d) >= SellersPart(ms, price, d) /\ SellersPart(ms, price, d) \in Int
  <2>1. FeesTo(owner, ms, price, d) \in Nat
    <3>1. n \in 0..Len(ms)
      OBVIOUS
    <3>2. RoyaltiesUpTo(ms, n, price, d) \in Nat /\ FeesUpTo(ms, n, price, d, {owner}) \in Nat
      BY <1>3, <3>1, FeeSums
    <3>3. /\ FeesOfKind("royalty", ms, price, d) = RoyaltiesUpTo(ms, Len(ms), price, d)
          /\ FeesTo(owner, ms, price, d) = FeesUpTo(ms, Len(ms), price, d, {owner})
      BY <1>3, SettlementSums
    <3> QED
      BY <3>2, <3>3
  <2>2. SellersPart(ms, price, d) \in Int
    BY <1>6, <1>7 DEF SellersPart
  <2> QED
    BY <2>1, <2>2 DEF Due
<1> QED
  BY <1>2, <1>8, <1>9, <1>10 DEF SettledFor
=============================================================================
