---------------------------- MODULE FactoryProofs ----------------------------
(***************************************************************************)
(* Theorems about the factory, for every set of users, symbols, contracts  *)
(* and code ids.                                                           *)
(***************************************************************************)
EXTENDS Factory, TLAPS

LEMMA InitType == Init => TypeOK
BY DEF Init, EmptyMap, TypeOK

LEMMA StepType == TypeOK /\ [Next]_factoryVars => TypeOK'
<1> SUFFICES ASSUME TypeOK, [Next]_factoryVars
             PROVE  TypeOK'
  OBVIOUS
<1>1. ASSUME NEW u \in Users, NEW s \in Symbols, NEW c \in Contracts, NEW made \in SUBSET Contracts,
             NEW parts \in [made -> {"receipt", "list"}], Create(u, s, parts, c)
      PROVE  TypeOK'
  <2>1. /\ [owner |-> u, symbol |-> s, code |-> config.token] \in Deployment
        /\ \A d \in made : [owner |-> c, symbol |-> Unset, code |-> config[parts[d]]] \in Deployment
    BY DEF Deployment, TypeOK, Config
  <2>2. DOMAIN deployed' \subseteq Contracts /\ \A d \in DOMAIN deployed' : deployed'[d] \in Deployment
    BY <1>1, <2>1 DEF Create, TypeOK
  <2>3. DOMAIN addresses' \subseteq Symbols /\ \A t \in DOMAIN addresses' : addresses'[t] \in Strings \cup Contracts
    BY <1>1 DEF Create, Save, TypeOK
  <2> QED
    BY <1>1, <2>2, <2>3 DEF Create, TypeOK
<1>2. ASSUME NEW u \in Users, NEW s \in Symbols, NEW a \in Strings, UpdateAddress(u, s, a)
      PROVE  TypeOK'
  BY <1>2 DEF UpdateAddress, Save, TypeOK
<1>3. ASSUME NEW u \in Users, NEW kinds, NEW new \in Config, UpdateCodeId(u, kinds, new)
      PROVE  TypeOK'
  <2>1. config' \in Config
    BY <1>3 DEF UpdateCodeId, TypeOK, Config
  <2> QED
    BY <1>3, <2>1 DEF UpdateCodeId, TypeOK
<1>4. ASSUME NEW u \in Users, NEW new \in Users, UpdateOwner(u, new)
      PROVE  TypeOK'
  BY <1>4 DEF UpdateOwner, TypeOK
<1>5. ASSUME NEW c \in Contracts, NEW u \in Users, ContractOwnerChanges(c, u)
      PROVE  TypeOK'
  BY <1>5 DEF ContractOwnerChanges, TypeOK, Deployment
<1>6. ASSUME NEW u \in Users, NEW s \in Symbols \cup {Unset}, NEW c \in Contracts, DeployElsewhere(u, s, c)
      PROVE  TypeOK'
  <2>1. [owner |-> u, symbol |-> s, code |-> Unset] \in Deployment
    BY DEF Deployment
  <2> QED
    BY <1>6, <2>1 DEF DeployElsewhere, Save, TypeOK
<1>7. CASE UNCHANGED factoryVars
  BY <1>7 DEF factoryVars, TypeOK
<1> QED
  BY <1>1, <1>2, <1>3, <1>4, <1>5, <1>6, <1>7 DEF Next, FactoryMessage, Elsewhere

\* What a factory stores is well formed in every reachable state.
THEOREM TypeCorrect == Spec => []TypeOK
BY InitType, StepType, PTL DEF Spec

----------------------------------------------------------------------------
\* What a step may do to the entries: leave them; add one for a free symbol, with a new
\* contract; or overwrite one whose contract answers, without a new contract.
LEMMA StepShape ==
  ASSUME [Next]_factoryVars
  PROVE  \/ UNCHANGED addresses
         \/ \E s \in Symbols \ DOMAIN addresses, c \in Contracts : addresses' = Save(addresses, s, c)
         \/ \E s \in DOMAIN addresses, a \in Strings :
              /\ addresses[s] \in DOMAIN deployed
              /\ addresses' = Save(addresses, s, a)
              /\ UNCHANGED deployed
<1>1. ASSUME NEW u \in Users, NEW s \in Symbols, NEW c \in Contracts, NEW made \in SUBSET Contracts,
             NEW parts \in [made -> {"receipt", "list"}], Create(u, s, parts, c)
      PROVE  s \in Symbols \ DOMAIN addresses /\ addresses' = Save(addresses, s, c)
  BY <1>1 DEF Create, IsAddressDefined
<1>2. ASSUME NEW u \in Users, NEW s \in Symbols, NEW a \in Strings, UpdateAddress(u, s, a)
      PROVE  /\ s \in DOMAIN addresses /\ addresses[s] \in DOMAIN deployed
             /\ addresses' = Save(addresses, s, a) /\ UNCHANGED deployed
  BY <1>2 DEF UpdateAddress, MayRepoint, KnowsOwner, IsAddressDefined
<1>3. ASSUME NEW u \in Users,
             \/ \E kinds \in SUBSET {"token", "receipt", "list"}, new \in Config : UpdateCodeId(u, kinds, new)
             \/ \E new \in Users : UpdateOwner(u, new)
      PROVE  UNCHANGED addresses
  BY <1>3 DEF UpdateCodeId, UpdateOwner
<1>4. CASE Elsewhere \/ UNCHANGED factoryVars
  BY <1>4 DEF Elsewhere, ContractOwnerChanges, DeployElsewhere, factoryVars
<1> QED
  BY <1>1, <1>2, <1>3, <1>4 DEF Next, FactoryMessage

\* A symbol belongs to its first token for good, in every factory: creations leave the
\* entries of other symbols alone, and no step frees one (create, store_address).
THEOREM SymbolsAreKept == Spec => CreationTakesNoSymbol
<1> DEFINE Kept == \A s \in DOMAIN addresses :
                     /\ s \in DOMAIN addresses'
                     /\ DOMAIN deployed' # DOMAIN deployed => addresses'[s] = addresses[s]
<1>1. [Next]_factoryVars => [Kept]_factoryVars
  BY StepShape DEF Save
<1> QED
  BY <1>1, PTL DEF Spec, CreationTakesNoSymbol

\* A symbol that points where no contract answers is stuck, in every factory: is_creator
\* queries the contract before is_contract_owner is asked (update_address).
THEOREM DeadEndsAreFinal == Spec => DeadEndsStay
<1> DEFINE Stay == \A s \in DOMAIN addresses : addresses[s] \notin DOMAIN deployed =>
                     s \in DOMAIN addresses' /\ addresses'[s] = addresses[s]
<1>1. [Next]_factoryVars => [Stay]_factoryVars
  BY StepShape DEF Save
<1> QED
  BY <1>1, PTL DEF Spec, DeadEndsStay
==============================================================================
