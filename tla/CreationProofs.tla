---------------------------- MODULE CreationProofs ----------------------------
(***************************************************************************)
(* Creation implements Factory, for every set of users, symbols, code ids  *)
(* and module lists, whichever of the kinds of contract the code ids name. *)
(***************************************************************************)
EXTENDS Creation, FiniteSetTheorems, SequenceTheorems, TLAPS

LEMMA OnePair == ASSUME NEW a, NEW b PROVE <<a>> \o <<b>> = <<a, b>>
<1> DEFINE s == <<a>> \o <<b>>  t == <<a, b>>
<1>1. s \in Seq({a, b}) /\ t \in Seq({a, b}) /\ Len(s) = 2 /\ Len(t) = 2
  OBVIOUS
<1>2. s[1] = a /\ s[2] = b /\ t[1] = a /\ t[2] = b
  OBVIOUS
<1>3. \A i \in 1..2 : s[i] = t[i]
  BY <1>2
<1> HIDE DEF s, t
<1>4. s = t
  BY <1>1, <1>3, SeqEqual
<1> QED
  BY <1>4 DEF s, t

LEMMA OneTriple == ASSUME NEW a, NEW b, NEW c PROVE <<a>> \o <<b, c>> = <<a, b, c>>
<1> DEFINE s == <<a>> \o <<b, c>>  t == <<a, b, c>>
<1>1. s \in Seq({a, b, c}) /\ t \in Seq({a, b, c}) /\ Len(s) = 3 /\ Len(t) = 3
  OBVIOUS
<1>2. s[1] = a /\ s[2] = b /\ s[3] = c /\ t[1] = a /\ t[2] = b /\ t[3] = c
  OBVIOUS
<1>3. \A i \in 1..3 : s[i] = t[i]
  BY <1>2
<1> HIDE DEF s, t
<1>4. s = t
  BY <1>1, <1>3, SeqEqual
<1> QED
  BY <1>4 DEF s, t

----------------------------------------------------------------------------
\* The chain numbers contracts without gaps, and each is a record of what it stores.
Numbered(cs) == \E n \in Nat : n <= MaxContracts /\ DOMAIN cs = 1..n
Formed(cs) ==
  \A c \in DOMAIN cs : {"kind", "code", "owner", "symbol", "modules", "list", "receipt"} \subseteq DOMAIN cs[c]
Sound(cs) == Numbered(cs) /\ Formed(cs)

LEMMA Numbering ==
  ASSUME Numbered(contracts)
  PROVE  /\ NextAddress \in Nat \ {0} /\ NextAddress \notin DOMAIN contracts
         /\ DOMAIN contracts \subseteq Contracts
         /\ DOMAIN contracts = 1..(NextAddress - 1)
<1>1. PICK n \in Nat : n <= MaxContracts /\ DOMAIN contracts = 1..n
  BY DEF Numbered
<1>2. Cardinality(DOMAIN contracts) = n
  BY <1>1, FS_Interval
<1> QED
  BY <1>1, <1>2, CreationAssumption DEF NextAddress, Contracts

LEMMA AddContract ==
  ASSUME Sound(contracts), NextAddress <= MaxContracts, NEW r,
         {"kind", "code", "owner", "symbol", "modules", "list", "receipt"} \subseteq DOMAIN r,
         contracts' = Save(contracts, NextAddress, r)
  PROVE  Sound(contracts') /\ NextAddress' = NextAddress + 1 /\ NextAddress \in Contracts
<1>1. /\ NextAddress \in Nat \ {0} /\ DOMAIN contracts = 1..(NextAddress - 1)
      /\ NextAddress \in Contracts
  BY Numbering, CreationAssumption DEF Sound, Contracts
<1>2. DOMAIN contracts' = 1..NextAddress
  BY <1>1 DEF Save
<1>3. Numbered(contracts')
  BY <1>1, <1>2 DEF Numbered
<1>4. Formed(contracts')
  BY DEF Save, Sound, Formed
<1>5. NextAddress' = NextAddress + 1
  <2>1. Cardinality(1..NextAddress) = NextAddress
    BY <1>1, FS_Interval
  <2> QED
    BY <1>2, <2>1 DEF NextAddress
<1> QED
  BY <1>1, <1>3, <1>4, <1>5 DEF Sound

----------------------------------------------------------------------------
(***************************************************************************)
(* The stages of a creation.  "old" and "before" are the contracts and the *)
(* entries that it began with, "m" is the message that the factory sent.   *)
(***************************************************************************)
\* What create may ask for.
Order(m) ==
  /\ m.id = REPLY_CREATE_TOKEN /\ m.asked = "token" /\ m.code = config.token
  /\ m.minter \in Users /\ m.symbol \in Symbols
  /\ m.modules \in Seq(ModuleDefinition)
  /\ \A i \in DOMAIN m.modules :
       m.modules[i].code = IF IsList(m.modules[i]) THEN config.list ELSE config.receipt

\* What a token contract then asks for.
PartMessage ==
  {p \in [id : {REPLY_RECEIPT, REPLY_ADDRESS_LIST}, asked : {"receipt", "list"}, code : CodeIds,
          minter : {Unset}, symbol : {Unset}, modules : {<<>>}] : p.code = config[p.asked]}

\* The contracts are those of "old", the token contract "c" that "m" has asked for, and
\* contracts made for "c", each with the code id of what it is meant to be.
Built(old, m, c, parts) ==
  /\ c \in Contracts \ DOMAIN old
  /\ DOMAIN parts \subseteq Contracts \ (DOMAIN old \cup {c})
  /\ \A d \in DOMAIN parts : parts[d] \in {"receipt", "list"}
  /\ DOMAIN contracts = DOMAIN old \cup {c} \cup DOMAIN parts
  /\ \A d \in DOMAIN old : Summary(contracts)[d] = Summary(old)[d]
  /\ Summary(contracts)[c] = [owner |-> m.minter, symbol |-> m.symbol, code |-> config.token]
  /\ \A d \in DOMAIN parts :
       Summary(contracts)[d] = [owner |-> c, symbol |-> Unset, code |-> config[parts[d]]]

FrameOf(who, todo, undo) == [who |-> who, todo |-> todo, undo |-> undo]
Tx(frames, failed, before) == [frames |-> frames, failed |-> failed, before |-> before]

\* The factory has asked for a token contract.
Starting(old, before, m) ==
  /\ tx = Tx(<<FrameOf(Self, <<m>>, old)>>, FALSE, before)
  /\ Order(m) /\ m.symbol \notin DOMAIN before
  /\ Sound(old) /\ contracts = old /\ addresses = before
  /\ NextAddress + Len(m.modules) <= MaxContracts

\* Contract "c" was made for it, and has "todo" to ask for in turn; a contract that
\* should have been a token contract and is not asks for nothing.
Running(old, before, m, c, parts, todo, undo) ==
  /\ tx = Tx(<<FrameOf(c, todo, undo), FrameOf(Self, <<m>>, old)>>, FALSE, before)
  /\ Order(m) /\ m.symbol \notin DOMAIN before
  /\ Sound(old) /\ Sound(contracts) /\ addresses = before
  /\ todo \in Seq(PartMessage) /\ NextAddress + Len(todo) <= MaxContracts + 1
  /\ c \in DOMAIN contracts
  /\ contracts[c].kind = "token" => Built(old, m, c, parts)
  /\ contracts[c].kind # "token" => todo = <<>>

\* Contract "d" was made for the first of these.
Nested(old, before, m, c, parts, todo, undo, d, undo2) ==
  /\ tx = Tx(<<FrameOf(d, <<>>, undo2), FrameOf(c, todo, undo), FrameOf(Self, <<m>>, old)>>, FALSE, before)
  /\ Order(m) /\ m.symbol \notin DOMAIN before
  /\ Sound(old) /\ Sound(contracts) /\ addresses = before
  /\ todo \in Seq(PartMessage) /\ todo # <<>> /\ NextAddress + Len(todo) <= MaxContracts + 2
  /\ contracts[c].kind = "token" /\ Built(old, m, c, parts)

\* The factory has stored the address.
Ending(old, before, m, c, parts) ==
  /\ tx = Tx(<<FrameOf(Self, <<>>, old)>>, FALSE, before)
  /\ Order(m) /\ m.symbol \notin DOMAIN before
  /\ Sound(old) /\ Sound(contracts) /\ addresses = Save(before, m.symbol, c)
  /\ Built(old, m, c, parts)

\* A message has failed, and what was done is being undone.
Failing(old, before, frames) ==
  /\ tx = Tx(frames, TRUE, before)
  /\ Sound(old) /\ addresses = before
  /\ \E b : /\ b.undo = old
            /\ frames = <<b>> \/ (\E f : frames = <<f, b>>) \/ (\E f, g : frames = <<g, f, b>>)

Stages ==
  \/ tx = NoTx /\ Sound(contracts)
  \/ \E old, before, m : Starting(old, before, m)
  \/ \E old, before, m, c, parts, todo, undo : Running(old, before, m, c, parts, todo, undo)
  \/ \E old, before, m, c, parts, todo, undo, d, undo2 :
       Nested(old, before, m, c, parts, todo, undo, d, undo2)
  \/ \E old, before, m, c, parts : Ending(old, before, m, c, parts)
  \/ \E old, before, frames : Failing(old, before, frames)

Inv == config \in F!Config /\ Stages

\* A step of Factory, or none.
Step == [F!Next]_(F!factoryVars)

\* What others see during a transaction is what there was before it.
LEMMA Seen ==
  ASSUME NEW t, NEW b,
         t.frames = <<b>> \/ (\E f : t.frames = <<f, b>>) \/ (\E f, g : t.frames = <<g, f, b>>)
  PROVE  t # NoTx /\ t.frames[Len(t.frames)] = b
<1>1. CASE t.frames = <<b>>
  BY <1>1 DEF NoTx
<1>2. ASSUME NEW f, t.frames = <<f, b>>
      PROVE  t # NoTx /\ t.frames[Len(t.frames)] = b
  BY <1>2 DEF NoTx
<1>3. ASSUME NEW f, NEW g, t.frames = <<g, f, b>>
      PROVE  t # NoTx /\ t.frames[Len(t.frames)] = b
  BY <1>3 DEF NoTx
<1> QED
  BY <1>1, <1>2, <1>3

LEMMA CommittedOne ==
  ASSUME NEW b, tx.frames = <<b>>
  PROVE  /\ tx # NoTx /\ Committed = [addresses |-> tx.before, contracts |-> b.undo]
         /\ Top = b /\ Len(tx.frames) = 1
<1>1. Len(tx.frames) = 1 /\ tx.frames[1] = b /\ Top = b
  BY DEF Top
<1> QED
  BY <1>1, Seen DEF Committed

LEMMA CommittedTwo ==
  ASSUME NEW f, NEW b, tx.frames = <<f, b>>
  PROVE  /\ tx # NoTx /\ Committed = [addresses |-> tx.before, contracts |-> b.undo]
         /\ Top = f /\ Caller = b /\ Tail(tx.frames) = <<b>> /\ Len(tx.frames) = 2
<1>1. Len(tx.frames) = 2 /\ tx.frames[2] = b /\ Top = f /\ Caller = b
  BY DEF Top, Caller
<1>2. Tail(<<f, b>>) = <<b>>
  OBVIOUS
<1> QED
  BY <1>1, <1>2, Seen DEF Committed

LEMMA CommittedThree ==
  ASSUME NEW g, NEW f, NEW b, tx.frames = <<g, f, b>>
  PROVE  /\ tx # NoTx /\ Committed = [addresses |-> tx.before, contracts |-> b.undo]
         /\ Top = g /\ Caller = f /\ Tail(tx.frames) = <<f, b>> /\ Len(tx.frames) = 3
<1>1. Len(tx.frames) = 3 /\ tx.frames[3] = b /\ Top = g /\ Caller = f
  BY DEF Top, Caller
<1>2. Tail(<<g, f, b>>) = <<f, b>>
  OBVIOUS
<1>3. tx # NoTx
  BY Seen
<1> QED
  BY <1>1, <1>2, <1>3 DEF Committed

\* The frames of each stage, and what others see in it.
LEMMA StartingTop ==
  ASSUME NEW old, NEW before, NEW m, Starting(old, before, m)
  PROVE  /\ tx # NoTx /\ ~tx.failed /\ Len(tx.frames) = 1 /\ tx.before = before
         /\ Top.who = Self /\ Top.todo = <<m>> /\ tx.frames = <<FrameOf(Self, <<m>>, old)>>
         /\ Committed = [addresses |-> before, contracts |-> old]
<1>1. PICK b : b = FrameOf(Self, <<m>>, old)
  OBVIOUS
<1>2. tx.frames = <<b>> /\ ~tx.failed /\ tx.before = before
  BY <1>1 DEF Starting, Tx
<1> QED
  BY <1>1, <1>2, CommittedOne DEF FrameOf

LEMMA EndingTop ==
  ASSUME NEW old, NEW before, NEW m, NEW c, NEW parts, Ending(old, before, m, c, parts)
  PROVE  /\ tx # NoTx /\ ~tx.failed /\ Len(tx.frames) = 1 /\ tx.before = before
         /\ Top.who = Self /\ Top.todo = <<>>
         /\ Committed = [addresses |-> before, contracts |-> old]
<1>1. PICK b : b = FrameOf(Self, <<>>, old)
  OBVIOUS
<1>2. tx.frames = <<b>> /\ ~tx.failed /\ tx.before = before
  BY <1>1 DEF Ending, Tx
<1> QED
  BY <1>1, <1>2, CommittedOne DEF FrameOf

LEMMA RunningTop ==
  ASSUME NEW old, NEW before, NEW m, NEW c, NEW parts, NEW todo, NEW undo,
         Running(old, before, m, c, parts, todo, undo)
  PROVE  /\ tx # NoTx /\ ~tx.failed /\ Len(tx.frames) = 2 /\ tx.before = before
         /\ Top.who = c /\ Top.todo = todo /\ Caller = FrameOf(Self, <<m>>, old)
         /\ tx.frames = <<FrameOf(c, todo, undo), FrameOf(Self, <<m>>, old)>>
         /\ Committed = [addresses |-> before, contracts |-> old]
<1>1. PICK f, b : f = FrameOf(c, todo, undo) /\ b = FrameOf(Self, <<m>>, old)
  OBVIOUS
<1>2. tx.frames = <<f, b>> /\ ~tx.failed /\ tx.before = before
  BY <1>1 DEF Running, Tx
<1>3. f.who = c /\ f.todo = todo /\ b.undo = old
  BY <1>1 DEF FrameOf
<1> QED
  BY <1>1, <1>2, <1>3, CommittedTwo

LEMMA NestedTop ==
  ASSUME NEW old, NEW before, NEW m, NEW c, NEW parts, NEW todo, NEW undo, NEW d, NEW undo2,
         Nested(old, before, m, c, parts, todo, undo, d, undo2)
  PROVE  /\ tx # NoTx /\ ~tx.failed /\ Len(tx.frames) = 3 /\ tx.before = before
         /\ Top.who = d /\ Top.todo = <<>> /\ Caller = FrameOf(c, todo, undo)
         /\ Tail(tx.frames) = <<FrameOf(c, todo, undo), FrameOf(Self, <<m>>, old)>>
         /\ Committed = [addresses |-> before, contracts |-> old]
<1>1. PICK g, f, b : /\ g = FrameOf(d, <<>>, undo2) /\ f = FrameOf(c, todo, undo)
                     /\ b = FrameOf(Self, <<m>>, old)
  OBVIOUS
<1>2. tx.frames = <<g, f, b>> /\ ~tx.failed /\ tx.before = before
  BY <1>1 DEF Nested, Tx
<1>3. g.who = d /\ g.todo = <<>> /\ b.undo = old
  BY <1>1 DEF FrameOf
<1> QED
  BY <1>1, <1>2, <1>3, CommittedThree

LEMMA NestedCaller ==
  ASSUME NEW old, NEW before, NEW m, NEW c, NEW parts, NEW todo, NEW undo, NEW d, NEW undo2,
         Nested(old, before, m, c, parts, todo, undo, d, undo2)
  PROVE  Caller = FrameOf(c, todo, undo) /\ Committed = [addresses |-> before, contracts |-> old]
<1>1. PICK g, f, b : /\ g = FrameOf(d, <<>>, undo2) /\ f = FrameOf(c, todo, undo)
                     /\ b = FrameOf(Self, <<m>>, old)
  OBVIOUS
<1>2. tx.frames = <<g, f, b>> /\ tx.before = before /\ b.undo = old
  BY <1>1 DEF Nested, Tx, FrameOf
<1> QED
  BY <1>1, <1>2, CommittedThree

LEMMA FailingTop ==
  ASSUME NEW old, NEW before, NEW frames, Failing(old, before, frames)
  PROVE  /\ tx # NoTx /\ tx.failed /\ tx.before = before /\ tx.frames = frames
         /\ Committed = [addresses |-> before, contracts |-> old]
<1>1. tx.frames = frames /\ tx.failed /\ tx.before = before
  BY DEF Failing, Tx
<1>2. PICK b : /\ b.undo = old
               /\ frames = <<b>> \/ (\E f : frames = <<f, b>>) \/ (\E f, g : frames = <<g, f, b>>)
  BY DEF Failing
<1>3. tx # NoTx /\ tx.frames[Len(tx.frames)] = b
  BY <1>1, <1>2, Seen
<1> QED
  BY <1>1, <1>2, <1>3 DEF Committed

\* The same of the state after a step.
LEMMA RunningSeen ==
  ASSUME NEW old, NEW before, NEW m, NEW c, NEW parts, NEW todo, NEW undo,
         Running(old, before, m, c, parts, todo, undo)'
  PROVE  Committed' = [addresses |-> before, contracts |-> old]
<1>1. PICK f, b : f = FrameOf(c, todo, undo) /\ b = FrameOf(Self, <<m>>, old)
  OBVIOUS
<1>2. tx'.frames = <<f, b>> /\ tx'.before = before /\ b.undo = old
  BY <1>1 DEF Running, FrameOf, Tx
<1>3. tx' # NoTx /\ tx'.frames[Len(tx'.frames)] = b
  BY <1>2, Seen
<1> QED
  BY <1>2, <1>3 DEF Committed

LEMMA NestedSeen ==
  ASSUME NEW old, NEW before, NEW m, NEW c, NEW parts, NEW todo, NEW undo, NEW d, NEW undo2,
         Nested(old, before, m, c, parts, todo, undo, d, undo2)'
  PROVE  Committed' = [addresses |-> before, contracts |-> old]
<1>1. PICK g, f, b : /\ g = FrameOf(d, <<>>, undo2) /\ f = FrameOf(c, todo, undo)
                     /\ b = FrameOf(Self, <<m>>, old)
  OBVIOUS
<1>2. tx'.frames = <<g, f, b>> /\ tx'.before = before /\ b.undo = old
  BY <1>1 DEF Nested, FrameOf, Tx
<1>3. tx' # NoTx /\ tx'.frames[Len(tx'.frames)] = b
  BY <1>2, Seen
<1> QED
  BY <1>2, <1>3 DEF Committed

LEMMA EndingSeen ==
  ASSUME NEW old, NEW before, NEW m, NEW c, NEW parts, Ending(old, before, m, c, parts)'
  PROVE  Committed' = [addresses |-> before, contracts |-> old]
<1>1. PICK b : b = FrameOf(Self, <<>>, old)
  OBVIOUS
<1>2. tx'.frames = <<b>> /\ tx'.before = before /\ b.undo = old
  BY <1>1 DEF Ending, FrameOf, Tx
<1> QED
  BY <1>2, Seen DEF Committed

LEMMA FailingSeen ==
  ASSUME NEW old, NEW before, NEW frames, Failing(old, before, frames)'
  PROVE  Committed' = [addresses |-> before, contracts |-> old]
<1>1. tx'.frames = frames /\ tx'.before = before
  BY DEF Failing, Tx
<1>2. PICK b : /\ b.undo = old
               /\ frames = <<b>> \/ (\E f : frames = <<f, b>>) \/ (\E f, g : frames = <<g, f, b>>)
  BY DEF Failing
<1>3. tx' # NoTx /\ tx'.frames[Len(tx'.frames)] = b
  BY <1>1, <1>2, Seen
<1> QED
  BY <1>1, <1>2, <1>3 DEF Committed

\* As long as what is committed stays, others see no step.
LEMMA Unseen ==
  ASSUME Committed' = Committed, UNCHANGED <<config, factoryOwner>>
  PROVE  Step
BY DEF Step, F!factoryVars, Summary

----------------------------------------------------------------------------
(***************************************************************************)
(* One lemma per action: it leads from stage to stage, and others see a    *)
(* step of Factory or none.                                                *)
(***************************************************************************)
LEMMA Idle ==
  ASSUME Inv, tx = NoTx
  PROVE  Sound(contracts)
<1>1. ASSUME NEW old, NEW before, NEW m, Starting(old, before, m)
      PROVE  FALSE
  BY <1>1, StartingTop
<1>2. ASSUME NEW old, NEW before, NEW m, NEW c, NEW parts, NEW todo, NEW undo,
             Running(old, before, m, c, parts, todo, undo)
      PROVE  FALSE
  BY <1>2, RunningTop
<1>3. ASSUME NEW old, NEW before, NEW m, NEW c, NEW parts, NEW todo, NEW undo, NEW d, NEW undo2,
             Nested(old, before, m, c, parts, todo, undo, d, undo2)
      PROVE  FALSE
  BY <1>3, NestedTop
<1>4. ASSUME NEW old, NEW before, NEW m, NEW c, NEW parts, Ending(old, before, m, c, parts)
      PROVE  FALSE
  BY <1>4, EndingTop
<1>5. ASSUME NEW old, NEW before, NEW frames, Failing(old, before, frames)
      PROVE  FALSE
  BY <1>5, FailingTop
<1> QED
  BY <1>1, <1>2, <1>3, <1>4, <1>5 DEF Inv, Stages

LEMMA AssignedCodes ==
  ASSUME Inv, NEW ms \in ModuleLists
  PROVE  /\ AssignCodes(ms) \in Seq(ModuleDefinition) /\ Len(AssignCodes(ms)) = Len(ms)
         /\ \A i \in DOMAIN AssignCodes(ms) :
              AssignCodes(ms)[i].code =
                IF IsList(AssignCodes(ms)[i]) THEN config.list ELSE config.receipt
<1> DEFINE as == AssignCodes(ms)
<1>1. ms \in Seq(ModuleDefinition)
  BY CreationAssumption
<1>2. config.list \in CodeIds /\ config.receipt \in CodeIds
  BY DEF Inv, F!Config
<1>3. DOMAIN as = DOMAIN ms
  BY DEF AssignCodes
<1>4. ASSUME NEW i \in DOMAIN ms
      PROVE  /\ as[i] \in ModuleDefinition
             /\ as[i].code = IF IsList(as[i]) THEN config.list ELSE config.receipt
  <2> DEFINE code == IF IsList(ms[i]) THEN config.list ELSE config.receipt
  <2>1. as[i] = [ms[i] EXCEPT !.code = code] /\ ms[i] \in ModuleDefinition /\ code \in CodeIds
    BY <1>1, <1>2 DEF AssignCodes
  <2> HIDE DEF as
  <2>2. as[i] \in ModuleDefinition /\ as[i].code = code /\ as[i].kind = ms[i].kind
    BY <2>1 DEF ModuleDefinition
  <2> QED
    BY <2>2 DEF IsList
<1>5. as \in Seq(ModuleDefinition) /\ Len(as) = Len(ms)
  BY <1>1, <1>4 DEF AssignCodes
<1> QED
  BY <1>3, <1>4, <1>5

LEMMA CreateStep ==
  ASSUME Inv, NEW s \in Users, NEW sym \in Symbols, NEW ms \in ModuleLists, Create(s, sym, ms)
  PROVE  Inv' /\ Step /\ Committed' = Committed
<1>1. tx = NoTx /\ Sound(contracts)
  BY Idle DEF Create
<1>2. PICK m : m = TokenInstantiation(s, sym, AssignCodes(ms))
  OBVIOUS
<1>3. /\ tx' = Tx(<<FrameOf(Self, <<m>>, contracts)>>, FALSE, addresses)
      /\ sym \notin DOMAIN addresses /\ NextAddress + Len(ms) <= MaxContracts
      /\ UNCHANGED <<addresses, config, factoryOwner, contracts>>
  BY <1>2 DEF Create, Now!IsAddressDefined, Frame, FrameOf, Tx
<1>4. Order(m) /\ m.symbol = sym /\ Len(m.modules) = Len(ms)
  <2>1. m.id = REPLY_CREATE_TOKEN /\ m.asked = "token" /\ m.code = config.token /\ m.minter = s
        /\ m.symbol = sym /\ m.modules = AssignCodes(ms)
    BY <1>2 DEF TokenInstantiation
  <2> QED
    BY <2>1, AssignedCodes DEF Order
<1>5. Starting(contracts, addresses, m)'
  BY <1>1, <1>3, <1>4 DEF Starting, NextAddress, Sound, Numbered, Formed, FrameOf, Tx, Order
<1>6. Inv'
  BY <1>3, <1>5 DEF Inv, Stages
<1>7. Committed' = Committed
  <2>1. PICK b : b = FrameOf(Self, <<m>>, contracts)
    OBVIOUS
  <2>2. tx'.frames = <<b>> /\ tx'.before = addresses /\ b.undo = contracts
    BY <1>3, <2>1 DEF FrameOf, Tx
  <2>3. tx' # NoTx /\ tx'.frames[Len(tx'.frames)] = b
    BY <2>2, Seen
  <2> QED
    BY <1>1, <2>2, <2>3 DEF Committed, NoTx
<1> QED
  BY <1>3, <1>6, <1>7, Unseen

\* The response of a token contract's instantiate handler.
LEMMA PartsAsked ==
  ASSUME config \in F!Config, NEW m, Order(m)
  PROVE  ModuleInstantiations(m.modules) \in Seq(PartMessage)
         /\ Len(ModuleInstantiations(m.modules)) <= Len(m.modules)
<1> DEFINE ms == m.modules
           first == IF Len(ms) >= 1 THEN OnInstantiate(ms[1]) ELSE <<>>
           second == IF Len(ms) >= 2 THEN OnInstantiate(ms[2]) ELSE <<>>
<1>1. ms \in Seq(ModuleDefinition) /\ Len(ms) \in Nat
  BY DEF Order
<1>2. ASSUME NEW i \in DOMAIN ms
      PROVE  ModuleInstantiation(ms[i]) \in PartMessage
  <2>1. ms[i].code = IF IsList(ms[i]) THEN config.list ELSE config.receipt
    BY <1>2 DEF Order
  <2> QED
    BY <2>1 DEF ModuleInstantiation, PartMessage, F!Config
<1>3. ASSUME NEW i \in DOMAIN ms
      PROVE  OnInstantiate(ms[i]) \in Seq(PartMessage) /\ Len(OnInstantiate(ms[i])) \in 0..1
  BY <1>2 DEF OnInstantiate
<1>4. first \in Seq(PartMessage) /\ Len(first) \in 0..1 /\ (Len(ms) = 0 => Len(first) = 0)
  BY <1>1, <1>3
<1>5. second \in Seq(PartMessage) /\ Len(second) \in 0..1 /\ (Len(ms) <= 1 => Len(second) = 0)
  BY <1>1, <1>3
<1>6. ModuleInstantiations(ms) = first \o second
  BY DEF ModuleInstantiations
<1> HIDE DEF first, second, ms
<1>7. first \o second \in Seq(PartMessage) /\ Len(first \o second) = Len(first) + Len(second)
  BY <1>4, <1>5, ConcatProperties
<1> QED
  BY <1>1, <1>4, <1>5, <1>6, <1>7 DEF ms

\* Which message comes next, if one does.
LEMMA TopWaiting ==
  ASSUME Inv, Waiting
  PROVE  \/ \E old, before, m : Starting(old, before, m)
         \/ \E old, before, m, c, parts, todo, undo :
              todo # <<>> /\ Running(old, before, m, c, parts, todo, undo)
<1>1. tx # NoTx /\ ~tx.failed /\ Top.todo # <<>>
  BY DEF Waiting
<1>2. ASSUME NEW old, NEW before, NEW m, NEW c, NEW parts, NEW todo, NEW undo,
             Running(old, before, m, c, parts, todo, undo)
      PROVE  todo # <<>>
  BY <1>1, <1>2, RunningTop
<1>3. ASSUME NEW old, NEW before, NEW m, NEW c, NEW parts, NEW todo, NEW undo, NEW d, NEW undo2,
             Nested(old, before, m, c, parts, todo, undo, d, undo2)
      PROVE  FALSE
  BY <1>1, <1>3, NestedTop
<1>4. ASSUME NEW old, NEW before, NEW m, NEW c, NEW parts, Ending(old, before, m, c, parts)
      PROVE  FALSE
  BY <1>1, <1>4, EndingTop
<1>5. ASSUME NEW old, NEW before, NEW frames, Failing(old, before, frames)
      PROVE  FALSE
  BY <1>1, <1>5, FailingTop
<1> QED
  BY <1>1, <1>2, <1>3, <1>4, <1>5 DEF Inv, Stages

LEMMA TopFinished ==
  ASSUME Inv, Finished
  PROVE  \/ \E old, before, m, c, parts, undo : Running(old, before, m, c, parts, <<>>, undo)
         \/ \E old, before, m, c, parts, todo, undo, d, undo2 :
              Nested(old, before, m, c, parts, todo, undo, d, undo2)
<1>1. tx # NoTx /\ ~tx.failed /\ Top.todo = <<>> /\ Len(tx.frames) > 1
  BY DEF Finished
<1>2. ASSUME NEW old, NEW before, NEW m, NEW c, NEW parts, NEW todo, NEW undo,
             Running(old, before, m, c, parts, todo, undo)
      PROVE  todo = <<>>
  BY <1>1, <1>2, RunningTop
<1>3. ASSUME NEW old, NEW before, NEW m, Starting(old, before, m)
      PROVE  FALSE
  BY <1>1, <1>3, StartingTop
<1>4. ASSUME NEW old, NEW before, NEW m, NEW c, NEW parts, Ending(old, before, m, c, parts)
      PROVE  FALSE
  <2>1. Len(tx.frames) = 1
    BY <1>4, EndingTop
  <2> QED
    BY <1>1, <2>1
<1>5. ASSUME NEW old, NEW before, NEW frames, Failing(old, before, frames)
      PROVE  FALSE
  BY <1>1, <1>5, FailingTop
<1> QED
  BY <1>1, <1>2, <1>3, <1>4, <1>5 DEF Inv, Stages

LEMMA SummaryOf ==
  ASSUME NEW cs, NEW d \in DOMAIN cs
  PROVE  /\ Summary(cs)[d] = [owner |-> cs[d].owner, symbol |-> cs[d].symbol, code |-> cs[d].code]
         /\ DOMAIN Summary(cs) = DOMAIN cs
BY DEF Summary

\* The frame of a new contract goes on top.
LEMMA Push ==
  ASSUME NEW m, NEW frames, NEW before, tx = Tx(frames, FALSE, before), Top.todo # <<>>,
         Head(Top.todo) = m, Instantiate, Sound(contracts), NextAddress <= MaxContracts
  PROVE  /\ Instantiable(m) /\ UNCHANGED <<addresses, config, factoryOwner>>
         /\ contracts' = Save(contracts, NextAddress, NewContract(m, Top.who))
         /\ tx' = Tx(<<FrameOf(NextAddress, Response(m), contracts)>> \o frames, FALSE, before)
         /\ Sound(contracts') /\ NextAddress' = NextAddress + 1 /\ NextAddress \in Contracts
<1>1. /\ Instantiable(m) /\ UNCHANGED <<addresses, config, factoryOwner>>
      /\ contracts' = Save(contracts, NextAddress, NewContract(m, Top.who))
      /\ tx' = [tx EXCEPT !.frames = <<Frame(NextAddress, Response(m))>> \o @]
  BY DEF Instantiate
<1>2. tx' = Tx(<<FrameOf(NextAddress, Response(m), contracts)>> \o frames, FALSE, before)
  BY <1>1 DEF Tx, Frame, FrameOf
<1>3. {"kind", "code", "owner", "symbol", "modules", "list", "receipt"} \subseteq DOMAIN NewContract(m, Top.who)
  BY DEF NewContract
<1> QED
  BY <1>1, <1>2, <1>3, AddContract

LEMMA TokenMade ==
  ASSUME config \in F!Config, NEW old, NEW before, NEW m, Starting(old, before, m), Instantiate
  PROVE  /\ \E c, undo, todo : /\ c = NextAddress /\ todo = Response(m)
                                /\ Running(old, before, m, c, EmptyMap, todo, undo)'
         /\ Instantiable(m) /\ contracts' = Save(contracts, NextAddress, NewContract(m, Self))
         /\ UNCHANGED <<config, factoryOwner>>
<1>1. /\ tx = Tx(<<FrameOf(Self, <<m>>, old)>>, FALSE, before)
      /\ Order(m) /\ m.symbol \notin DOMAIN before
      /\ Sound(contracts) /\ contracts = old /\ addresses = before
      /\ NextAddress + Len(m.modules) <= MaxContracts
  BY DEF Starting
<1>2. Top.who = Self /\ Top.todo # <<>> /\ Head(Top.todo) = m
  <2>1. Top.who = Self /\ Top.todo = <<m>>
    BY StartingTop
  <2> QED
    BY <2>1
<1>3. Len(m.modules) \in Nat /\ NextAddress \in Nat
  BY <1>1, Numbering DEF Order, Sound
<1>4. NextAddress <= MaxContracts
  BY <1>1, <1>3, CreationAssumption
<1>5. /\ Instantiable(m) /\ UNCHANGED <<addresses, config, factoryOwner>>
      /\ contracts' = Save(contracts, NextAddress, NewContract(m, Self))
      /\ tx' = Tx(<<FrameOf(NextAddress, Response(m), contracts)>> \o <<FrameOf(Self, <<m>>, old)>>,
                  FALSE, before)
      /\ Sound(contracts') /\ NextAddress' = NextAddress + 1 /\ NextAddress \in Contracts
  BY <1>1, <1>2, <1>4, Push
<1>6. PICK c, undo, todo : c = NextAddress /\ undo = contracts /\ todo = Response(m)
  OBVIOUS
<1>7. tx' = Tx(<<FrameOf(c, todo, undo), FrameOf(Self, <<m>>, old)>>, FALSE, before)
  BY <1>5, <1>6, OnePair
<1>8. todo \in Seq(PartMessage) /\ Len(todo) <= Len(m.modules)
  BY <1>1, <1>3, <1>6, PartsAsked DEF Response
<1>9. /\ c \in DOMAIN contracts' /\ c \notin DOMAIN old /\ contracts'[c] = NewContract(m, Self)
      /\ \A d \in DOMAIN old : contracts'[d] = contracts[d]
      /\ DOMAIN contracts' = DOMAIN old \cup {c}
  BY <1>1, <1>5, <1>6, Numbering DEF Save, Sound
<1>10. /\ contracts'[c].kind = KindOf[m.code]
       /\ KindOf[m.code] # "token" => todo = <<>>
  BY <1>6, <1>9 DEF NewContract, Response
<1>11. contracts'[c].kind = "token" => Built(old, m, c, EmptyMap)'
  <2> SUFFICES ASSUME contracts'[c].kind = "token"
               PROVE  Built(old, m, c, EmptyMap)'
    OBVIOUS
  <2>1. /\ contracts'[c].owner = m.minter /\ contracts'[c].symbol = m.symbol
        /\ contracts'[c].code = m.code /\ m.code = config.token
    BY <1>1, <1>9, <1>10 DEF NewContract, Order
  <2>2. PICK parts : parts = EmptyMap
    OBVIOUS
  <2>3. DOMAIN parts = {}
    BY <2>2 DEF EmptyMap
  <2>4. ASSUME NEW d \in DOMAIN old
        PROVE  Summary(contracts')[d] = Summary(old)[d]
    <3>1. d \in DOMAIN contracts' /\ contracts'[d] = old[d]
      BY <1>1, <1>9
    <3>2. Summary(contracts')[d] =
            [owner |-> old[d].owner, symbol |-> old[d].symbol, code |-> old[d].code]
      BY <3>1, SummaryOf
    <3>3. Summary(old)[d] =
            [owner |-> old[d].owner, symbol |-> old[d].symbol, code |-> old[d].code]
      BY SummaryOf
    <3> QED
      BY <3>2, <3>3
  <2>5. Summary(contracts')[c] = [owner |-> m.minter, symbol |-> m.symbol, code |-> config.token]
    BY <1>9, <2>1, SummaryOf
  <2>6. /\ c \in Contracts \ DOMAIN old /\ DOMAIN parts \subseteq Contracts \ (DOMAIN old \cup {c})
        /\ \A d \in DOMAIN parts : parts[d] \in {"receipt", "list"}
        /\ DOMAIN contracts' = DOMAIN old \cup {c} \cup DOMAIN parts
    BY <1>5, <1>6, <1>9, <2>3
  <2>7. Built(old, m, c, parts)'
    BY <1>5, <2>3, <2>4, <2>5, <2>6 DEF Built
  <2> QED
    BY <2>2, <2>7
<1>12. Running(old, before, m, c, EmptyMap, todo, undo)'
  <2>1. NextAddress' + Len(todo) <= MaxContracts + 1
    BY <1>1, <1>3, <1>5, <1>8, CreationAssumption
  <2>2. Order(m)' /\ PartMessage' = PartMessage
    BY <1>1, <1>5 DEF Order, PartMessage
  <2>3. Sound(old)
    BY <1>1
  <2> QED
    BY <1>1, <1>5, <1>7, <1>8, <1>9, <1>10, <1>11, <2>1, <2>2, <2>3
    DEF Running, Sound, Numbered, Formed, FrameOf, Tx
<1> QED
  BY <1>5, <1>6, <1>12

LEMMA BuiltMore ==
  ASSUME NEW old, NEW m, NEW c, NEW parts, Built(old, m, c, parts), config' = config,
         NEW d \in Contracts \ DOMAIN contracts, NEW a \in {"receipt", "list"}, NEW r,
         r.owner = c, r.symbol = Unset, r.code = config[a],
         contracts' = Save(contracts, d, r)
  PROVE  \E more : Built(old, m, c, more)'
<1>1. /\ c \in Contracts \ DOMAIN old
      /\ DOMAIN parts \subseteq Contracts \ (DOMAIN old \cup {c})
      /\ \A e \in DOMAIN parts : parts[e] \in {"receipt", "list"}
      /\ DOMAIN contracts = DOMAIN old \cup {c} \cup DOMAIN parts
      /\ \A e \in DOMAIN old : Summary(contracts)[e] = Summary(old)[e]
      /\ Summary(contracts)[c] = [owner |-> m.minter, symbol |-> m.symbol, code |-> config.token]
      /\ \A e \in DOMAIN parts :
           Summary(contracts)[e] = [owner |-> c, symbol |-> Unset, code |-> config[parts[e]]]
  BY DEF Built
<1>2. PICK more : more = Save(parts, d, a)
  OBVIOUS
<1>3. /\ DOMAIN more = DOMAIN parts \cup {d} /\ more[d] = a
      /\ \A e \in DOMAIN parts : more[e] = parts[e]
  BY <1>1, <1>2 DEF Save
<1>4. /\ DOMAIN contracts' = DOMAIN contracts \cup {d} /\ contracts'[d] = r
      /\ \A e \in DOMAIN contracts : contracts'[e] = contracts[e]
  BY DEF Save
<1>5. ASSUME NEW e \in DOMAIN contracts
      PROVE  Summary(contracts')[e] = Summary(contracts)[e]
  BY <1>4 DEF Summary
<1>6. Summary(contracts')[d] = [owner |-> c, symbol |-> Unset, code |-> config[a]]
  BY <1>4 DEF Summary
<1>7. /\ DOMAIN more \subseteq Contracts \ (DOMAIN old \cup {c})
      /\ \A e \in DOMAIN more : more[e] \in {"receipt", "list"}
      /\ DOMAIN contracts' = DOMAIN old \cup {c} \cup DOMAIN more
  BY <1>1, <1>3, <1>4
<1>8. /\ \A e \in DOMAIN old : Summary(contracts')[e] = Summary(old)[e]
      /\ Summary(contracts')[c] = [owner |-> m.minter, symbol |-> m.symbol, code |-> config.token]
  BY <1>1, <1>5
<1>9. ASSUME NEW e \in DOMAIN more
      PROVE  Summary(contracts')[e] = [owner |-> c, symbol |-> Unset, code |-> config[more[e]]]
  BY <1>1, <1>3, <1>5, <1>6
<1>10. Built(old, m, c, more)'
  BY <1>1, <1>7, <1>8, <1>9 DEF Built
<1> QED
  BY <1>10

LEMMA PartMade ==
  ASSUME config \in F!Config, NEW old, NEW before, NEW m, NEW c, NEW parts, NEW todo, NEW undo,
         Running(old, before, m, c, parts, todo, undo), todo # <<>>, Instantiate
  PROVE  /\ \E more, d, undo2 : /\ d = NextAddress
                                /\ Nested(old, before, m, c, more, todo, undo, d, undo2)'
         /\ Instantiable(Head(todo)) /\ contracts' = Save(contracts, NextAddress, NewContract(Head(todo), c))
         /\ UNCHANGED <<config, factoryOwner>>
<1>1. /\ tx = Tx(<<FrameOf(c, todo, undo), FrameOf(Self, <<m>>, old)>>, FALSE, before)
      /\ Order(m) /\ m.symbol \notin DOMAIN before
      /\ Sound(old) /\ Sound(contracts) /\ addresses = before
      /\ todo \in Seq(PartMessage) /\ NextAddress + Len(todo) <= MaxContracts + 1
      /\ c \in DOMAIN contracts /\ contracts[c].kind = "token" /\ Built(old, m, c, parts)
  BY DEF Running
<1>2. PICK p : p = Head(todo)
  OBVIOUS
<1>3. p \in PartMessage /\ Len(todo) \in Nat \ {0}
  BY <1>1, <1>2
<1>4. Top.who = c /\ Top.todo = todo
  BY RunningTop
<1>5. NextAddress <= MaxContracts
  BY <1>1, <1>3, Numbering, CreationAssumption DEF Sound
<1>6. /\ Instantiable(p) /\ UNCHANGED <<addresses, config, factoryOwner>>
      /\ contracts' = Save(contracts, NextAddress, NewContract(p, c))
      /\ tx' = Tx(<<FrameOf(NextAddress, Response(p), contracts)>>
                    \o <<FrameOf(c, todo, undo), FrameOf(Self, <<m>>, old)>>, FALSE, before)
      /\ Sound(contracts') /\ NextAddress' = NextAddress + 1 /\ NextAddress \in Contracts
  BY <1>1, <1>2, <1>4, <1>5, Push
<1>7. PICK d, undo2 : d = NextAddress /\ undo2 = contracts
  OBVIOUS
<1>8. p.asked \in {"receipt", "list"} /\ p.code = config[p.asked] /\ p.code \in CodeIds
  BY <1>3 DEF PartMessage
<1>9. KindOf[p.code] \in {"receipt", "list"}
  BY <1>6, <1>8, CreationAssumption DEF Instantiable, Parses
<1>10. Response(p) = <<>>
  BY <1>9 DEF Response
<1>11. tx' = Tx(<<FrameOf(d, <<>>, undo2), FrameOf(c, todo, undo), FrameOf(Self, <<m>>, old)>>, FALSE, before)
  <2>1. PICK g, f, b : /\ g = FrameOf(d, <<>>, undo2) /\ f = FrameOf(c, todo, undo)
                       /\ b = FrameOf(Self, <<m>>, old)
    OBVIOUS
  <2>2. tx' = Tx(<<g>> \o <<f, b>>, FALSE, before)
    BY <1>6, <1>7, <1>10, <2>1
  <2> QED
    BY <2>1, <2>2, OneTriple
<1>12. d \in Contracts \ DOMAIN contracts
  BY <1>1, <1>6, <1>7, Numbering DEF Sound
<1>13. PICK more : Built(old, m, c, more)'
  <2>1. PICK r : r = NewContract(p, c)
    OBVIOUS
  <2>2. r.owner = c /\ r.symbol = Unset /\ r.code = config[p.asked]
    BY <1>8, <1>9, <2>1 DEF NewContract
  <2> QED
    BY <1>1, <1>6, <1>7, <1>8, <1>12, <2>1, <2>2, BuiltMore
<1>14. contracts'[c].kind = "token"
  BY <1>1, <1>6, <1>7, <1>12 DEF Save
<1>15. Nested(old, before, m, c, more, todo, undo, d, undo2)'
  <2>1. NextAddress' + Len(todo) <= MaxContracts + 2
    BY <1>1, <1>3, <1>6, Numbering, CreationAssumption DEF Sound
  <2>2. Order(m)' /\ PartMessage' = PartMessage
    BY <1>1, <1>6 DEF Order, PartMessage
  <2> QED
    BY <1>1, <1>6, <1>11, <1>13, <1>14, <2>1, <2>2 DEF Nested, Sound, Numbered, Formed, FrameOf, Tx
<1> QED
  BY <1>2, <1>6, <1>7, <1>15

\* Carrying out a message is not seen by others.
LEMMA InstantiateStep ==
  ASSUME Inv, Instantiate
  PROVE  Inv' /\ Step /\ Committed' = Committed
<1>1. config \in F!Config /\ Waiting
  BY DEF Inv, Instantiate
<1>2. ASSUME NEW old, NEW before, NEW m, Starting(old, before, m)
      PROVE  Inv' /\ Step /\ Committed' = Committed
  <2>1. PICK c, undo, todo : Running(old, before, m, c, EmptyMap, todo, undo)'
    BY <1>1, <1>2, TokenMade
  <2>2. UNCHANGED <<config, factoryOwner>>
    BY <1>1, <1>2, TokenMade
  <2>3. Committed = [addresses |-> before, contracts |-> old]
    BY <1>2, StartingTop
  <2>4. Committed' = [addresses |-> before, contracts |-> old]
    BY <2>1, RunningSeen
  <2>5. Inv'
    BY <1>1, <2>1, <2>2 DEF Inv, Stages
  <2> QED
    BY <2>2, <2>3, <2>4, <2>5, Unseen
<1>3. ASSUME NEW old, NEW before, NEW m, NEW c, NEW parts, NEW todo, NEW undo,
             todo # <<>>, Running(old, before, m, c, parts, todo, undo)
      PROVE  Inv' /\ Step /\ Committed' = Committed
  <2>1. PICK more, d, undo2 : Nested(old, before, m, c, more, todo, undo, d, undo2)'
    BY <1>1, <1>3, PartMade
  <2>2. UNCHANGED <<config, factoryOwner>>
    BY <1>1, <1>3, PartMade
  <2>3. Committed = [addresses |-> before, contracts |-> old]
    BY <1>3, RunningTop
  <2>4. Committed' = [addresses |-> before, contracts |-> old]
    BY <2>1, NestedSeen
  <2>5. Inv'
    BY <1>1, <2>1, <2>2 DEF Inv, Stages
  <2> QED
    BY <2>2, <2>3, <2>4, <2>5, Unseen
<1> QED
  BY <1>1, <1>2, <1>3, TopWaiting

LEMMA FrameLess ==
  ASSUME NEW who, NEW todo, NEW undo
  PROVE  OneMessageLess(FrameOf(who, todo, undo)) = FrameOf(who, Tail(todo), undo)
<1> DEFINE frame == FrameOf(who, todo, undo)
<1>1. frame.who = who /\ frame.todo = todo /\ frame.undo = undo /\ DOMAIN frame = {"who", "todo", "undo"}
  BY DEF FrameOf
<1>2. /\ OneMessageLess(frame).who = who /\ OneMessageLess(frame).todo = Tail(todo)
      /\ OneMessageLess(frame).undo = undo
      /\ OneMessageLess(frame) = [x \in {"who", "todo", "undo"} |-> OneMessageLess(frame)[x]]
  BY <1>1 DEF OneMessageLess
<1> QED
  BY <1>2 DEF FrameOf

\* The frame on top goes, and its caller has one message less to send.
LEMMA Pop ==
  ASSUME NEW f, NEW g, NEW below, NEW before, NEW frames, tx = Tx(frames, FALSE, before),
         Caller = f, OneMessageLess(f) = g, Tail(Tail(frames)) = below, TokenReply \/ FactoryReply
  PROVE  tx' = Tx(<<g>> \o below, FALSE, before)
<1>1. tx.frames = frames
  BY DEF Tx
<1>2. FramesAfterReply = <<g>> \o below
  BY <1>1 DEF FramesAfterReply
<1>3. tx' = [tx EXCEPT !.frames = FramesAfterReply]
  BY DEF TokenReply, FactoryReply
<1> QED
  BY <1>2, <1>3 DEF Tx

\* The answer of a module's contract is stored in the token contract.
LEMMA PartAnswered ==
  ASSUME config \in F!Config, NEW old, NEW before, NEW m, NEW c, NEW parts, NEW todo, NEW undo,
         NEW d, NEW undo2, Nested(old, before, m, c, parts, todo, undo, d, undo2), TokenReply
  PROVE  /\ \E rest : rest = Tail(todo) /\ Running(old, before, m, c, parts, rest, undo)'
         /\ UNCHANGED <<config, factoryOwner>>
<1>1. /\ tx = Tx(<<FrameOf(d, <<>>, undo2), FrameOf(c, todo, undo), FrameOf(Self, <<m>>, old)>>, FALSE, before)
      /\ Order(m) /\ m.symbol \notin DOMAIN before
      /\ Sound(old) /\ Sound(contracts) /\ addresses = before
      /\ todo \in Seq(PartMessage) /\ todo # <<>> /\ NextAddress + Len(todo) <= MaxContracts + 2
      /\ contracts[c].kind = "token" /\ Built(old, m, c, parts)
  BY DEF Nested
<1>2. c \in DOMAIN contracts /\ Caller = FrameOf(c, todo, undo)
  <2>1. c \in DOMAIN contracts
    BY <1>1 DEF Built
  <2>2. Caller = FrameOf(c, todo, undo)
    BY NestedCaller
  <2> QED
    BY <2>1, <2>2
<1>3. Caller.who = c /\ Caller.todo = todo
  BY <1>2 DEF FrameOf
<1>4. PICK p, rest : p = Head(todo) /\ rest = Tail(todo)
  OBVIOUS
<1>5. p \in PartMessage /\ rest \in Seq(PartMessage) /\ Len(rest) = Len(todo) - 1 /\ Len(todo) \in Nat
  BY <1>1, <1>4
<1>6. p.id \in {REPLY_RECEIPT, REPLY_ADDRESS_LIST}
  BY <1>5 DEF PartMessage
<1>7. \/ contracts' = [contracts EXCEPT ![c].receipt = ReplyAddress]
      \/ contracts' = [contracts EXCEPT ![c].list = ReplyAddress]
  BY <1>3, <1>4, <1>6 DEF TokenReply
<1>8. /\ DOMAIN contracts' = DOMAIN contracts
      /\ \A e \in DOMAIN contracts : /\ DOMAIN contracts'[e] = DOMAIN contracts[e]
                                     /\ contracts'[e].owner = contracts[e].owner
                                     /\ contracts'[e].symbol = contracts[e].symbol
                                     /\ contracts'[e].code = contracts[e].code
                                     /\ contracts'[e].kind = contracts[e].kind
  BY <1>1, <1>2, <1>7 DEF Sound, Formed
<1>9. Summary(contracts') = Summary(contracts)
  BY <1>8 DEF Summary
<1>10. Sound(contracts') /\ NextAddress' = NextAddress
  BY <1>1, <1>8 DEF Sound, Numbered, Formed, NextAddress
<1>11. UNCHANGED <<addresses, config, factoryOwner>> /\ tx' = [tx EXCEPT !.frames = FramesAfterReply]
  BY DEF TokenReply
<1>12. tx' = Tx(<<FrameOf(c, rest, undo), FrameOf(Self, <<m>>, old)>>, FALSE, before)
  <2>1. PICK e, f, b, g, frames :
          /\ e = FrameOf(d, <<>>, undo2) /\ f = FrameOf(c, todo, undo) /\ b = FrameOf(Self, <<m>>, old)
          /\ g = FrameOf(c, rest, undo) /\ frames = <<e, f, b>>
    OBVIOUS
  <2>2. Tail(<<e, f, b>>) = <<f, b>> /\ Tail(<<f, b>>) = <<b>>
    OBVIOUS
  <2>3. Tail(Tail(frames)) = <<b>>
    BY <2>1, <2>2
  <2>4. OneMessageLess(f) = g
    BY <1>4, <2>1, FrameLess
  <2>5. tx = Tx(frames, FALSE, before) /\ Caller = f
    BY <1>1, <1>2, <2>1
  <2>6. tx' = Tx(<<g>> \o <<b>>, FALSE, before)
    BY <2>3, <2>4, <2>5, Pop
  <2> QED
    BY <2>1, <2>6, OnePair
<1>13. Built(old, m, c, parts)'
  BY <1>1, <1>8, <1>9, <1>11 DEF Built
<1>14. Running(old, before, m, c, parts, rest, undo)'
  <2>1. NextAddress' + Len(rest) <= MaxContracts + 1
    BY <1>1, <1>5, <1>10, Numbering, CreationAssumption DEF Sound
  <2>2. Order(m)' /\ PartMessage' = PartMessage
    BY <1>1, <1>11 DEF Order, PartMessage
  <2>3. c \in DOMAIN contracts' /\ contracts'[c].kind = "token"
    BY <1>1, <1>2, <1>8
  <2> QED
    BY <1>1, <1>5, <1>10, <1>11, <1>12, <1>13, <2>1, <2>2, <2>3
    DEF Running, Sound, Numbered, Formed, FrameOf, Tx
<1> QED
  BY <1>4, <1>11, <1>14

\* The answer of the token contract's is stored in the factory.
LEMMA TokenAnswered ==
  ASSUME config \in F!Config, NEW old, NEW before, NEW m, NEW c, NEW parts, NEW undo,
         Running(old, before, m, c, parts, <<>>, undo), FactoryReply
  PROVE  Ending(old, before, m, c, parts)' /\ UNCHANGED <<config, factoryOwner, contracts>>
         /\ c \in DOMAIN contracts /\ contracts[c].kind = "token" /\ contracts[c].symbol = m.symbol
<1>1. /\ tx = Tx(<<FrameOf(c, <<>>, undo), FrameOf(Self, <<m>>, old)>>, FALSE, before)
      /\ Order(m) /\ m.symbol \notin DOMAIN before
      /\ Sound(old) /\ Sound(contracts) /\ addresses = before /\ c \in DOMAIN contracts
      /\ contracts[c].kind = "token" => Built(old, m, c, parts)
  BY DEF Running
<1>2. PICK f, b, g, frames :
        /\ f = FrameOf(c, <<>>, undo) /\ b = FrameOf(Self, <<m>>, old)
        /\ g = FrameOf(Self, <<>>, old) /\ frames = <<f, b>>
  OBVIOUS
<1>3. tx = Tx(frames, FALSE, before) /\ tx.frames = <<f, b>>
  BY <1>1, <1>2 DEF Tx
<1>4. Top = f /\ Caller = b
  BY <1>3, CommittedTwo
<1>5. ReplyAddress = c
  BY <1>2, <1>4 DEF ReplyAddress, FrameOf
<1>6. /\ contracts[c].kind = "token" /\ addresses' = Save(addresses, contracts[c].symbol, c)
      /\ UNCHANGED <<config, factoryOwner, contracts>>
  BY <1>5 DEF FactoryReply
<1>7. contracts[c].symbol = m.symbol
  <2>1. Summary(contracts)[c] = [owner |-> m.minter, symbol |-> m.symbol, code |-> config.token]
    BY <1>1, <1>6 DEF Built
  <2>2. Summary(contracts)[c] =
          [owner |-> contracts[c].owner, symbol |-> contracts[c].symbol, code |-> contracts[c].code]
    BY <1>1, SummaryOf
  <2> QED
    BY <2>1, <2>2
<1>8. tx' = Tx(<<g>>, FALSE, before)
  <2>1. Tail(<<f, b>>) = <<b>> /\ Tail(<<b>>) = <<>> /\ Tail(<<m>>) = <<>> /\ <<g>> \o <<>> = <<g>>
    OBVIOUS
  <2>2. Tail(Tail(frames)) = <<>>
    BY <1>2, <2>1
  <2>3. OneMessageLess(b) = g
    <3>1. PICK one : one = <<m>>
      OBVIOUS
    <3>2. b = FrameOf(Self, one, old) /\ g = FrameOf(Self, Tail(one), old)
      BY <1>2, <2>1, <3>1
    <3> QED
      BY <3>2, FrameLess
  <2>4. tx' = Tx(<<g>> \o <<>>, FALSE, before)
    BY <1>3, <1>4, <2>2, <2>3, Pop
  <2> QED
    BY <2>1, <2>4
<1>9. Ending(old, before, m, c, parts)'
  <2>1. Order(m)' /\ Built(old, m, c, parts)'
    BY <1>1, <1>6 DEF Order, Built
  <2>2. Sound(contracts')
    BY <1>1, <1>6
  <2> QED
    BY <1>1, <1>2, <1>6, <1>7, <1>8, <2>1, <2>2 DEF Ending, Sound, Numbered, Formed, FrameOf, Tx
<1> QED
  BY <1>1, <1>6, <1>7, <1>9

LEMMA NotSelf == ASSUME NEW old, NEW m, NEW c, NEW parts, Built(old, m, c, parts) PROVE c # Self
BY CreationAssumption DEF Built

\* Replies are not seen by others.
LEMMA ReplyStep ==
  ASSUME Inv, TokenReply \/ FactoryReply
  PROVE  Inv' /\ Step /\ Committed' = Committed
<1>1. config \in F!Config /\ Finished
  BY DEF Inv, TokenReply, FactoryReply
<1>2. ASSUME NEW old, NEW before, NEW m, NEW c, NEW parts, NEW undo,
             Running(old, before, m, c, parts, <<>>, undo)
      PROVE  Inv' /\ Step /\ Committed' = Committed
  <2>1. Caller = FrameOf(Self, <<m>>, old) /\ Committed = [addresses |-> before, contracts |-> old]
    BY <1>2, RunningTop
  <2>2. FactoryReply
    BY <2>1 DEF TokenReply, FrameOf
  <2>3. Ending(old, before, m, c, parts)' /\ UNCHANGED <<config, factoryOwner, contracts>>
    BY <1>1, <1>2, <2>2, TokenAnswered
  <2>4. Committed' = [addresses |-> before, contracts |-> old]
    BY <2>3, EndingSeen
  <2>5. Inv'
    BY <1>1, <2>3 DEF Inv, Stages
  <2> QED
    BY <2>1, <2>3, <2>4, <2>5, Unseen
<1>3. ASSUME NEW old, NEW before, NEW m, NEW c, NEW parts, NEW todo, NEW undo, NEW d, NEW undo2,
             Nested(old, before, m, c, parts, todo, undo, d, undo2)
      PROVE  Inv' /\ Step /\ Committed' = Committed
  <2>1. Caller = FrameOf(c, todo, undo) /\ Committed = [addresses |-> before, contracts |-> old]
    BY <1>3, NestedCaller
  <2>2. c # Self
    BY <1>3, NotSelf DEF Nested
  <2>3. TokenReply
    BY <2>1, <2>2 DEF FactoryReply, FrameOf
  <2>4. /\ \E rest : Running(old, before, m, c, parts, rest, undo)'
        /\ UNCHANGED <<config, factoryOwner>>
    BY <1>1, <1>3, <2>3, PartAnswered
  <2>5. PICK rest : Running(old, before, m, c, parts, rest, undo)'
    BY <2>4
  <2>6. Committed' = [addresses |-> before, contracts |-> old]
    BY <2>5, RunningSeen
  <2>7. Inv'
    BY <1>1, <2>4, <2>5 DEF Inv, Stages
  <2> QED
    BY <2>1, <2>4, <2>6, <2>7, Unseen
<1> QED
  BY <1>1, <1>2, <1>3, TopFinished

\* The contract whose message has failed fails as well; others see nothing of it.
LEMMA FailStep ==
  ASSUME Inv, InstantiateFails \/ FactoryReplyFails
  PROVE  Inv' /\ Step /\ Committed' = Committed /\ tx'.failed
<1>1. config \in F!Config /\ UNCHANGED <<addresses, config, factoryOwner, contracts>>
  BY DEF Inv, InstantiateFails, FactoryReplyFails
<1>2. ASSUME NEW old, NEW before, NEW frames, Failing(old, before, frames)',
             Committed = [addresses |-> before, contracts |-> old]
      PROVE  Inv' /\ Step /\ Committed' = Committed /\ tx'.failed
  <2>1. Committed' = [addresses |-> before, contracts |-> old]
    BY <1>2, FailingSeen
  <2>2. Inv'
    BY <1>1, <1>2 DEF Inv, Stages
  <2>3. tx'.failed
    BY <1>2 DEF Failing, Tx
  <2> QED
    BY <1>1, <1>2, <2>1, <2>2, <2>3, Unseen
<1>3. ASSUME NEW old, NEW before, NEW m, Starting(old, before, m), InstantiateFails
      PROVE  Inv' /\ Step /\ Committed' = Committed /\ tx'.failed
  <2>1. PICK b : b = FrameOf(Self, <<m>>, old)
    OBVIOUS
  <2>2. tx = Tx(<<b>>, FALSE, before) /\ Sound(old) /\ addresses = before
    BY <1>3, <2>1 DEF Starting
  <2>3. tx' = Tx(<<b>>, TRUE, before)
    BY <1>3, <2>2 DEF InstantiateFails, Tx
  <2>4. b.undo = old
    BY <2>1 DEF FrameOf
  <2>5. Failing(old, before, <<b>>)'
    BY <1>1, <2>2, <2>3, <2>4 DEF Failing, Sound, Numbered, Formed, Tx
  <2>6. Committed = [addresses |-> before, contracts |-> old]
    BY <1>3, StartingTop
  <2> QED
    BY <1>2, <2>5, <2>6
<1>4. ASSUME NEW old, NEW before, NEW m, NEW c, NEW parts, NEW todo, NEW undo,
             Running(old, before, m, c, parts, todo, undo), InstantiateFails \/ FactoryReplyFails
      PROVE  Inv' /\ Step /\ Committed' = Committed /\ tx'.failed
  <2>1. PICK f, b : f = FrameOf(c, todo, undo) /\ b = FrameOf(Self, <<m>>, old)
    OBVIOUS
  <2>2. tx = Tx(<<f, b>>, FALSE, before) /\ Sound(old) /\ addresses = before
    BY <1>4, <2>1 DEF Running
  <2>3. b.undo = old
    BY <2>1 DEF FrameOf
  <2>4. Committed = [addresses |-> before, contracts |-> old]
    BY <1>4, RunningTop
  <2>5. CASE InstantiateFails
    <3>1. tx' = Tx(<<f, b>>, TRUE, before)
      BY <2>2, <2>5 DEF InstantiateFails, Tx
    <3>2. Failing(old, before, <<f, b>>)'
      BY <1>1, <2>2, <2>3, <3>1 DEF Failing, Sound, Numbered, Formed, Tx
    <3> QED
      BY <1>2, <2>4, <3>2
  <2>6. CASE FactoryReplyFails
    <3>1. Tail(<<f, b>>) = <<b>>
      OBVIOUS
    <3>2. tx' = Tx(<<b>>, TRUE, before)
      BY <2>2, <2>6, <3>1 DEF FactoryReplyFails, Tx
    <3>3. Failing(old, before, <<b>>)'
      BY <1>1, <2>2, <2>3, <3>2 DEF Failing, Sound, Numbered, Formed, Tx
    <3> QED
      BY <1>2, <2>4, <3>3
  <2> QED
    BY <1>4, <2>5, <2>6
<1>5. ASSUME NEW old, NEW before, NEW m, NEW c, NEW parts, NEW todo, NEW undo, NEW d, NEW undo2,
             Nested(old, before, m, c, parts, todo, undo, d, undo2), FactoryReplyFails
      PROVE  FALSE
  <2>1. Caller = FrameOf(c, todo, undo)
    BY <1>5, NestedCaller
  <2>2. c # Self
    BY <1>5, NotSelf DEF Nested
  <2> QED
    BY <1>5, <2>1, <2>2 DEF FactoryReplyFails, FrameOf
<1>6. CASE InstantiateFails
  BY <1>3, <1>4, <1>6, TopWaiting DEF InstantiateFails
<1>7. CASE FactoryReplyFails
  BY <1>4, <1>5, <1>7, TopFinished DEF FactoryReplyFails
<1> QED
  BY <1>6, <1>7

\* The undoing is not seen by others.
LEMMA AbortStep ==
  ASSUME Inv, Abort
  PROVE  Inv' /\ Step /\ Committed' = Committed /\ (tx' = NoTx \/ tx'.failed)
<1>1. config \in F!Config /\ UNCHANGED <<addresses, config, factoryOwner>> /\ tx # NoTx /\ tx.failed
  BY DEF Inv, Abort
<1>2. PICK old, before, frames : Failing(old, before, frames)
  BY <1>1, StartingTop, RunningTop, NestedTop, EndingTop DEF Inv, Stages
<1>3. /\ tx = Tx(frames, TRUE, before) /\ Sound(old) /\ addresses = before
      /\ Committed = [addresses |-> before, contracts |-> old] /\ tx.frames = frames
  BY <1>2, FailingTop DEF Failing
<1>4. PICK b : /\ b.undo = old
               /\ frames = <<b>> \/ (\E f : frames = <<f, b>>) \/ (\E f, g : frames = <<g, f, b>>)
  BY <1>2 DEF Failing
<1>5. CASE frames = <<b>>
  <2>1. Top = b /\ Len(tx.frames) = 1
    BY <1>3, <1>5, CommittedOne
  <2>2. contracts' = old /\ tx' = NoTx
    BY <1>4, <2>1 DEF Abort
  <2>3. Inv'
    BY <1>1, <1>3, <2>2 DEF Inv, Stages, Sound, Numbered, Formed
  <2>4. Committed' = Committed
    BY <1>1, <1>3, <2>2 DEF Committed
  <2> QED
    BY <1>1, <2>2, <2>3, <2>4, Unseen
<1>6. ASSUME NEW rest, Len(tx.frames) # 1, Tail(frames) = rest,
             rest = <<b>> \/ (\E f : rest = <<f, b>>)
      PROVE  Inv' /\ Step /\ Committed' = Committed /\ (tx' = NoTx \/ tx'.failed)
  <2>1. tx' = [tx EXCEPT !.frames = Tail(@)]
    BY <1>6 DEF Abort
  <2>2. tx' = Tx(rest, TRUE, before)
    BY <1>3, <1>6, <2>1 DEF Tx
  <2>3. Failing(old, before, rest)'
    BY <1>1, <1>3, <1>4, <1>6, <2>2 DEF Failing, Sound, Numbered, Formed, Tx
  <2>4. Committed' = [addresses |-> before, contracts |-> old]
    BY <2>3, FailingSeen
  <2>5. Inv'
    BY <1>1, <2>3 DEF Inv, Stages
  <2>6. tx'.failed
    BY <2>2 DEF Tx
  <2> QED
    BY <1>1, <1>3, <2>4, <2>5, <2>6, Unseen
<1>7. ASSUME NEW f, frames = <<f, b>>
      PROVE  Inv' /\ Step /\ Committed' = Committed /\ (tx' = NoTx \/ tx'.failed)
  <2>1. Len(tx.frames) = 2 /\ Tail(tx.frames) = <<b>>
    BY <1>3, <1>7, CommittedTwo
  <2>2. PICK rest : rest = <<b>>
    OBVIOUS
  <2>3. tx.frames = frames
    BY <1>3
  <2>4. Len(tx.frames) # 1 /\ Tail(frames) = rest
    BY <2>1, <2>2, <2>3
  <2> QED
    BY <1>6, <2>2, <2>4
<1>8. ASSUME NEW f, NEW g, frames = <<g, f, b>>
      PROVE  Inv' /\ Step /\ Committed' = Committed /\ (tx' = NoTx \/ tx'.failed)
  <2>1. Len(tx.frames) = 3 /\ Tail(tx.frames) = <<f, b>>
    BY <1>3, <1>8, CommittedThree
  <2>2. PICK rest : rest = <<f, b>>
    OBVIOUS
  <2>3. tx.frames = frames
    BY <1>3
  <2>4. Len(tx.frames) # 1 /\ Tail(frames) = rest
    BY <2>1, <2>2, <2>3
  <2> QED
    BY <1>6, <2>2, <2>4
<1> QED
  BY <1>4, <1>5, <1>7, <1>8

\* With the end of the transaction others see all of the creation.
LEMMA Committing ==
  ASSUME NEW old, NEW before, NEW m, NEW c, NEW parts, Ending(old, before, m, c, parts), Commit
  PROVE  Step
<1>1. /\ Order(m) /\ m.symbol \notin DOMAIN before /\ addresses = Save(before, m.symbol, c)
      /\ Built(old, m, c, parts)
  BY DEF Ending
<1>2. PICK made : made = [d \in DOMAIN parts |-> parts[d]]
  OBVIOUS
<1>3. /\ DOMAIN made = DOMAIN parts /\ made \in [DOMAIN parts -> {"receipt", "list"}]
      /\ \A d \in DOMAIN parts : made[d] = parts[d]
  BY <1>1, <1>2 DEF Built
<1>4. Committed = [addresses |-> before, contracts |-> old]
  BY EndingTop
<1>5. Committed' = [addresses |-> addresses, contracts |-> contracts]
  BY DEF Commit, Committed
<1>6. UNCHANGED <<config, factoryOwner, contracts, addresses>>
  BY DEF Commit
<1>7. /\ c \in Contracts \ DOMAIN old
      /\ DOMAIN made \subseteq Contracts \ (DOMAIN old \cup {c})
      /\ DOMAIN contracts = DOMAIN old \cup {c} \cup DOMAIN made
      /\ \A d \in DOMAIN old : Summary(contracts)[d] = Summary(old)[d]
      /\ Summary(contracts)[c] = [owner |-> m.minter, symbol |-> m.symbol, code |-> config.token]
      /\ \A d \in DOMAIN made :
           Summary(contracts)[d] = [owner |-> c, symbol |-> Unset, code |-> config[made[d]]]
  BY <1>1, <1>3 DEF Built
<1>8. DOMAIN Summary(old) = DOMAIN old
  BY DEF Summary
<1>9. Summary(contracts) =
        [d \in DOMAIN Summary(old) \cup {c} \cup DOMAIN made |->
           IF d \in DOMAIN Summary(old) THEN Summary(old)[d]
           ELSE IF d = c THEN [owner |-> m.minter, symbol |-> m.symbol, code |-> config.token]
           ELSE [owner |-> c, symbol |-> Unset, code |-> config[made[d]]]]
  <2>1. Summary(contracts) = [d \in DOMAIN contracts |-> Summary(contracts)[d]]
    BY DEF Summary
  <2> HIDE DEF Summary
  <2> QED
    BY <1>7, <1>8, <2>1
<1>10. F!Create(m.minter, m.symbol, made, c)
  <2>1. PICK x, y, sy, u : /\ x = Summary(old) /\ y = Summary(contracts)
                          /\ sy = m.symbol /\ u = m.minter
    OBVIOUS
  <2>2. Summary(Committed.contracts) = x /\ Summary(Committed.contracts)' = y
    BY <1>4, <1>5, <1>6, <2>1 DEF Summary
  <2>3. Committed.addresses = before /\ Committed.addresses' = Save(before, sy, c)
    BY <1>1, <1>4, <1>5, <1>6, <2>1
  <2>4. DOMAIN x = DOMAIN old
    BY <1>8, <2>1
  <2>5. y = [d \in DOMAIN x \cup {c} \cup DOMAIN made |->
               IF d \in DOMAIN x THEN x[d]
               ELSE IF d = c THEN [owner |-> u, symbol |-> sy, code |-> config.token]
               ELSE [owner |-> c, symbol |-> Unset, code |-> config[made[d]]]]
    BY <1>9, <2>1
  <2>6. /\ sy \notin DOMAIN before /\ c \in Contracts \ DOMAIN x
        /\ DOMAIN made \subseteq Contracts \ (DOMAIN x \cup {c})
        /\ UNCHANGED <<config, factoryOwner>>
    BY <1>1, <1>6, <1>7, <2>1, <2>4
  <2>7. F!Create(u, sy, made, c)
    <3>1. Committed.addresses' = F!Save(Committed.addresses, sy, c)
      BY <2>3 DEF Save, F!Save
    <3> QED
      BY <2>2, <2>3, <2>5, <2>6, <3>1 DEF F!Create, F!IsAddressDefined
  <2> QED
    BY <2>1, <2>7
<1>11. m.minter \in Users /\ m.symbol \in Symbols /\ c \in Contracts /\ DOMAIN made \in SUBSET Contracts
       /\ made \in [DOMAIN made -> {"receipt", "list"}]
  BY <1>1, <1>3, <1>7 DEF Order
<1>12. F!FactoryMessage(m.minter)
  BY <1>10, <1>11 DEF F!FactoryMessage
<1> QED
  BY <1>11, <1>12 DEF Step, F!Next

LEMMA CommitStep ==
  ASSUME Inv, Commit
  PROVE  Inv' /\ Step
<1>1. tx # NoTx /\ ~tx.failed /\ Top.todo = <<>> /\ Len(tx.frames) = 1 /\ tx' = NoTx
      /\ UNCHANGED <<addresses, config, factoryOwner, contracts>>
  BY DEF Commit
<1>2. ASSUME NEW old, NEW before, NEW m, Starting(old, before, m)
      PROVE  FALSE
  <2>1. Top.todo = <<m>>
    BY <1>2, StartingTop
  <2> QED
    BY <1>1, <2>1
<1>3. PICK old, before, m, c, parts : Ending(old, before, m, c, parts)
  BY <1>1, <1>2, RunningTop, NestedTop, FailingTop DEF Inv, Stages
<1>4. Inv'
  BY <1>1, <1>3 DEF Inv, Stages, Ending, Sound, Numbered, Formed
<1> QED
  BY <1>3, <1>4, Committing

----------------------------------------------------------------------------
\* Between transactions others see all there is.
LEMMA AllSeen == (tx = NoTx => Committed = [addresses |-> addresses, contracts |-> contracts])
                 /\ (tx' = NoTx => Committed' = [addresses |-> addresses', contracts |-> contracts'])
BY DEF Committed

\* The other messages to the factory are those of Factory.
LEMMA MessageStep ==
  ASSUME Inv, tx = NoTx, UNCHANGED <<contracts, tx>>, NEW u \in Users,
         \/ \E s \in Symbols, a \in Strings : Now!UpdateAddress(u, s, a)
         \/ \E kinds \in SUBSET {"token", "receipt", "list"}, new \in Configurations :
              Now!UpdateCodeId(u, kinds, new)
         \/ \E new \in Users : Now!UpdateOwner(u, new)
  PROVE  Inv' /\ Step
<1>1. Sound(contracts) /\ config \in F!Config
  BY Idle DEF Inv
<1>2. PICK x : x = Summary(contracts)
  OBVIOUS
<1>3. /\ Committed.addresses = addresses /\ Committed.addresses' = addresses'
      /\ Summary(Committed.contracts) = x /\ Summary(Committed.contracts)' = x
  BY <1>2, AllSeen DEF Summary
<1>4. Summary(contracts) = x /\ Summary(contracts)' = x
  BY <1>2 DEF Summary
<1>5. Sound(contracts')
  BY <1>1
<1>6. ASSUME config' \in F!Config
      PROVE  Inv'
  BY <1>5, <1>6 DEF Inv, Stages, Sound, Numbered, Formed
<1>7. ASSUME NEW s \in Symbols, NEW a \in Strings, Now!UpdateAddress(u, s, a)
      PROVE  Inv' /\ Step
  <2>1. F!UpdateAddress(u, s, a)
    <3>1. /\ s \in DOMAIN addresses /\ addresses[s] \in DOMAIN x /\ u \in {x[addresses[s]].owner, factoryOwner}
          /\ addresses' = Save(addresses, s, a) /\ UNCHANGED <<config, factoryOwner>>
      BY <1>4, <1>7 DEF Now!UpdateAddress, Now!MayRepoint, Now!KnowsOwner, Now!IsAddressDefined,
                        Now!Save, Save
    <3>2. Committed.addresses' = F!Save(Committed.addresses, s, a)
      BY <1>3, <3>1 DEF Save, F!Save
    <3> QED
      BY <1>3, <3>1, <3>2 DEF F!UpdateAddress, F!MayRepoint, F!KnowsOwner, F!IsAddressDefined
  <2>2. config' \in F!Config
    BY <1>1, <1>7 DEF Now!UpdateAddress
  <2> QED
    BY <1>6, <2>1, <2>2 DEF Step, F!Next, F!FactoryMessage
<1>8. ASSUME NEW kinds \in SUBSET {"token", "receipt", "list"}, NEW new \in Configurations,
             Now!UpdateCodeId(u, kinds, new)
      PROVE  Inv' /\ Step
  <2>1. new \in F!Config
    BY CreationAssumption DEF F!Config
  <2>2. /\ kinds # {} /\ u = factoryOwner /\ UNCHANGED <<addresses, factoryOwner>>
        /\ config' = [k \in DOMAIN config |-> IF k \in kinds THEN new[k] ELSE config[k]]
    BY <1>8 DEF Now!UpdateCodeId
  <2>3. F!UpdateCodeId(u, kinds, new)
    BY <1>3, <2>2 DEF F!UpdateCodeId
  <2>4. config' \in F!Config
    BY <1>1, <2>1, <2>2 DEF F!Config
  <2> QED
    BY <1>6, <2>1, <2>3, <2>4 DEF Step, F!Next, F!FactoryMessage
<1>9. ASSUME NEW new \in Users, Now!UpdateOwner(u, new)
      PROVE  Inv' /\ Step
  <2>1. F!UpdateOwner(u, new) /\ config' \in F!Config
    BY <1>1, <1>3, <1>9 DEF Now!UpdateOwner, F!UpdateOwner
  <2> QED
    BY <1>6, <2>1 DEF Step, F!Next, F!FactoryMessage
<1> QED
  BY <1>7, <1>8, <1>9

\* A contract's owner gives it away.
LEMMA GiveAwayStep ==
  ASSUME Inv, NEW c \in DOMAIN contracts, NEW u \in Users, NEW new \in Users,
         ContractOwnerChanges(c, u, new)
  PROVE  Inv' /\ Step
<1>1. /\ tx = NoTx /\ tx' = NoTx /\ u = contracts[c].owner /\ contracts' = [contracts EXCEPT ![c].owner = new]
      /\ UNCHANGED <<addresses, config, factoryOwner>> /\ Sound(contracts) /\ config \in F!Config
  BY Idle DEF ContractOwnerChanges, Inv
<1>2. PICK r : r = [contracts[c] EXCEPT !.owner = new]
  OBVIOUS
<1>3. {"kind", "code", "owner", "symbol", "modules", "list", "receipt"} \subseteq DOMAIN contracts[c]
  BY <1>1 DEF Sound, Formed
<1>4. /\ DOMAIN r = DOMAIN contracts[c] /\ r.owner = new
      /\ r.symbol = contracts[c].symbol /\ r.code = contracts[c].code
  BY <1>2, <1>3
<1>5. contracts' = [contracts EXCEPT ![c] = r]
  BY <1>1, <1>2
<1>6. Sound(contracts')
  BY <1>1, <1>3, <1>4, <1>5 DEF Sound, Numbered, Formed
<1>7. Inv'
  BY <1>1, <1>6 DEF Inv, Stages, Sound, Numbered, Formed
<1>8. PICK x, y : x = Summary(contracts) /\ y = Summary(contracts')
  OBVIOUS
<1>9. /\ Committed.addresses = addresses /\ Committed.addresses' = addresses
      /\ Summary(Committed.contracts) = x /\ Summary(Committed.contracts)' = y
  <2>1. tx = NoTx /\ tx' = NoTx /\ addresses' = addresses
    BY <1>1
  <2> QED
    BY <1>8, <2>1, AllSeen DEF Summary
<1>10. c \in DOMAIN x /\ x[c].owner = u /\ y = [x EXCEPT ![c].owner = new]
  <2>1. /\ DOMAIN x = DOMAIN contracts /\ DOMAIN y = DOMAIN contracts
        /\ \A d \in DOMAIN contracts :
             x[d] = [owner |-> contracts[d].owner, symbol |-> contracts[d].symbol, code |-> contracts[d].code]
        /\ \A d \in DOMAIN contracts : d # c => y[d] = x[d]
        /\ y[c] = [owner |-> new, symbol |-> contracts[c].symbol, code |-> contracts[c].code]
    BY <1>4, <1>5, <1>8 DEF Summary
  <2>2. x[c] = [owner |-> u, symbol |-> contracts[c].symbol, code |-> contracts[c].code]
    BY <1>1, <2>1
  <2>3. y[c] = [x[c] EXCEPT !.owner = new]
    BY <2>1, <2>2
  <2>4. x = [d \in DOMAIN contracts |-> x[d]] /\ y = [d \in DOMAIN contracts |-> y[d]]
    BY <1>5, <1>8 DEF Summary
  <2> QED
    BY <2>1, <2>2, <2>3, <2>4
<1>11. c \in Contracts
  BY <1>1, Numbering DEF Sound
<1>12. F!ContractOwnerChanges(c, new)
  BY <1>1, <1>9, <1>10 DEF F!ContractOwnerChanges
<1> QED
  BY <1>7, <1>11, <1>12 DEF Step, F!Next, F!Elsewhere

\* A contract is instantiated by a user.
LEMMA DeployStep ==
  ASSUME Inv, NEW u \in Users, NEW kind, NEW sym \in Symbols, DeployElsewhere(u, kind, sym)
  PROVE  Inv' /\ Step
<1>1. PICK r : r = [kind |-> kind, code |-> Unset, owner |-> u,
                    symbol |-> IF kind = "token" THEN sym ELSE Unset,
                    modules |-> <<>>, list |-> Unset, receipt |-> Unset]
  OBVIOUS
<1>2. /\ tx = NoTx /\ tx' = NoTx /\ NextAddress \in Contracts /\ contracts' = Save(contracts, NextAddress, r)
      /\ UNCHANGED <<addresses, config, factoryOwner>> /\ Sound(contracts) /\ config \in F!Config
  BY <1>1, Idle DEF DeployElsewhere, Inv
<1>3. /\ {"kind", "code", "owner", "symbol", "modules", "list", "receipt"} \subseteq DOMAIN r
      /\ r.owner = u /\ r.symbol \in Symbols \cup {Unset} /\ r.code = Unset
  BY <1>1
<1>4. NextAddress <= MaxContracts
  BY <1>2 DEF Contracts
<1>5. Sound(contracts') /\ NextAddress \notin DOMAIN contracts
  BY <1>2, <1>3, <1>4, AddContract, Numbering DEF Sound
<1>6. Inv'
  BY <1>2, <1>5 DEF Inv, Stages, Sound, Numbered, Formed
<1>7. PICK n, x, y, sy : /\ n = NextAddress /\ x = Summary(contracts) /\ y = Summary(contracts')
                         /\ sy = r.symbol
  OBVIOUS
<1>8. /\ Committed.addresses = addresses /\ Committed.addresses' = addresses
      /\ Summary(Committed.contracts) = x /\ Summary(Committed.contracts)' = y
  BY <1>2, <1>7, AllSeen DEF Summary
<1>9. /\ DOMAIN x = DOMAIN contracts
      /\ y = Save(x, n, [owner |-> u, symbol |-> sy, code |-> Unset])
  <2>1. DOMAIN x = DOMAIN contracts /\ DOMAIN contracts' = DOMAIN contracts \cup {n}
        /\ contracts'[n] = r /\ \A d \in DOMAIN contracts : contracts'[d] = contracts[d]
    BY <1>2, <1>5, <1>7 DEF Summary, Save
  <2>2. /\ DOMAIN y = DOMAIN contracts \cup {n}
        /\ y[n] = [owner |-> u, symbol |-> sy, code |-> Unset]
        /\ \A d \in DOMAIN contracts : y[d] = x[d]
    BY <1>3, <1>7, <2>1 DEF Summary
  <2>3. y = [d \in DOMAIN contracts \cup {n} |-> y[d]]
    BY <1>7, <2>1 DEF Summary
  <2> QED
    BY <1>5, <1>7, <2>1, <2>2, <2>3 DEF Save
<1>10. F!DeployElsewhere(u, sy, n)
  <2>1. y = F!Save(x, n, [owner |-> u, symbol |-> sy, code |-> Unset])
    BY <1>9 DEF Save, F!Save
  <2>2. n \in Contracts \ DOMAIN x
    BY <1>2, <1>5, <1>7, <1>9
  <2> QED
    BY <1>2, <1>8, <2>1, <2>2 DEF F!DeployElsewhere
<1>11. n \in Contracts /\ sy \in Symbols \cup {Unset}
  BY <1>2, <1>3, <1>7
<1> QED
  BY <1>6, <1>10, <1>11 DEF Step, F!Next, F!Elsewhere

----------------------------------------------------------------------------
LEMMA InitStages == Init => Inv /\ F!Init
<1> SUFFICES ASSUME Init
             PROVE  Inv /\ F!Init
  OBVIOUS
<1>1. tx = NoTx /\ addresses = EmptyMap /\ contracts = EmptyMap /\ factoryOwner \in Users
      /\ config \in F!Config
  BY CreationAssumption DEF Init, F!Config
<1>2. Sound(contracts)
  <2>1. DOMAIN contracts = 1..0
    BY <1>1 DEF EmptyMap
  <2> QED
    BY <2>1, CreationAssumption DEF Sound, Numbered, Formed
<1>3. Committed.addresses = EmptyMap /\ Committed.contracts = EmptyMap
  BY <1>1, AllSeen
<1>4. Summary(Committed.contracts) = F!EmptyMap /\ Committed.addresses = F!EmptyMap
  BY <1>3 DEF Summary, EmptyMap, F!EmptyMap
<1> QED
  BY <1>1, <1>2, <1>4 DEF Inv, Stages, F!Init

LEMMA EveryStep == Inv /\ [Next]_creationVars => Inv' /\ Step
<1> SUFFICES ASSUME Inv, [Next]_creationVars
             PROVE  Inv' /\ Step
  OBVIOUS
<1>1. ASSUME NEW u \in Users, NEW s \in Symbols, NEW ms \in ModuleLists, Create(u, s, ms)
      PROVE  Inv' /\ Step
  BY <1>1, CreateStep
<1>2. ASSUME NEW u \in Users,
             \/ \E s \in Symbols, a \in Strings : UpdateAddress(u, s, a)
             \/ \E kinds \in SUBSET {"token", "receipt", "list"}, new \in Configurations :
                  UpdateCodeId(u, kinds, new)
             \/ \E new \in Users : UpdateOwner(u, new)
      PROVE  Inv' /\ Step
  BY <1>2, MessageStep DEF UpdateAddress, UpdateCodeId, UpdateOwner
<1>3. ASSUME NEW u \in Users, NEW new \in Users, NEW c \in DOMAIN contracts,
             ContractOwnerChanges(c, u, new)
      PROVE  Inv' /\ Step
  BY <1>3, GiveAwayStep
<1>4. ASSUME NEW u \in Users, NEW kind, NEW s \in Symbols, DeployElsewhere(u, kind, s)
      PROVE  Inv' /\ Step
  BY <1>4, DeployStep
<1>5. CASE Deliver
  BY <1>5, InstantiateStep, ReplyStep, FailStep, AbortStep, CommitStep DEF Deliver
<1>6. CASE UNCHANGED creationVars
  <2>1. UNCHANGED <<addresses, config, factoryOwner, contracts, tx>>
    BY <1>6 DEF creationVars
  <2>2. Committed' = Committed
    BY <2>1 DEF Committed
  <2>3. PartMessage' = PartMessage /\ NextAddress' = NextAddress /\ Sound(contracts') = Sound(contracts)
    BY <2>1 DEF PartMessage, NextAddress
  <2>4. /\ \A m : Order(m) => Order(m)'
        /\ \A old, m, c, parts : Built(old, m, c, parts) => Built(old, m, c, parts)'
        /\ \A cs : Sound(cs) => Sound(cs)'
    BY <2>1 DEF Order, Built, Sound, Numbered, Formed
  <2>5. \A old, before, m : Starting(old, before, m) => Starting(old, before, m)'
    BY <2>1, <2>3, <2>4 DEF Starting, FrameOf, Tx
  <2>6. ASSUME NEW old, NEW before, NEW m, NEW c, NEW parts, NEW todo, NEW undo
        PROVE  Running(old, before, m, c, parts, todo, undo) => Running(old, before, m, c, parts, todo, undo)'
    BY <2>1, <2>3, <2>4 DEF Running
  <2>7. /\ \A old, before, m, c, parts, todo, undo, d, undo2 :
             Nested(old, before, m, c, parts, todo, undo, d, undo2) =>
               Nested(old, before, m, c, parts, todo, undo, d, undo2)'
        /\ \A old, before, m, c, parts : Ending(old, before, m, c, parts) => Ending(old, before, m, c, parts)'
    <3>1. ASSUME NEW old, NEW before, NEW m, NEW c, NEW parts, NEW todo, NEW undo, NEW d, NEW undo2
          PROVE  Nested(old, before, m, c, parts, todo, undo, d, undo2) =>
                   Nested(old, before, m, c, parts, todo, undo, d, undo2)'
      BY <2>1, <2>3, <2>4 DEF Nested, FrameOf, Tx
    <3>2. ASSUME NEW old, NEW before, NEW m, NEW c, NEW parts
          PROVE  Ending(old, before, m, c, parts) => Ending(old, before, m, c, parts)'
      BY <2>1, <2>3, <2>4 DEF Ending, FrameOf, Tx
    <3> QED
      BY <3>1, <3>2
  <2>8. \A old, before, frames : Failing(old, before, frames) => Failing(old, before, frames)'
    BY <2>1 DEF Failing, Sound, Numbered, Formed, Tx
  <2>9. Inv'
    <3>1. config' \in F!Config
      BY <2>1 DEF Inv
    <3>2. CASE tx = NoTx /\ Sound(contracts)
      BY <2>1, <3>1, <3>2 DEF Inv, Stages, Sound, Numbered, Formed
    <3>3. CASE ~(tx = NoTx /\ Sound(contracts))
      BY <2>5, <2>6, <2>7, <2>8, <3>1, <3>3 DEF Inv, Stages
    <3> QED
      BY <3>2, <3>3
  <2> QED
    BY <2>1, <2>2, <2>9, Unseen
<1> QED
  BY <1>1, <1>2, <1>3, <1>4, <1>5, <1>6 DEF Next, Message

\* Every creation is atomic, for every factory: its messages, replies and undoings are seen
\* by others as one step of Factory or as none (create, the reply handlers).
THEOREM CreationImplementsFactory == Spec => ImplementsFactory
<1>1. Init => Inv /\ F!Init
  BY InitStages
<1>2. Inv /\ [Next]_creationVars => Inv' /\ [F!Next]_(F!factoryVars)
  BY EveryStep DEF Step
<1> QED
  BY <1>1, <1>2, PTL DEF Spec, ImplementsFactory, F!Spec

\* An entry that a creation makes names a token contract of that symbol, for every set
\* of code ids, whichever of the three kinds of contract they name: the reply asks the
\* new contract.
THEOREM EntriesAreTokens == Spec => NewEntriesAreTokens
<1> DEFINE Good == \A s \in DOMAIN addresses' \ DOMAIN addresses :
                     addresses'[s] \in DOMAIN contracts' /\ contracts'[addresses'[s]].kind = "token"
                       /\ contracts'[addresses'[s]].symbol = s
<1>1. ASSUME Inv, FactoryReply
      PROVE  Good
  <2>1. ASSUME NEW old, NEW before, NEW m, NEW c, NEW parts, NEW undo,
               Running(old, before, m, c, parts, <<>>, undo)
        PROVE  Good
    <3>1. /\ contracts' = contracts /\ c \in DOMAIN contracts /\ contracts[c].kind = "token"
          /\ contracts[c].symbol = m.symbol
      BY <1>1, <2>1, TokenAnswered DEF Inv
    <3>2. addresses' = Save(addresses, m.symbol, c)
      <4>1. Ending(old, before, m, c, parts)'
        BY <1>1, <2>1, TokenAnswered DEF Inv
      <4> QED
        BY <2>1, <4>1 DEF Ending, Running
    <3> QED
      BY <3>1, <3>2 DEF Save
  <2>2. ASSUME NEW old, NEW before, NEW m, NEW c, NEW parts, NEW todo, NEW undo, NEW d, NEW undo2,
               Nested(old, before, m, c, parts, todo, undo, d, undo2)
        PROVE  FALSE
    <3>1. Caller = FrameOf(c, todo, undo) /\ c # Self
      BY <2>2, NestedCaller, NotSelf DEF Nested
    <3> QED
      BY <1>1, <3>1 DEF FactoryReply, FrameOf
  <2> QED
    BY <1>1, <2>1, <2>2, TopFinished DEF FactoryReply
<1>2. ASSUME NEW u \in Users, NEW s \in Symbols, NEW a \in Strings, UpdateAddress(u, s, a)
      PROVE  Good
  BY <1>2 DEF UpdateAddress, Now!UpdateAddress, Now!MayRepoint, Now!KnowsOwner, Now!IsAddressDefined,
              Now!Save
<1>3. [Next]_creationVars => (\E u \in Users, s \in Symbols, a \in Strings : UpdateAddress(u, s, a))
                             \/ FactoryReply \/ UNCHANGED addresses
  BY DEF creationVars, Next, Message, Deliver, Create, UpdateCodeId, Now!UpdateCodeId, UpdateOwner,
         Now!UpdateOwner, ContractOwnerChanges, DeployElsewhere, Instantiate, InstantiateFails,
         TokenReply, FactoryReplyFails, Abort, Commit
<1>4. Inv /\ [Next]_creationVars => [Good]_creationVars
  BY <1>1, <1>2, <1>3
<1>5. Init => Inv
  BY InitStages
<1>6. Inv /\ [Next]_creationVars => Inv'
  BY EveryStep
<1> QED
  BY <1>4, <1>5, <1>6, PTL DEF Spec, NewEntriesAreTokens

----------------------------------------------------------------------------
(***************************************************************************)
(* What is proved of Factory holds of creations carried out message by     *)
(* message.                                                                *)
(***************************************************************************)
FP == INSTANCE FactoryProofs WITH
  addresses <- Committed.addresses, deployed <- Summary(Committed.contracts)

LEMMA Inherits == Spec => FP!Spec
<1>1. Spec => F!Spec
  BY CreationImplementsFactory DEF ImplementsFactory
<1>2. F!Init => FP!Init
  BY DEF F!Init, FP!Init, F!EmptyMap, FP!EmptyMap, F!Config, FP!Config
<1>3. F!Next = FP!Next
  BY DEF F!Next, FP!Next, F!Elsewhere, FP!Elsewhere, F!FactoryMessage, FP!FactoryMessage,
         F!Create, FP!Create, F!UpdateAddress, FP!UpdateAddress, F!UpdateCodeId, FP!UpdateCodeId,
         F!UpdateOwner, FP!UpdateOwner, F!ContractOwnerChanges, FP!ContractOwnerChanges,
         F!DeployElsewhere, FP!DeployElsewhere, F!MayRepoint, FP!MayRepoint, F!KnowsOwner, FP!KnowsOwner,
         F!IsAddressDefined, FP!IsAddressDefined, F!Save, FP!Save, F!Config, FP!Config
<1>4. [F!Next]_(F!factoryVars) => [FP!Next]_(FP!factoryVars)
  BY <1>3 DEF F!factoryVars, FP!factoryVars
<1> QED
  BY <1>1, <1>2, <1>4, PTL DEF F!Spec, FP!Spec

\* What others see of the factory and its contracts is well formed at all times.
THEOREM TypeCorrect == Spec => []TypeOK
<1>1. FP!Spec => []FP!TypeOK
  BY FP!TypeCorrect
<1>2. FP!TypeOK => TypeOK
  BY DEF TypeOK, F!TypeOK, FP!TypeOK, F!Config, FP!Config, F!Deployment, FP!Deployment
<1> QED
  BY <1>1, <1>2, Inherits, PTL

\* A symbol belongs to its first token for good, although the check in create and the
\* storing in the reply are steps apart.
THEOREM SymbolsAreKept == Spec => CreationTakesNoSymbol
<1> DEFINE Kept == \A s \in DOMAIN Committed.addresses :
                     /\ s \in DOMAIN Committed.addresses'
                     /\ DOMAIN Summary(Committed.contracts)' # DOMAIN Summary(Committed.contracts) =>
                          Committed.addresses'[s] = Committed.addresses[s]
<1>1. FP!Spec => FP!CreationTakesNoSymbol
  BY FP!SymbolsAreKept
<1>2. [Kept]_(FP!factoryVars) => [Kept]_(F!factoryVars)
  BY DEF F!factoryVars, FP!factoryVars
<1> QED
  BY <1>1, <1>2, Inherits, PTL DEF FP!CreationTakesNoSymbol, CreationTakesNoSymbol, F!CreationTakesNoSymbol

\* A symbol that points where no contract answers is stuck: is_creator fails before
\* is_contract_owner is asked.
THEOREM DeadEndsAreFinal == Spec => DeadEndsStay
<1> DEFINE Stay == \A s \in DOMAIN Committed.addresses :
                     Committed.addresses[s] \notin DOMAIN Summary(Committed.contracts) =>
                       s \in DOMAIN Committed.addresses' /\ Committed.addresses'[s] = Committed.addresses[s]
<1>1. FP!Spec => FP!DeadEndsStay
  BY FP!DeadEndsAreFinal
<1>2. [Stay]_(FP!factoryVars) => [Stay]_(F!factoryVars)
  BY DEF F!factoryVars, FP!factoryVars
<1> QED
  BY <1>1, <1>2, Inherits, PTL DEF FP!DeadEndsStay, DeadEndsStay, F!DeadEndsStay

----------------------------------------------------------------------------
(***************************************************************************)
(* The contracts of modules.  While token contract "c" waits for its       *)
(* modules, those of the others are settled; each of its own either has    *)
(* its contract or a message still to come.                                *)
(***************************************************************************)
Others(cs, c) == \A e \in DOMAIN cs \ {c} : OwnModulesOf(cs, e)

Unaddressed(modules) == {i \in DOMAIN modules : modules[i].address = Unset}

Progress(cs, c, todo) ==
  /\ c \in DOMAIN cs
  /\ ValidModules(cs[c].modules)
  /\ {cs[c].list, cs[c].receipt} \subseteq DOMAIN cs \cup {Unset}
  /\ cs[c].list = cs[c].receipt => cs[c].list = Unset
  /\ \A i \in Unaddressed(cs[c].modules) :
       \/ MadeFor(cs, c, cs[c].modules[i], ContractOf(cs[c], cs[c].modules[i]))
       \/ \E k \in DOMAIN todo : todo[k] = ModuleInstantiation(cs[c].modules[i])
  /\ \A k \in DOMAIN todo : \E i \in Unaddressed(cs[c].modules) :
       todo[k] = ModuleInstantiation(cs[c].modules[i])

\* Contract "d" is what the first message has asked for, and not yet known to "c".
Made(cs, c, todo, d) ==
  /\ d \in DOMAIN cs \ {c, cs[c].list, cs[c].receipt}
  /\ cs[d].owner = c /\ cs[d].code = Head(todo).code
  /\ Head(todo).asked = "list" => cs[d].kind = "list"

UnderWay ==
  tx # NoTx /\ ~tx.failed =>
    /\ Len(tx.frames) = 1 /\ Top.todo = <<>> => OwnModules(contracts)
    /\ Len(tx.frames) = 2 /\ contracts[Top.who].kind = "token" =>
         Others(contracts, Top.who) /\ Progress(contracts, Top.who, Top.todo)
    /\ Len(tx.frames) = 3 =>
         /\ Others(contracts, Caller.who) /\ Progress(contracts, Caller.who, Caller.todo)
         /\ Made(contracts, Caller.who, Caller.todo, Top.who)

ModulesInv == OwnModules(Committed.contracts) /\ UnderWay

\* Of valid modules there are two at most, and the messages are for those without address.
LEMMA MessagesForModules ==
  ASSUME NEW modules \in Seq(ModuleDefinition), ValidModules(modules)
  PROVE  /\ \A i \in Unaddressed(modules) :
              \E k \in DOMAIN ModuleInstantiations(modules) :
                ModuleInstantiations(modules)[k] = ModuleInstantiation(modules[i])
         /\ \A k \in DOMAIN ModuleInstantiations(modules) : \E i \in Unaddressed(modules) :
              ModuleInstantiations(modules)[k] = ModuleInstantiation(modules[i])
<1> DEFINE first == IF Len(modules) >= 1 THEN OnInstantiate(modules[1]) ELSE <<>>
           second == IF Len(modules) >= 2 THEN OnInstantiate(modules[2]) ELSE <<>>
           all == ModuleInstantiations(modules)
           M(i) == ModuleInstantiation(modules[i])
<1>1. DOMAIN modules = 1..Len(modules) /\ Len(modules) \in Nat
  OBVIOUS
<1>2. Len(modules) <= 2
  <2>1. ASSUME NEW i \in DOMAIN modules, NEW j \in DOMAIN modules, IsList(modules[i]) = IsList(modules[j])
        PROVE  i = j
    BY <2>1 DEF ValidModules
  <2>2. ASSUME Len(modules) >= 3
        PROVE  FALSE
    <3>1. /\ 1 \in DOMAIN modules /\ 2 \in DOMAIN modules /\ 3 \in DOMAIN modules
      BY <1>1, <2>2
    <3>2. \A i \in DOMAIN modules : IsList(modules[i]) \in BOOLEAN
      BY DEF IsList
    <3>3. IsList(modules[1]) # IsList(modules[2]) /\ IsList(modules[1]) # IsList(modules[3])
          /\ IsList(modules[2]) # IsList(modules[3])
      BY <2>1, <3>1
    <3> QED
      BY <3>1, <3>2, <3>3
  <2> QED
    BY <1>1, <2>2
<1>3. all = first \o second
  BY DEF ModuleInstantiations
<1>4. ASSUME NEW i \in 1..2
      PROVE  LET s == IF Len(modules) >= i THEN OnInstantiate(modules[i]) ELSE <<>>
             IN  s = IF i \in Unaddressed(modules) THEN <<M(i)>> ELSE <<>>
  BY <1>1 DEF OnInstantiate, Unaddressed
<1>5. first = (IF 1 \in Unaddressed(modules) THEN <<M(1)>> ELSE <<>>)
  BY <1>4
<1>6. second = (IF 2 \in Unaddressed(modules) THEN <<M(2)>> ELSE <<>>)
  BY <1>4
<1>7. Unaddressed(modules) \subseteq 1..2
  BY <1>1, <1>2 DEF Unaddressed
<1> HIDE DEF first, second, all, M
<1>8. CASE 1 \in Unaddressed(modules) /\ 2 \in Unaddressed(modules)
  <2>1. all = <<M(1), M(2)>>
    BY <1>3, <1>5, <1>6, <1>8, OnePair
  <2>2. DOMAIN all = 1..2 /\ all[1] = M(1) /\ all[2] = M(2)
    BY <2>1
  <2> QED
    BY <1>7, <1>8, <2>2 DEF all, M
<1>9. CASE 1 \in Unaddressed(modules) /\ 2 \notin Unaddressed(modules)
  <2>1. all = <<M(1)>>
    BY <1>3, <1>5, <1>6, <1>9
  <2>2. DOMAIN all = {1} /\ all[1] = M(1)
    BY <2>1
  <2> QED
    BY <1>7, <1>9, <2>2 DEF all, M
<1>10. CASE 1 \notin Unaddressed(modules) /\ 2 \in Unaddressed(modules)
  <2>1. all = <<M(2)>>
    BY <1>3, <1>5, <1>6, <1>10
  <2>2. DOMAIN all = {1} /\ all[1] = M(2)
    BY <2>1
  <2> QED
    BY <1>7, <1>10, <2>2 DEF all, M
<1>11. CASE 1 \notin Unaddressed(modules) /\ 2 \notin Unaddressed(modules)
  <2>1. all = <<>>
    BY <1>3, <1>5, <1>6, <1>11
  <2>2. DOMAIN all = {}
    BY <2>1
  <2> QED
    BY <1>7, <1>11, <2>2 DEF all, M
<1> QED
  BY <1>8, <1>9, <1>10, <1>11

\* What a step must keep for the modules of "c" to stay settled.
Keeps(cs, ds, c) ==
  /\ ds[c].modules = cs[c].modules /\ ds[c].list = cs[c].list /\ ds[c].receipt = cs[c].receipt
  /\ \A e \in DOMAIN cs : /\ e \in DOMAIN ds /\ ds[e].code = cs[e].code /\ ds[e].kind = cs[e].kind
                          /\ cs[e].owner = c => ds[e].owner = c

LEMMA SettledStay ==
  ASSUME NEW cs, NEW ds, NEW c, Keeps(cs, ds, c)
  PROVE  /\ \A m, e : MadeFor(cs, c, m, e) => MadeFor(ds, c, m, e)
         /\ OwnModulesOf(cs, c) => OwnModulesOf(ds, c)
<1>1. \A m, e : MadeFor(cs, c, m, e) => MadeFor(ds, c, m, e)
  BY DEF Keeps, MadeFor
<1>2. \A m : ContractOf(ds[c], m) = ContractOf(cs[c], m)
  BY DEF Keeps, ContractOf
<1> QED
  BY <1>1, <1>2 DEF Keeps, OwnModulesOf

\* A new contract changes nothing for those there are.
LEMMA OneMore ==
  ASSUME NEW cs, NEW d, d \notin DOMAIN cs, NEW r, NEW ds, ds = Save(cs, d, r), NEW c \in DOMAIN cs
  PROVE  /\ ds[c] = cs[c] /\ ds[d] = r /\ DOMAIN ds = DOMAIN cs \cup {d}
         /\ \A m, e : MadeFor(cs, c, m, e) => MadeFor(ds, c, m, e)
         /\ OwnModulesOf(cs, c) => OwnModulesOf(ds, c)
<1>1. ds[d] = r /\ DOMAIN ds = DOMAIN cs \cup {d} /\ \A e \in DOMAIN cs : ds[e] = cs[e]
  BY DEF Save
<1>2. Keeps(cs, ds, c)
  BY <1>1 DEF Keeps
<1> QED
  BY <1>1, <1>2, SettledStay

LEMMA TokenBegins ==
  ASSUME NEW cs, OwnModules(cs), NEW c, c \notin DOMAIN cs, NEW r, NEW ds, ds = Save(cs, c, r),
         r.modules \in Seq(ModuleDefinition), ValidModules(r.modules), r.list = Unset, r.receipt = Unset
  PROVE  Others(ds, c) /\ Progress(ds, c, ModuleInstantiations(r.modules))
<1>1. ds[c] = r /\ DOMAIN ds = DOMAIN cs \cup {c}
  BY DEF Save
<1>2. Others(ds, c)
  BY <1>1, OneMore DEF Others, OwnModules
<1>3. Progress(ds, c, ModuleInstantiations(r.modules))
  BY <1>1, MessagesForModules DEF Progress
<1> QED
  BY <1>2, <1>3

LEMMA PartBegins ==
  ASSUME NEW cs, NEW c, NEW todo, Others(cs, c), Progress(cs, c, todo),
         NEW d, d \notin DOMAIN cs \cup {Unset}, NEW r, NEW ds, ds = Save(cs, d, r),
         r.modules = <<>>, r.owner = c, r.code = Head(todo).code,
         Head(todo).asked = "list" => r.kind = "list"
  PROVE  Others(ds, c) /\ Progress(ds, c, todo) /\ Made(ds, c, todo, d)
<1>1. c \in DOMAIN cs /\ {cs[c].list, cs[c].receipt} \subseteq DOMAIN cs \cup {Unset}
  BY DEF Progress
<1>2. ds[c] = cs[c] /\ ds[d] = r /\ DOMAIN ds = DOMAIN cs \cup {d}
  BY <1>1 DEF Save
<1>3. Others(ds, c)
  <2>1. OwnModulesOf(ds, d)
    BY <1>2 DEF OwnModulesOf
  <2>2. ASSUME NEW e \in DOMAIN cs \ {c}
        PROVE  OwnModulesOf(ds, e)
    BY OneMore DEF Others
  <2> QED
    BY <1>2, <2>1, <2>2 DEF Others
<1>4. Progress(ds, c, todo)
  <2>1. \A m, e : MadeFor(cs, c, m, e) => MadeFor(ds, c, m, e)
    BY <1>1, OneMore
  <2> QED
    BY <1>1, <1>2, <2>1 DEF Progress
<1>5. Made(ds, c, todo, d)
  BY <1>1, <1>2 DEF Made
<1> QED
  BY <1>3, <1>4, <1>5

\* The reply tells which of the two it is for.
LEMMA PartStored ==
  ASSUME NEW cs, NEW c, NEW todo, todo # <<>>, NEW S, todo \in Seq(S),
         Others(cs, c), Progress(cs, c, todo), Formed(cs), NEW d, Made(cs, c, todo, d), NEW ds,
         \/ Head(todo).id = REPLY_RECEIPT /\ ds = [cs EXCEPT ![c].receipt = d]
         \/ Head(todo).id = REPLY_ADDRESS_LIST /\ ds = [cs EXCEPT ![c].list = d]
  PROVE  Others(ds, c) /\ Progress(ds, c, Tail(todo))
<1> DEFINE ms == cs[c].modules
<1>1. /\ c \in DOMAIN cs /\ ValidModules(ms)
      /\ {cs[c].list, cs[c].receipt} \subseteq DOMAIN cs \cup {Unset}
      /\ d \in DOMAIN cs \ {c, cs[c].list, cs[c].receipt}
  BY DEF Progress, Made
<1>2. {"modules", "list", "receipt", "owner", "code", "kind"} \subseteq DOMAIN cs[c]
  BY <1>1 DEF Formed
<1>3. /\ DOMAIN ds = DOMAIN cs /\ ds[c].modules = ms
      /\ \A e \in DOMAIN cs : /\ ds[e].owner = cs[e].owner /\ ds[e].code = cs[e].code
                              /\ ds[e].kind = cs[e].kind
      /\ \A e \in DOMAIN cs \ {c} : ds[e] = cs[e]
  BY <1>1, <1>2
<1>4. PICK i \in Unaddressed(ms) : Head(todo) = ModuleInstantiation(ms[i])
  <2>1. 1 \in DOMAIN todo /\ Head(todo) = todo[1]
    OBVIOUS
  <2> QED
    BY <2>1 DEF Progress
<1>5. /\ IsList(ms[i]) => ds[c].list = d /\ ds[c].receipt = cs[c].receipt
      /\ ~IsList(ms[i]) => ds[c].receipt = d /\ ds[c].list = cs[c].list
  BY <1>1, <1>2, <1>4 DEF ModuleInstantiation, REPLY_RECEIPT, REPLY_ADDRESS_LIST
<1>6. Others(ds, c)
  <2>1. ASSUME NEW e \in DOMAIN cs \ {c}
        PROVE  OwnModulesOf(ds, e)
    <3>1. Keeps(cs, ds, e)
      BY <1>3 DEF Keeps
    <3>2. OwnModulesOf(cs, e)
      BY DEF Others
    <3> QED
      BY <3>1, <3>2, SettledStay
  <2> QED
    BY <1>3, <2>1 DEF Others
<1>7. MadeFor(ds, c, ms[i], ContractOf(ds[c], ms[i]))
  <2>1. ContractOf(ds[c], ms[i]) = d
    BY <1>4, <1>5 DEF ContractOf, Unaddressed
  <2>2. cs[d].owner = c /\ cs[d].code = ms[i].code /\ (IsList(ms[i]) => cs[d].kind = "list")
    BY <1>4 DEF Made, ModuleInstantiation
  <2> QED
    BY <1>1, <1>3, <2>1, <2>2 DEF MadeFor
<1>8. ASSUME NEW j \in Unaddressed(ms), j # i
      PROVE  \/ MadeFor(ds, c, ms[j], ContractOf(ds[c], ms[j]))
             \/ \E k \in DOMAIN Tail(todo) : Tail(todo)[k] = ModuleInstantiation(ms[j])
  <2>1. IsList(ms[j]) # IsList(ms[i])
    BY <1>1, <1>8 DEF ValidModules, Unaddressed
  <2>2. ContractOf(ds[c], ms[j]) = ContractOf(cs[c], ms[j])
    BY <1>5, <2>1 DEF ContractOf, IsList
  <2>3. CASE MadeFor(cs, c, ms[j], ContractOf(cs[c], ms[j]))
    BY <1>3, <2>2, <2>3 DEF MadeFor
  <2>4. CASE \E k \in DOMAIN todo : todo[k] = ModuleInstantiation(ms[j])
    <3>1. PICK k \in DOMAIN todo : todo[k] = ModuleInstantiation(ms[j])
      BY <2>4
    <3>2. ModuleInstantiation(ms[j]).id # ModuleInstantiation(ms[i]).id
      BY <2>1 DEF ModuleInstantiation, REPLY_RECEIPT, REPLY_ADDRESS_LIST, IsList
    <3>3. k # 1
      BY <1>4, <3>1, <3>2
    <3>4. k - 1 \in DOMAIN Tail(todo) /\ Tail(todo)[k - 1] = todo[k]
      BY <3>3
    <3> QED
      BY <3>1, <3>4
  <2> QED
    BY <2>3, <2>4 DEF Progress
<1>9. \A k \in DOMAIN Tail(todo) : \E j \in Unaddressed(ms) : Tail(todo)[k] = ModuleInstantiation(ms[j])
  <2>1. \A k \in DOMAIN Tail(todo) : k + 1 \in DOMAIN todo /\ Tail(todo)[k] = todo[k + 1]
    OBVIOUS
  <2> QED
    BY <2>1 DEF Progress
<1>10. /\ {ds[c].list, ds[c].receipt} \subseteq DOMAIN ds \cup {Unset}
       /\ ds[c].list = ds[c].receipt => ds[c].list = Unset
  BY <1>1, <1>3, <1>5
<1> HIDE DEF ms
<1>11. Progress(ds, c, Tail(todo))
  <2>1. ds[c].modules = ms
    BY <1>3
  <2> QED
    BY <1>1, <1>3, <1>7, <1>8, <1>9, <1>10, <2>1 DEF Progress
<1> QED
  BY <1>6, <1>11

LEMMA AllStored ==
  ASSUME NEW cs, NEW c, Unset \notin DOMAIN cs, Others(cs, c), Progress(cs, c, <<>>)
  PROVE  OwnModules(cs)
<1> DEFINE ms == cs[c].modules
<1>1. ASSUME NEW i \in Unaddressed(ms)
      PROVE  MadeFor(cs, c, ms[i], ContractOf(cs[c], ms[i]))
  BY DEF Progress
<1>2. ASSUME NEW i \in Unaddressed(ms), NEW j \in Unaddressed(ms), i # j
      PROVE  ContractOf(cs[c], ms[j]) # ContractOf(cs[c], ms[i])
  <2>1. ValidModules(ms)
    BY DEF Progress
  <2>2. i \in DOMAIN ms /\ j \in DOMAIN ms /\ ms[i].address = Unset /\ ms[j].address = Unset
    BY DEF Unaddressed
  <2>3. IsList(ms[i]) # IsList(ms[j])
    BY <1>2, <2>1, <2>2 DEF ValidModules
  <2>4. \/ ContractOf(cs[c], ms[i]) = cs[c].list /\ ContractOf(cs[c], ms[j]) = cs[c].receipt
        \/ ContractOf(cs[c], ms[i]) = cs[c].receipt /\ ContractOf(cs[c], ms[j]) = cs[c].list
    BY <2>2, <2>3 DEF ContractOf, IsList
  <2>5. ContractOf(cs[c], ms[i]) \in DOMAIN cs
    BY <1>1 DEF MadeFor
  <2>6. cs[c].list # cs[c].receipt
    BY <2>4, <2>5 DEF Progress
  <2> QED
    BY <2>4, <2>6
<1>3. OwnModulesOf(cs, c)
  BY <1>1, <1>2 DEF OwnModulesOf, Unaddressed
<1> QED
  BY <1>3 DEF Others, OwnModules

\* The frames of a transaction, by their number.
LEMMA OneFrame ==
  ASSUME NEW t, NEW b, t.frames = <<b>>
  PROVE  Len(t.frames) = 1 /\ Head(t.frames) = b
OBVIOUS

LEMMA TwoFrames ==
  ASSUME NEW t, NEW f, NEW b, t.frames = <<f, b>>
  PROVE  Len(t.frames) = 2 /\ Head(t.frames) = f
OBVIOUS

LEMMA ThreeFrames ==
  ASSUME NEW t, NEW g, NEW f, NEW b, t.frames = <<g, f, b>>
  PROVE  Len(t.frames) = 3 /\ Head(t.frames) = g /\ t.frames[2] = f
OBVIOUS

LEMMA KeptRunning ==
  ASSUME NEW old, NEW before, NEW m, NEW c, NEW parts, NEW todo, NEW undo,
         Running(old, before, m, c, parts, todo, undo)',
         contracts'[c].kind = "token" => Others(contracts', c) /\ Progress(contracts', c, todo)
  PROVE  UnderWay'
<1>1. PICK f, b : f = FrameOf(c, todo, undo) /\ b = FrameOf(Self, <<m>>, old)
  OBVIOUS
<1>2. tx'.frames = <<f, b>>
  BY <1>1 DEF Running, Tx, FrameOf
<1>3. Len(tx'.frames) = 2 /\ Top' = f
  BY <1>2, TwoFrames DEF Top
<1>4. f.who = c /\ f.todo = todo
  BY <1>1 DEF FrameOf
<1> QED
  BY <1>3, <1>4 DEF UnderWay

LEMMA KeptNested ==
  ASSUME NEW old, NEW before, NEW m, NEW c, NEW parts, NEW todo, NEW undo, NEW d, NEW undo2,
         Nested(old, before, m, c, parts, todo, undo, d, undo2)',
         Others(contracts', c), Progress(contracts', c, todo), Made(contracts', c, todo, d)
  PROVE  UnderWay'
<1>1. PICK g, f, b : /\ g = FrameOf(d, <<>>, undo2) /\ f = FrameOf(c, todo, undo)
                     /\ b = FrameOf(Self, <<m>>, old)
  OBVIOUS
<1>2. tx'.frames = <<g, f, b>>
  BY <1>1 DEF Nested, Tx, FrameOf
<1>3. Len(tx'.frames) = 3 /\ Top' = g /\ Caller' = f
  BY <1>2, ThreeFrames DEF Top, Caller
<1>4. g.who = d /\ f.who = c /\ f.todo = todo
  BY <1>1 DEF FrameOf
<1> QED
  BY <1>3, <1>4 DEF UnderWay

LEMMA KeptByInstantiate ==
  ASSUME Inv, ModulesInv, Instantiate
  PROVE  ModulesInv'
<1>1. config \in F!Config /\ Waiting /\ Committed' = Committed
  BY InstantiateStep DEF Inv, Instantiate
<1>2. OwnModules(Committed'.contracts)
  BY <1>1 DEF ModulesInv
<1>3. ASSUME NEW old, NEW before, NEW m, Starting(old, before, m)
      PROVE  UnderWay'
  <2>1. PICK c, undo, todo : /\ c = NextAddress /\ todo = Response(m)
                             /\ Running(old, before, m, c, EmptyMap, todo, undo)'
    BY <1>1, <1>3, TokenMade
  <2>2. Instantiable(m) /\ contracts' = Save(contracts, c, NewContract(m, Self))
    BY <1>1, <1>3, <2>1, TokenMade
  <2>3. OwnModules(contracts) /\ Sound(contracts) /\ Order(m)
    <3>1. Committed = [addresses |-> before, contracts |-> old]
      BY <1>3, StartingTop
    <3>2. Committed.contracts = old
      BY <3>1
    <3> QED
      BY <1>3, <3>2 DEF Starting, ModulesInv
  <2>4. c \notin DOMAIN contracts
    BY <2>1, <2>3, Numbering DEF Sound
  <2>5. ASSUME contracts'[c].kind = "token"
        PROVE  Others(contracts', c) /\ Progress(contracts', c, todo)
    <3>1. PICK r : r = NewContract(m, Self)
      OBVIOUS
    <3>2. contracts'[c] = r
      BY <2>2, <3>1 DEF Save
    <3>3. KindOf[m.code] = "token"
      BY <2>5, <3>1, <3>2 DEF NewContract
    <3>4. /\ r.modules = m.modules /\ r.list = Unset /\ r.receipt = Unset
          /\ todo = ModuleInstantiations(r.modules)
      BY <2>1, <3>1, <3>3 DEF NewContract, Response
    <3>5. m.modules \in Seq(ModuleDefinition) /\ ValidModules(m.modules)
      BY <2>2, <2>3, <3>3 DEF Order, Instantiable
    <3> QED
      BY <2>2, <2>3, <2>4, <3>1, <3>4, <3>5, TokenBegins
  <2> QED
    BY <2>1, <2>5, KeptRunning
<1>4. ASSUME NEW old, NEW before, NEW m, NEW c, NEW parts, NEW todo, NEW undo,
             todo # <<>>, Running(old, before, m, c, parts, todo, undo)
      PROVE  UnderWay'
  <2>1. PICK more, d, undo2 : d = NextAddress /\ Nested(old, before, m, c, more, todo, undo, d, undo2)'
    BY <1>1, <1>4, PartMade
  <2>2. PICK p : p = Head(todo)
    OBVIOUS
  <2>3. Instantiable(p) /\ contracts' = Save(contracts, d, NewContract(p, c))
    BY <1>1, <1>4, <2>1, <2>2, PartMade
  <2>4. Sound(contracts) /\ contracts[c].kind = "token" /\ todo \in Seq(PartMessage)
    BY <1>4 DEF Running
  <2>5. Others(contracts, c) /\ Progress(contracts, c, todo)
    BY <1>4, <2>4, RunningTop DEF ModulesInv, UnderWay
  <2>6. d \notin DOMAIN contracts \cup {Unset}
    <3>1. Numbered(contracts')
      BY <2>1 DEF Nested, Sound
    <3>2. d \in DOMAIN contracts' /\ DOMAIN contracts' \subseteq Contracts
      BY <2>3, <3>1, CreationAssumption DEF Save, Numbered, Contracts
    <3> QED
      BY <2>1, <2>4, <3>2, Numbering, CreationAssumption DEF Sound
  <2>7. p \in PartMessage
    BY <1>4, <2>2, <2>4
  <2>8. p.asked \in {"receipt", "list"} /\ p.code \in CodeIds
    BY <2>7 DEF PartMessage
  <2>9. KindOf[p.code] \in {"receipt", "list"} /\ (p.asked = "list" => KindOf[p.code] = "list")
    BY <2>3, <2>8, CreationAssumption DEF Instantiable, Parses
  <2>10. PICK r : r = NewContract(p, c)
    OBVIOUS
  <2>11. /\ r.modules = <<>> /\ r.owner = c /\ r.code = p.code
         /\ p.asked = "list" => r.kind = "list"
    BY <2>9, <2>10 DEF NewContract
  <2>12. Others(contracts', c) /\ Progress(contracts', c, todo) /\ Made(contracts', c, todo, d)
    BY <2>2, <2>3, <2>5, <2>6, <2>10, <2>11, PartBegins
  <2> QED
    BY <2>1, <2>12, KeptNested
<1> QED
  BY <1>1, <1>2, <1>3, <1>4, TopWaiting DEF ModulesInv

LEMMA KeptByTokenReply ==
  ASSUME Inv, ModulesInv, TokenReply
  PROVE  ModulesInv'
<1>1. config \in F!Config /\ Finished /\ Committed' = Committed
  BY ReplyStep DEF Inv, TokenReply
<1>2. ASSUME NEW old, NEW before, NEW m, NEW c, NEW parts, NEW undo,
             Running(old, before, m, c, parts, <<>>, undo)
      PROVE  FALSE
  <2>1. Caller = FrameOf(Self, <<m>>, old)
    BY <1>2, RunningTop
  <2> QED
    BY <2>1 DEF TokenReply, FrameOf
<1>3. ASSUME NEW old, NEW before, NEW m, NEW c, NEW parts, NEW todo, NEW undo, NEW d, NEW undo2,
             Nested(old, before, m, c, parts, todo, undo, d, undo2)
      PROVE  UnderWay'
  <2>1. PICK rest : rest = Tail(todo) /\ Running(old, before, m, c, parts, rest, undo)'
    BY <1>1, <1>3, PartAnswered
  <2>2. Top.who = d /\ tx # NoTx /\ ~tx.failed /\ Len(tx.frames) = 3
    BY <1>3, NestedTop
  <2>3. Caller.who = c /\ Caller.todo = todo
    BY <1>3, NestedCaller DEF FrameOf
  <2>4. Others(contracts, c) /\ Progress(contracts, c, todo) /\ Made(contracts, c, todo, d)
    BY <2>2, <2>3 DEF ModulesInv, UnderWay
  <2>5. todo \in Seq(PartMessage) /\ todo # <<>> /\ Formed(contracts)
    BY <1>3 DEF Nested, Sound
  <2>6. PICK p : p = Head(todo) /\ p \in PartMessage
    BY <2>5
  <2>7. p.id \in {REPLY_RECEIPT, REPLY_ADDRESS_LIST}
    BY <2>6 DEF PartMessage
  <2>8. \/ Head(todo).id = REPLY_RECEIPT /\ contracts' = [contracts EXCEPT ![c].receipt = d]
        \/ Head(todo).id = REPLY_ADDRESS_LIST /\ contracts' = [contracts EXCEPT ![c].list = d]
    BY <2>2, <2>3, <2>6, <2>7 DEF TokenReply, ReplyAddress, REPLY_RECEIPT, REPLY_ADDRESS_LIST
  <2>9. Others(contracts', c) /\ Progress(contracts', c, rest)
    BY <2>1, <2>4, <2>5, <2>8, PartStored
  <2> QED
    BY <2>1, <2>9, KeptRunning
<1> QED
  BY <1>1, <1>2, <1>3, TopFinished DEF ModulesInv

LEMMA KeptByFactoryReply ==
  ASSUME Inv, ModulesInv, FactoryReply
  PROVE  ModulesInv'
<1>1. config \in F!Config /\ Finished /\ Committed' = Committed
  BY ReplyStep DEF Inv, FactoryReply
<1>2. ASSUME NEW old, NEW before, NEW m, NEW c, NEW parts, NEW undo,
             Running(old, before, m, c, parts, <<>>, undo)
      PROVE  UnderWay'
  <2>1. contracts' = contracts /\ contracts[c].kind = "token"
    BY <1>1, <1>2, TokenAnswered
  <2>2. Others(contracts, c) /\ Progress(contracts, c, <<>>)
    BY <1>2, <2>1, RunningTop DEF ModulesInv, UnderWay
  <2>3. Unset \notin DOMAIN contracts
    BY <1>2, Numbering, CreationAssumption DEF Running, Sound
  <2>4. OwnModules(contracts')
    BY <2>1, <2>2, <2>3, AllStored
  <2>5. Ending(old, before, m, c, parts)'
    BY <1>1, <1>2, TokenAnswered
  <2>6. Len(tx'.frames) = 1
    BY <2>5, OneFrame DEF Ending, Tx, FrameOf
  <2> QED
    BY <2>4, <2>6 DEF UnderWay
<1>3. ASSUME NEW old, NEW before, NEW m, NEW c, NEW parts, NEW todo, NEW undo, NEW d, NEW undo2,
             Nested(old, before, m, c, parts, todo, undo, d, undo2)
      PROVE  FALSE
  <2>1. Caller = FrameOf(c, todo, undo) /\ c # Self
    BY <1>3, NestedCaller, NotSelf DEF Nested
  <2> QED
    BY <2>1 DEF FactoryReply, FrameOf
<1> QED
  BY <1>1, <1>2, <1>3, TopFinished DEF ModulesInv

\* Between transactions.
LEMMA KeptByOwners ==
  ASSUME Inv, ModulesInv, NEW c \in DOMAIN contracts, NEW u \in Users, NEW new \in Users,
         ContractOwnerChanges(c, u, new)
  PROVE  ModulesInv'
<1>1. /\ tx = NoTx /\ tx' = NoTx /\ u = contracts[c].owner
      /\ contracts' = [contracts EXCEPT ![c].owner = new]
      /\ Sound(contracts) /\ OwnModules(contracts)
  BY Idle, AllSeen DEF ContractOwnerChanges, ModulesInv
<1>2. {"kind", "code", "owner", "modules", "list", "receipt"} \subseteq DOMAIN contracts[c]
  BY <1>1 DEF Sound, Formed
<1>3. DOMAIN contracts' = DOMAIN contracts /\ u \notin DOMAIN contracts
  BY <1>1, Numbering, CreationAssumption DEF Sound
<1>4. ASSUME NEW e \in DOMAIN contracts
      PROVE  /\ contracts'[e].modules = contracts[e].modules /\ contracts'[e].list = contracts[e].list
             /\ contracts'[e].receipt = contracts[e].receipt /\ contracts'[e].code = contracts[e].code
             /\ contracts'[e].kind = contracts[e].kind
             /\ contracts[e].owner # u => contracts'[e].owner = contracts[e].owner
  BY <1>1, <1>2
<1>5. PICK cs, ds : cs = contracts /\ ds = contracts'
  OBVIOUS
<1>6. OwnModules(ds)
  <2>1. ASSUME NEW b \in DOMAIN cs
        PROVE  OwnModulesOf(ds, b)
    <3>1. OwnModulesOf(cs, b)
      BY <1>1, <1>5, <2>1 DEF OwnModules
    <3>2. b # u
      BY <1>3, <1>5
    <3>3. Keeps(cs, ds, b)
      BY <1>3, <1>4, <1>5, <3>2 DEF Keeps
    <3> QED
      BY <3>1, <3>3, SettledStay
  <2> QED
    BY <1>3, <1>5, <2>1 DEF OwnModules
<1>7. Committed'.contracts = contracts'
  BY <1>1, AllSeen
<1> QED
  BY <1>1, <1>5, <1>6, <1>7 DEF ModulesInv, UnderWay

LEMMA KeptByDeploy ==
  ASSUME Inv, ModulesInv, NEW u \in Users, NEW kind, NEW sym \in Symbols, DeployElsewhere(u, kind, sym)
  PROVE  ModulesInv'
<1>1. PICK r : r = [kind |-> kind, code |-> Unset, owner |-> u,
                    symbol |-> IF kind = "token" THEN sym ELSE Unset,
                    modules |-> <<>>, list |-> Unset, receipt |-> Unset]
  OBVIOUS
<1>2. /\ tx = NoTx /\ tx' = NoTx /\ contracts' = Save(contracts, NextAddress, r)
      /\ Sound(contracts) /\ OwnModules(contracts)
  BY <1>1, Idle, AllSeen DEF DeployElsewhere, ModulesInv
<1>3. PICK d, cs, ds : d = NextAddress /\ cs = contracts /\ ds = contracts'
  OBVIOUS
<1>4. d \notin DOMAIN cs /\ ds = Save(cs, d, r) /\ r.modules = <<>> /\ OwnModules(cs)
  BY <1>1, <1>2, <1>3, Numbering DEF Sound
<1>5. \A c \in DOMAIN cs : OwnModulesOf(ds, c)
  BY <1>4, OneMore DEF OwnModules
<1>6. DOMAIN ds = DOMAIN cs \cup {d} /\ ds[d] = r
  BY <1>4 DEF Save
<1>7. OwnModules(ds)
  BY <1>4, <1>5, <1>6 DEF OwnModules, OwnModulesOf
<1> QED
  BY <1>2, <1>3, <1>7, AllSeen DEF ModulesInv, UnderWay

LEMMA ModulesStep == Inv /\ ModulesInv /\ [Next]_creationVars => ModulesInv'
<1> SUFFICES ASSUME Inv, ModulesInv, [Next]_creationVars
             PROVE  ModulesInv'
  OBVIOUS
<1>1. ASSUME NEW s \in Users, NEW sym \in Symbols, NEW ms \in ModuleLists, Create(s, sym, ms)
      PROVE  ModulesInv'
  <2>1. Committed' = Committed
    BY <1>1, CreateStep
  <2>2. PICK m, b : m = TokenInstantiation(s, sym, AssignCodes(ms)) /\ b = Frame(Self, <<m>>)
    OBVIOUS
  <2>3. tx'.frames = <<b>>
    BY <1>1, <2>2 DEF Create
  <2>4. Len(tx'.frames) = 1 /\ Top' = b /\ b.todo = <<m>>
    BY <2>2, <2>3, OneFrame DEF Top, Frame
  <2>5. b.todo # <<>>
    BY <2>4
  <2> QED
    BY <2>1, <2>4, <2>5 DEF ModulesInv, UnderWay
<1>2. ASSUME InstantiateFails \/ FactoryReplyFails \/ Abort
      PROVE  ModulesInv'
  BY <1>2, FailStep, AbortStep DEF ModulesInv, UnderWay
<1>3. CASE Commit
  <2>1. /\ tx # NoTx /\ ~tx.failed /\ Len(tx.frames) = 1 /\ Top.todo = <<>>
        /\ tx' = NoTx /\ contracts' = contracts
    BY <1>3 DEF Commit
  <2>2. Committed'.contracts = contracts
    BY <2>1, AllSeen
  <2> QED
    BY <2>1, <2>2 DEF ModulesInv, UnderWay
<1>4. ASSUME NEW u \in Users,
             \/ \E s \in Symbols, a \in Strings : UpdateAddress(u, s, a)
             \/ \E kinds \in SUBSET {"token", "receipt", "list"}, new \in Configurations :
                  UpdateCodeId(u, kinds, new)
             \/ \E new \in Users : UpdateOwner(u, new)
      PROVE  ModulesInv'
  <2>1. tx = NoTx /\ tx' = NoTx /\ contracts' = contracts
    BY <1>4 DEF UpdateAddress, UpdateCodeId, UpdateOwner
  <2>2. Committed.contracts = contracts /\ Committed'.contracts = contracts
    BY <2>1, AllSeen
  <2> QED
    BY <2>1, <2>2 DEF ModulesInv, UnderWay
<1>5. CASE UNCHANGED creationVars
  <2>1. UNCHANGED <<addresses, config, factoryOwner, contracts, tx>>
    BY <1>5 DEF creationVars
  <2>2. Committed' = Committed /\ Top' = Top /\ Caller' = Caller
    BY <2>1 DEF Committed, Top, Caller
  <2> QED
    BY <2>1, <2>2 DEF ModulesInv, UnderWay
<1> QED
  BY <1>1, <1>2, <1>3, <1>4, <1>5, KeptByInstantiate, KeptByTokenReply, KeptByFactoryReply,
     KeptByOwners, KeptByDeploy DEF Next, Message, Deliver

\* The modules of every token contract have contracts of their own, whichever of the
\* three kinds of contract the code ids name and whatever addresses the creators give:
\* the replies tell the lists from the receipts (on_receipt_reply,
\* on_address_list_reply).
THEOREM ModulesAreKept == Spec => []ModulesOfItsOwn
<1>1. Init => Inv /\ ModulesInv
  <2>1. ASSUME Init
        PROVE  ModulesInv
    <3>1. tx = NoTx /\ DOMAIN contracts = {}
      BY <2>1 DEF Init, EmptyMap
    <3>2. Committed.contracts = contracts
      BY <3>1, AllSeen
    <3> QED
      BY <3>1, <3>2 DEF ModulesInv, UnderWay, OwnModules
  <2> QED
    BY <2>1, InitStages
<1>2. Inv /\ ModulesInv /\ [Next]_creationVars => (Inv /\ ModulesInv)'
  BY EveryStep, ModulesStep
<1>3. ModulesInv => ModulesOfItsOwn
  BY AllSeen DEF ModulesInv, ModulesOfItsOwn
<1> QED
  BY <1>1, <1>2, <1>3, PTL DEF Spec
==============================================================================
