------------------------ MODULE DomainSecurity_proofs ------------------------
(***************************************************************************)
(* Proofs about DomainSecurity, for any blocks, attested owners and        *)
(* numbers of domains and groups.                                          *)
(*                                                                         *)
(* TP and GP are the modules with the proofs about the tree and about the  *)
(* groups alone, which are cited here.  They define the operations a       *)
(* second time, so the first lemmas say that the operations composed here  *)
(* are the ones those proofs are about.                                    *)
(***************************************************************************)
EXTENDS DomainSecurity, TLAPS

TP == INSTANCE DomainChain_proofs
GP == INSTANCE SecurityGroups_proofs WITH Domain <- DomainId

\* RPALogic as DomainSecurity knows it and as its proofs know it.
LEMMA SameTree ==
  /\ T!Init <=> TP!Init
  /\ \A b, v : T!PrepareBlock(b, v) <=> TP!PrepareBlock(b, v)
  /\ \A b : T!DescendReturn(b) <=> TP!DescendReturn(b)
  /\ \A b : T!DescendFirst(b) <=> TP!DescendFirst(b)
  /\ T!Ascend <=> TP!Ascend
  /\ T!Exit <=> TP!Exit
  /\ T!AscendAtRoot <=> TP!AscendAtRoot
PROOF
  <1>1. T!Init <=> TP!Init
    BY DEF T!Init, TP!Init, T!Root, TP!Root, T!Addr, TP!Addr, T!EmptyDcb, TP!EmptyDcb
  <1>2. \A b, v : T!PrepareBlock(b, v) <=> TP!PrepareBlock(b, v)
    BY DEF T!PrepareBlock, TP!PrepareBlock, T!FreshBlock, TP!FreshBlock, T!EmptyDcb, TP!EmptyDcb
  <1>3. \A b : T!DescendReturn(b) <=> TP!DescendReturn(b)
    BY DEF T!DescendReturn, TP!DescendReturn, T!RealBlock, TP!RealBlock
  <1>4. \A b : T!DescendFirst(b) <=> TP!DescendFirst(b)
    BY DEF T!DescendFirst, TP!DescendFirst, T!FreshBlock, TP!FreshBlock,
           T!Grow, TP!Grow, T!ReadBlock, TP!ReadBlock
  <1>5. T!Ascend <=> TP!Ascend
    BY DEF T!Ascend, TP!Ascend
  <1>6. T!Exit <=> TP!Exit
    BY DEF T!Exit, TP!Exit, T!LeafExit, TP!LeafExit
  <1>7. T!AscendAtRoot <=> TP!AscendAtRoot
    BY DEF T!AscendAtRoot, TP!AscendAtRoot, T!vars, TP!vars
  <1> QED BY <1>1, <1>2, <1>3, <1>4, <1>5, <1>6, <1>7

\* The controller as DomainSecurity knows it and as its proofs know it.
LEMMA SameGroups ==
  /\ G!GroupsInit <=> GP!GroupsInit
  /\ G!Handle = GP!Handle /\ G!RootHandle = GP!RootHandle
  /\ \A h : G!Live(h) <=> GP!Live(h)
  /\ \A d, conf, enc : G!Create(d, conf, enc) <=> GP!Create(d, conf, enc)
  /\ \A h, d : G!Destroy(h, d) <=> GP!Destroy(h, d)
  /\ \A h, d : G!DestroyForce(h, d) <=> GP!DestroyForce(h, d)
  /\ \A h : G!DestroyConfidential(h) <=> GP!DestroyConfidential(h)
  /\ \A h, d : G!InstUnbound(h, d) = GP!InstUnbound(h, d)
  /\ \A h, d : G!MapUnbound(h, d) = GP!MapUnbound(h, d)
PROOF
  <1> USE DEF G!Handle, GP!Handle, G!RootHandle, GP!RootHandle, G!Live, GP!Live,
              G!NewGroup, GP!NewGroup, G!RegionsWithout, GP!RegionsWithout,
              G!MapWithout, GP!MapWithout
  <1>1. G!GroupsInit <=> GP!GroupsInit
    BY DEF G!GroupsInit, GP!GroupsInit
  <1>2. \A d, conf, enc : G!Create(d, conf, enc) <=> GP!Create(d, conf, enc)
    BY DEF G!Create, GP!Create
  <1>3. \A h, d : G!Destroy(h, d) <=> GP!Destroy(h, d)
    BY DEF G!Destroy, GP!Destroy
  <1>4. \A h, d : G!DestroyForce(h, d) <=> GP!DestroyForce(h, d)
    BY DEF G!DestroyForce, GP!DestroyForce
  <1>5. \A h : G!DestroyConfidential(h) <=> GP!DestroyConfidential(h)
    BY DEF G!DestroyConfidential, GP!DestroyConfidential
  <1>6. \A h, d : G!InstUnbound(h, d) = GP!InstUnbound(h, d)
    BY DEF G!InstUnbound, GP!InstUnbound
  <1>7. \A h, d : G!MapUnbound(h, d) = GP!MapUnbound(h, d)
    BY DEF G!MapUnbound, GP!MapUnbound
  <1> QED BY <1>1, <1>2, <1>3, <1>4, <1>5, <1>6, <1>7

-----------------------------------------------------------------------------
\* The tree: one chain of domains (DomainChain_proofs), whose ids never run
\* past MaxDomains, because no object is ever rebuilt.
Numbered == nextId = nObj /\ (nextId = 1 \/ nextId <= MaxDomains)

TreeInv == TP!OneChain /\ Numbered

\* The tree starts as a chain of one.
LEMMA InitTree == T!Init => TreeInv
PROOF
  <1>1. TP!Init => TP!OneChain
    BY TreeAssumption, TP!InitOneChain DEF Conventions
  <1>2. TP!Init => Numbered
    BY DEF TP!Init, Numbered
  <1> QED BY <1>1, <1>2, SameTree DEF TreeInv

\* What one step of the system can do to the tree.
TreeStep ==
  \/ \E b \in Block, v \in T!Word : T!PrepareBlock(b, v)
  \/ \E b \in T!Addr : T!DescendReturn(b) \/ T!DescendFirst(b)
  \/ T!Ascend
  \/ T!Exit
  \/ UNCHANGED treeVars

\* Each of these is a step of the tree on its own.
LEMMA TreeStepIsNext == TreeStep => [TP!Next]_(TP!vars)
PROOF
  <1> SUFFICES ASSUME TreeStep PROVE [TP!Next]_(TP!vars)
    OBVIOUS
  <1>1. ASSUME NEW b \in Block, NEW v \in T!Word, T!PrepareBlock(b, v) PROVE TP!Next
    <2>1. v \in TP!Word /\ TP!PrepareBlock(b, v)
      BY <1>1, SameTree DEF T!Word, TP!Word
    <2> QED BY <2>1 DEF TP!Next
  <1>2. ASSUME NEW b \in T!Addr, T!DescendReturn(b) \/ T!DescendFirst(b) PROVE TP!Next
    <2>1. b \in TP!Addr /\ (TP!DescendReturn(b) \/ TP!DescendFirst(b))
      BY <1>2, SameTree DEF TP!Addr, T!Addr
    <2> QED BY <2>1 DEF TP!Next
  <1>3. CASE T!Ascend \/ T!Exit
    BY <1>3, SameTree DEF TP!Next
  <1>4. CASE UNCHANGED treeVars
    BY <1>4 DEF treeVars, TP!vars
  <1> QED BY <1>1, <1>2, <1>3, <1>4 DEF TreeStep

\* So the chain is kept, and the ids stay in range.
LEMMA TreeStepKeeps ==
  ASSUME TreeInv, TreeStep
  PROVE  TreeInv'
PROOF
  <1>1. [TP!Next]_(TP!vars)
    BY TreeStepIsNext
  <1>2. TP!OneChain'
    <2>1. TP!Disciplined
      BY DEF TP!Disciplined, Conventions
    <2> QED BY <1>1, <2>1, TP!NextOneChain, TreeAssumption DEF TreeInv, Conventions
  <1>3. Numbered'
    <2>1. nObj \in Nat
      BY DEF TreeInv, TP!OneChain, TP!Anchored, TP!TypeOK
    <2>2. \/ nObj' = nObj /\ nextId' = nextId
          \/ nObj < MaxDomains /\ nObj' = nObj + 1 /\ nextId' = nextId + 1
      <3>1. ASSUME NEW b \in T!Addr, T!DescendFirst(b)
            PROVE  nObj < MaxDomains /\ nObj' = nObj + 1 /\ nextId' = nextId + 1
        BY <3>1 DEF T!DescendFirst
      <3>2. ASSUME NEW b \in Block, NEW v \in T!Word, T!PrepareBlock(b, v)
            PROVE  nObj' = nObj /\ nextId' = nextId
        BY <3>2 DEF T!PrepareBlock
      <3>3. ASSUME NEW b \in T!Addr, T!DescendReturn(b)
            PROVE  nObj' = nObj /\ nextId' = nextId
        BY <3>3 DEF T!DescendReturn
      <3>4. CASE T!Ascend
        BY <3>4 DEF T!Ascend
      <3>5. CASE T!Exit
        <4>1. UNCHANGED <<nObj, nextId>>
          BY <3>5, Zenon DEF T!Exit
        <4> QED BY <4>1
      <3>6. CASE UNCHANGED treeVars
        BY <3>6 DEF treeVars
      <3> QED BY <3>1, <3>2, <3>3, <3>4, <3>5, <3>6 DEF TreeStep
    <2> QED BY <2>1, <2>2, TreeAssumption DEF TreeInv, Numbered
  <1> QED BY <1>2, <1>3 DEF TreeInv

\* What the two halves need to know of the tree: the ids of the live domains
\* are distinct, in range and below the next one.
LEMMA LiveDomains ==
  ASSUME TreeInv
  PROVE  /\ current \in T!Object /\ T!Registered(current) /\ nObj \notin T!Object
         /\ nextId = nObj /\ nObj \in Nat
         /\ \A o \in T!Object : T!Registered(o) =>
              /\ heap[o].id \in DomainId /\ heap[o].id < nextId
              /\ \A q \in T!Object : T!Registered(q) /\ heap[q].id = heap[o].id => q = o
PROOF
  <1> USE DEF T!Object, TP!Object, T!Registered, TP!Registered
  <1>1. /\ heap \in [TP!Object -> TP!Domain] /\ current \in TP!Object
        /\ TP!Registered(current) /\ nObj \in Nat
    BY DEF TreeInv, TP!OneChain, TP!Anchored, TP!TypeOK
  <1>2. \A o \in TP!Object : TP!Registered(o) =>
          /\ heap[o].id < nextId
          /\ \A q \in TP!Object : TP!Registered(q) /\ heap[q].id = heap[o].id => q = o
    BY DEF TreeInv, TP!OneChain, TP!IdsOnce
  <1>3. \A o \in TP!Object : heap[o].id \in Nat
    BY <1>1 DEF TP!Domain
  <1>4. nextId = nObj /\ (nextId = 1 \/ nextId <= MaxDomains)
    BY DEF TreeInv, Numbered
  <1>5. \A o \in TP!Object : TP!Registered(o) => heap[o].id \in DomainId
    BY <1>1, <1>2, <1>3, <1>4, TreeAssumption DEF DomainId
  <1> QED BY <1>1, <1>2, <1>4, <1>5

\* A first DESCEND adds one live domain, under the id that was next.
LEMMA FirstAdds ==
  ASSUME TreeInv, NEW b \in Block, T!DescendFirst(b)
  PROVE  /\ T!Object' = T!Object \cup {nObj}
         /\ heap'[nObj].id = nextId
         /\ \A o \in T!Object :
              /\ heap'[o].id = heap[o].id
              /\ registry'[heap'[o].addr] = o <=> T!Registered(o)
         /\ registry'[heap'[nObj].addr] = nObj /\ nextId \in DomainId
PROOF
  <1>1. nObj \in Nat /\ T!Object = 0 .. nObj - 1 /\ nObj \notin T!Object /\ nextId = nObj
    BY LiveDomains DEF T!Object
  <1>2. /\ nObj' = nObj + 1 /\ registry' = [registry EXCEPT ![b] = nObj]
        /\ nObj < MaxDomains /\ registry[b] = None
        /\ heap' = [o \in 0 .. nObj |->
                      IF o = nObj THEN T!ReadBlock(b, nextId)
                      ELSE IF o = current THEN [heap[o] EXCEPT !.child = b]
                      ELSE heap[o]]
    BY DEF T!DescendFirst, T!Grow, T!FreshBlock, Conventions
  <1>3. heap \in [T!Object -> TP!Domain] /\ registry \in [T!Addr -> T!Object \cup {None}]
    BY DEF TreeInv, TP!OneChain, TP!Anchored, TP!TypeOK, T!Object, TP!Object, T!Addr, TP!Addr
  <1>4. heap'[nObj] = T!ReadBlock(b, nextId)
    BY <1>1, <1>2
  <1>5. \A o \in T!Object : heap'[o].id = heap[o].id /\ heap'[o].addr = heap[o].addr
    <2> TAKE o \in T!Object
    <2>1. o \in 0 .. nObj /\ o # nObj
      BY <1>1
    <2>2. heap'[o] = IF o = current THEN [heap[o] EXCEPT !.child = b] ELSE heap[o]
      BY <1>2, <2>1
    <2> QED BY <1>3, <2>2 DEF TP!Domain
  <1>6. heap'[nObj].id = nextId /\ heap'[nObj].addr = b
    BY <1>4 DEF T!ReadBlock
  <1>7. T!Object' = T!Object \cup {nObj}
    BY <1>1, <1>2 DEF T!Object
  <1>8. b \in T!Addr
    BY DEF T!Addr
  <1>9. registry'[heap'[nObj].addr] = nObj
    BY <1>2, <1>3, <1>6, <1>8
  <1>10. ASSUME NEW o \in T!Object
         PROVE  registry'[heap'[o].addr] = o <=> T!Registered(o)
    <2>1. o # nObj /\ o # None
      BY <1>1, TreeAssumption
    <2>2. heap'[o].addr = heap[o].addr /\ heap[o].addr \in T!Addr
      BY <1>3, <1>5 DEF TP!Domain, T!Addr, TP!Addr
    <2> QED BY <1>2, <1>3, <2>1, <2>2 DEF T!Registered
  <1>11. nextId \in DomainId
    BY <1>1, <1>2, TreeAssumption DEF DomainId
  <1> QED BY <1>5, <1>6, <1>7, <1>9, <1>10, <1>11

\* EXIT takes the running domain, and no other, from the live ones.
LEMMA ExitRemoves ==
  ASSUME TreeInv, T!Exit
  PROVE  /\ T!Object' = T!Object
         /\ \A o \in T!Object :
              /\ heap'[o].id = heap[o].id
              /\ registry'[heap'[o].addr] = o <=> T!Registered(o) /\ o # current
PROOF
  <1> DEFINE p == heap[current].parent
             b == heap[current].addr
  <1>1. /\ nObj' = nObj /\ registry' = [registry EXCEPT ![b] = None]
        /\ heap' = [heap EXCEPT ![p].child = Zero, ![current].bid = 0]
    BY DEF T!Exit
  <1>2. /\ heap \in [T!Object -> TP!Domain] /\ registry \in [T!Addr -> T!Object \cup {None}]
        /\ current \in T!Object /\ T!Registered(current)
    BY DEF TreeInv, TP!OneChain, TP!Anchored, TP!TypeOK, T!Object, TP!Object, T!Addr, TP!Addr,
           T!Registered, TP!Registered
  <1>3. p \in T!Object
    <2>1. current # TP!Root /\ current \in TP!Object
      BY DEF T!Exit, TreeInv, TP!OneChain, TP!Anchored, TP!TypeOK, TP!RegistryAnchored
    <2>2. p \in 0 .. current - 1
      BY <2>1 DEF TreeInv, TP!OneChain, TP!Anchored, TP!RegistryAnchored
    <2>3. nObj \in Nat
      BY LiveDomains
    <2> HIDE DEF p
    <2> QED BY <2>1, <2>2, <2>3 DEF T!Object, TP!Object
  <1> HIDE DEF p
  <1>4. \A o \in T!Object : heap'[o].id = heap[o].id /\ heap'[o].addr = heap[o].addr
    BY <1>1, <1>2, <1>3 DEF TP!Domain
  <1>5. \A o \in T!Object : heap[o].addr \in T!Addr /\ o # None
    BY <1>2, LiveDomains, TreeAssumption DEF TP!Domain, T!Addr, TP!Addr, T!Object
  <1>6. \A o \in T!Object : registry'[heap'[o].addr] = o <=> T!Registered(o) /\ o # current
    BY <1>1, <1>2, <1>4, <1>5 DEF T!Registered
  <1> QED BY <1>1, <1>4, <1>6 DEF T!Object

-----------------------------------------------------------------------------
\* Every DCB and every live domain's object names a group that has existed.
HandlesGiven ==
  /\ memSg \in [T!Addr -> HandleWord]
  /\ objSg \in [T!Object -> HandleWord]
  /\ \A a \in T!Addr : memSg[a] < nextHandle
  /\ \A o \in T!Object : objSg[o] < nextHandle

\* A domain bound to a live group is mapped to it and so to no other.
BoundMapped ==
  \A h \in G!Handle, d \in DomainId :
    G!Live(h) /\ d \in inst[h].bound => secMap[d] = h

\* The inductive invariant.  The parts that connect the two halves need each
\* other: an unbind may forget a domain only if no other group still lists it.
SysInv ==
  /\ TreeInv
  /\ GP!GroupsInv
  /\ HandlesGiven
  /\ GroupFollowsDomain
  /\ ExitForgets
  /\ BoundMapped

\* What SysInv says of the groups' tables.
LEMMA GroupFacts ==
  ASSUME GP!GroupsInv
  PROVE  /\ inst \in [G!Handle -> GP!Group \cup {None}]
         /\ secMap \in [DomainId -> G!Handle \cup {None}]
         /\ nextHandle \in 2 .. MaxHandle + 1
         /\ \A h \in G!Handle : h >= nextHandle => ~G!Live(h)
         /\ \A h \in G!Handle : G!Live(h) => inst[h] \in GP!Group
         /\ \A d \in DomainId : secMap[d] # None =>
              G!Live(secMap[d]) /\ d \in inst[secMap[d]].bound
         /\ None \notin G!Handle /\ NoHandle \notin G!Handle
         /\ G!RootHandle \in G!Handle
PROOF
  BY SameGroups, TreeAssumption, GroupAssumption
     DEF GP!GroupsInv, GP!GroupsTypeOK, GP!FreshHandles, GP!MembershipSound, G!Live, GP!Live,
         G!Handle, GP!Handle, NoHandle, G!RootHandle, GP!RootHandle

\* The constants fit what the groups' proofs assume.
LEMMA GroupsFit ==
  /\ DomainId \subseteq Nat /\ 0 \in DomainId /\ Attested \subseteq DomainId
  /\ None \notin GP!Group
PROOF
  BY TreeAssumption, GroupAssumption DEF DomainId, G!Group, GP!Group

LEMMA InitSys == SysInit => SysInv
PROOF
  <1> SUFFICES ASSUME SysInit PROVE SysInv
    OBVIOUS
  <1> USE DEF NoHandle, HandleWord
  <1>1. TreeInv
    BY InitTree DEF SysInit
  <1>2. GP!GroupsInv
    BY GP!InitGroups, SameGroups, TreeAssumption, GroupAssumption, GroupsFit DEF SysInit
  <1>3. /\ T!Object = {T!Root} /\ T!Root = 0 /\ heap[T!Root].id = 0 /\ T!Registered(T!Root)
    BY DEF SysInit, T!Init, T!Object, T!Root, T!Registered, T!Addr
  <1>4. /\ G!RootHandle = 1 /\ G!RootHandle \in G!Handle /\ nextHandle = 2
        /\ G!Handle \subseteq Nat
    BY GroupAssumption DEF SysInit, G!GroupsInit, G!RootHandle, G!Handle
  <1>5. \A h \in G!Handle : G!Live(h) => h = G!RootHandle
    BY DEF SysInit, G!GroupsInit, G!Live
  <1>6. /\ G!Live(G!RootHandle) /\ inst[G!RootHandle].bound = {0}
        /\ secMap = [d \in DomainId |-> IF d = 0 THEN G!RootHandle ELSE None]
    <2>1. inst[G!RootHandle] = [G!NewGroup(0, FALSE, FALSE) EXCEPT !.bound = {0}, !.ref = 1]
      BY <1>4 DEF SysInit, G!GroupsInit
    <2>2. G!Live(G!RootHandle)
      BY <1>2, SameGroups DEF GP!GroupsInv, GP!RootGroupLives
    <2>3. inst[G!RootHandle].bound = {0}
      BY <2>1 DEF G!NewGroup
    <2> QED BY <2>2, <2>3 DEF SysInit, G!GroupsInit
  <1>7. HandlesGiven
    BY <1>3, <1>4 DEF SysInit, HandlesGiven
  <1>8. GroupFollowsDomain
    BY <1>3, <1>4, <1>6, GroupsFit DEF SysInit, GroupFollowsDomain
  <1>9. ExitForgets
    BY <1>3, <1>5, <1>6 DEF ExitForgets
  <1>10. BoundMapped
    BY <1>5, <1>6, GroupsFit DEF BoundMapped
  <1> QED BY <1>1, <1>2, <1>7, <1>8, <1>9, <1>10 DEF SysInv

\* A step of the controller alone that keeps every other group as it is, and
\* takes from the map exactly the domains of the group it dissolves.
LEMMA GroupsAlone ==
  ASSUME SysInv, GP!GroupsInv', UNCHANGED <<treeVars, memSg, objSg>>,
         nextHandle' >= nextHandle,
         \A h \in G!Handle : inst'[h] # None =>
           IF h < nextHandle THEN inst'[h] = inst[h] ELSE inst'[h].bound = {},
         \A d \in DomainId :
           secMap'[d] = IF secMap[d] = None THEN None
                        ELSE IF inst'[secMap[d]] # None THEN secMap[d] ELSE None
  PROVE  SysInv'
PROOF
  <1>1. TreeInv'
    BY TreeStepKeeps DEF TreeStep, SysInv
  <1>2. /\ T!Object' = T!Object /\ heap' = heap
        /\ \A o : T!Registered(o)' <=> T!Registered(o)
    BY DEF treeVars, T!Object, T!Registered
  <1>3. /\ nextHandle \in Nat /\ nextHandle' \in Nat
        /\ G!Handle \subseteq Nat /\ HandleWord \subseteq Nat
        /\ None \notin G!Handle
    <2>1. nextHandle \in Nat
      BY GroupFacts DEF SysInv
    <2>2. nextHandle' \in Nat
      BY SameGroups DEF GP!GroupsInv, GP!GroupsTypeOK
    <2> QED BY <2>1, <2>2, GroupFacts DEF SysInv, G!Handle, HandleWord, NoHandle
  <1>4. HandlesGiven'
    <2>1. HandlesGiven /\ memSg' = memSg /\ objSg' = objSg
      BY DEF SysInv
    <2>2. \A w \in HandleWord : w < nextHandle => w < nextHandle'
      BY <1>3
    <2> QED BY <1>2, <2>1, <2>2 DEF HandlesGiven
  <1>5. \A h \in G!Handle : h < nextHandle /\ inst'[h] # None => G!Live(h) /\ inst'[h] = inst[h]
    BY DEF G!Live
  <1>6. GroupFollowsDomain'
    <2> SUFFICES ASSUME NEW o \in T!Object, T!Registered(o),
                        NEW d, d = heap[o].id, NEW h, h = objSg[o]
                 PROVE  IF h # NoHandle /\ inst'[h] # None
                        THEN secMap'[d] = h /\ d \in inst'[h].bound
                        ELSE secMap'[d] = None
      BY <1>2 DEF GroupFollowsDomain, G!Live
    <2>1. d \in DomainId /\ h \in HandleWord /\ h < nextHandle
      BY LiveDomains DEF SysInv, HandlesGiven
    <2>2. IF h # NoHandle /\ G!Live(h)
          THEN secMap[d] = h /\ d \in inst[h].bound
          ELSE secMap[d] = None
      BY DEF SysInv, GroupFollowsDomain
    <2>3. h # NoHandle => h \in G!Handle
      BY <2>1 DEF HandleWord
    <2> QED BY <1>3, <1>5, <2>1, <2>2, <2>3
  <1>7. ExitForgets'
    <2> SUFFICES ASSUME NEW d \in DomainId,
                        secMap'[d] # None
                          \/ \E h \in G!Handle : inst'[h] # None /\ d \in inst'[h].bound
                 PROVE  \E o \in T!Object : T!Registered(o) /\ heap[o].id = d
      BY <1>2 DEF ExitForgets, G!Live
    <2>1. secMap[d] # None \/ \E h \in G!Handle : G!Live(h) /\ d \in inst[h].bound
      BY <1>3, <1>5
    <2> QED BY <2>1 DEF SysInv, ExitForgets
  <1>8. BoundMapped'
    <2> SUFFICES ASSUME NEW h \in G!Handle, NEW d \in DomainId,
                        inst'[h] # None, d \in inst'[h].bound
                 PROVE  secMap'[d] = h
      BY DEF BoundMapped, G!Live
    <2>1. h < nextHandle /\ G!Live(h) /\ d \in inst[h].bound
      BY <1>3, <1>5
    <2>2. secMap[d] = h
      BY <2>1 DEF SysInv, BoundMapped
    <2> QED BY <1>3, <2>2
  <1> QED BY <1>1, <1>4, <1>6, <1>7, <1>8 DEF SysInv

\* sysop secgroup create: the new group is empty, and its handle is one that
\* no DCB and no object can name yet.
LEMMA CreateKeepsSys ==
  ASSUME SysInv, NEW conf \in BOOLEAN, G!Create(Caller, conf, FALSE),
         UNCHANGED <<treeVars, memSg, objSg>>
  PROVE  SysInv'
PROOF
  <1>1. Caller \in DomainId
    BY LiveDomains DEF SysInv, Caller
  <1>2. GP!Create(Caller, conf, FALSE)
    BY SameGroups
  <1>3. GP!GroupsInv'
    BY <1>1, <1>2, GP!CreateKeeps, TreeAssumption, GroupAssumption, GroupsFit DEF SysInv
  <1>4. /\ inst' = [inst EXCEPT ![nextHandle] = G!NewGroup(Caller, conf, FALSE)]
        /\ secMap' = secMap /\ nextHandle' = nextHandle + 1 /\ nextHandle <= MaxHandle
    BY DEF G!Create
  <1>5. /\ nextHandle \in G!Handle /\ nextHandle \in Nat /\ ~G!Live(nextHandle)
        /\ inst \in [G!Handle -> GP!Group \cup {None}]
    <2>1. nextHandle \in 2 .. MaxHandle + 1 /\ MaxHandle \in Nat
      BY GroupFacts, GroupAssumption DEF SysInv
    <2> QED BY <1>4, <2>1, GroupFacts DEF SysInv, G!Handle
  <1>6. ASSUME NEW h \in G!Handle, inst'[h] # None
        PROVE  IF h < nextHandle THEN inst'[h] = inst[h] ELSE inst'[h].bound = {}
    <2>1. CASE h = nextHandle
      BY <1>4, <1>5, <2>1 DEF G!NewGroup
    <2>2. CASE h # nextHandle
      <3>1. inst'[h] = inst[h]
        BY <1>4, <1>5, <2>2
      <3>2. h < nextHandle
        BY <1>5, <1>6, <3>1, GroupFacts DEF SysInv, G!Live, G!Handle
      <3> QED BY <3>1, <3>2
    <2> QED BY <2>1, <2>2
  <1>7. ASSUME NEW d \in DomainId
        PROVE  secMap'[d] = IF secMap[d] = None THEN None
                            ELSE IF inst'[secMap[d]] # None THEN secMap[d] ELSE None
    <2>1. secMap[d] # None =>
            /\ secMap[d] \in G!Handle
            /\ inst[secMap[d]] # None /\ secMap[d] # nextHandle
      BY <1>5, GroupFacts DEF SysInv, G!Live
    <2>2. secMap[d] # None => inst'[secMap[d]] = inst[secMap[d]]
      BY <1>4, <1>5, <2>1
    <2> QED BY <1>4, <2>1, <2>2
  <1>8. nextHandle' >= nextHandle
    BY <1>4, <1>5
  <1> QED BY <1>3, <1>6, <1>7, <1>8, GroupsAlone

\* A group is dissolved, and the map loses exactly its domains.
LEMMA DissolveKeepsSys ==
  ASSUME SysInv, GP!GroupsInv', NEW h \in G!Handle, G!Live(h),
         UNCHANGED <<treeVars, memSg, objSg>>, nextHandle' = nextHandle,
         inst' = [inst EXCEPT ![h] = None],
         \A d \in DomainId : secMap'[d] = IF secMap[d] = h THEN None ELSE secMap[d]
  PROVE  SysInv'
PROOF
  <1>1. /\ inst \in [G!Handle -> GP!Group \cup {None}] /\ nextHandle \in Nat
        /\ None \notin G!Handle
    BY GroupFacts, GroupAssumption DEF SysInv
  <1>2. ASSUME NEW g \in G!Handle, inst'[g] # None
        PROVE  IF g < nextHandle THEN inst'[g] = inst[g] ELSE inst'[g].bound = {}
    <2>1. inst'[g] = inst[g]
      BY <1>1, <1>2
    <2>2. g < nextHandle
      BY <1>1, <1>2, <2>1, GroupFacts DEF SysInv, G!Live, G!Handle
    <2> QED BY <2>1, <2>2
  <1>3. ASSUME NEW d \in DomainId
        PROVE  secMap'[d] = IF secMap[d] = None THEN None
                            ELSE IF inst'[secMap[d]] # None THEN secMap[d] ELSE None
    <2>1. secMap[d] # None => secMap[d] \in G!Handle /\ inst[secMap[d]] # None
      BY GroupFacts DEF SysInv, G!Live
    <2>2. secMap[d] # None =>
            inst'[secMap[d]] = IF secMap[d] = h THEN None ELSE inst[secMap[d]]
      BY <1>1, <2>1
    <2> QED BY <1>1, <2>1, <2>2
  <1> QED BY <1>1, <1>2, <1>3, GroupsAlone

\* destroy finds nobody bound, so nobody is mapped; the forced destructions
\* clear the map for everyone bound, and that is everyone mapped.
LEMMA DestroyKeepsSys ==
  ASSUME SysInv, NEW h \in G!Handle, UNCHANGED <<treeVars, memSg, objSg>>,
         \/ \E d \in DomainId : G!Destroy(h, d) \/ G!DestroyForce(h, d)
         \/ G!DestroyConfidential(h)
  PROVE  SysInv'
PROOF
  <1> USE TreeAssumption, GroupAssumption, GroupsFit
  <1>1. h \in GP!Handle
    BY SameGroups
  <1>2. GP!GroupsInv'
    <2>1. [GP!GroupsNext]_(GP!groupVars)
      BY <1>1, SameGroups DEF GP!GroupsNext
    <2> QED BY <2>1, GP!NextKeeps DEF SysInv
  <1>3. G!Live(h) /\ inst' = [inst EXCEPT ![h] = None] /\ nextHandle' = nextHandle
    BY DEF G!Destroy, G!DestroyForce, G!DestroyConfidential
  <1>4. ASSUME NEW d \in DomainId
        PROVE  secMap'[d] = IF secMap[d] = h THEN None ELSE secMap[d]
    <2>1. CASE \E c \in DomainId : G!Destroy(h, c)
      <3>1. secMap' = secMap /\ inst[h].ref = 0
        BY <2>1 DEF G!Destroy
      <3>2. GP!Live(h)
        BY <1>3, SameGroups
      <3>3. secMap[d] # h
        BY <1>1, <3>1, <3>2, GP!UnreferencedUnmapped DEF SysInv
      <3> QED BY <3>1, <3>3
    <2>2. CASE (\E c \in DomainId : G!DestroyForce(h, c)) \/ G!DestroyConfidential(h)
      <3>1. secMap'[d] = IF d \in inst[h].bound THEN None ELSE secMap[d]
        BY <2>2 DEF G!DestroyForce, G!DestroyConfidential, G!MapWithout
      <3>2. d \in inst[h].bound => secMap[d] = h
        BY <1>3 DEF SysInv, BoundMapped
      <3>3. secMap[d] = h => d \in inst[h].bound
        BY GroupFacts DEF SysInv
      <3> QED BY <3>1, <3>2, <3>3
    <2> QED BY <2>1, <2>2
  <1> QED BY <1>2, <1>3, <1>4, DissolveKeepsSys

\* Stores into a DCB and the transfers that involve no group.
LEMMA QuietKeepsSys ==
  ASSUME SysInv, UNCHANGED <<groupVars, objSg>>,
         \/ \E b \in Block, h \in HandleWord : PrepareBlock(b, h)
         \/ Transfer
  PROVE  SysInv'
PROOF
  <1>1. TreeInv'
    <2>1. RootVector \in T!Word
      BY TreeAssumption DEF T!Word
    <2> QED BY <2>1, TreeStepKeeps DEF TreeStep, SysInv, PrepareBlock, Transfer
  <1>2. /\ T!Object' = T!Object /\ heap' = heap /\ registry' = registry
        /\ inst' = inst /\ secMap' = secMap /\ objSg' = objSg /\ nextHandle' = nextHandle
    BY DEF PrepareBlock, Transfer, groupVars, T!PrepareBlock, T!DescendReturn, T!Ascend, T!Object
  <1>3. GP!GroupsInv'
    <2>1. UNCHANGED GP!groupVars
      BY DEF groupVars, GP!groupVars
    <2> QED BY <2>1, GP!NextKeeps, TreeAssumption, GroupAssumption, GroupsFit DEF SysInv
  <1>4. HandlesGiven'
    <2>1. memSg' = memSg \/ \E b \in Block, h \in HandleWord :
                             h < nextHandle /\ memSg' = [memSg EXCEPT ![b] = h]
      BY DEF PrepareBlock, Transfer
    <2> QED BY <1>2, <2>1 DEF SysInv, HandlesGiven
  <1>5. GroupFollowsDomain' /\ ExitForgets' /\ BoundMapped'
    BY <1>2 DEF SysInv, GroupFollowsDomain, ExitForgets, BoundMapped, T!Registered, G!Live
  <1> QED BY <1>1, <1>3, <1>4, <1>5 DEF SysInv

\* The two bindings of a first DESCEND: a live group gains the domain as a
\* member (and counts it twice), a dead handle gains nothing.
LEMMA BoundTwice ==
  ASSUME GP!GroupsInv, NEW h \in G!Handle, NEW d \in DomainId,
         inst' = G!InstBound(G!InstBound(inst, h, d), h, d), secMap' = G!MapBound(h, d),
         UNCHANGED <<idMap, regions, nextHandle>>
  PROVE  /\ GP!GroupsInv'
         /\ IF G!Live(h)
            THEN /\ secMap' = [secMap EXCEPT ![d] = h]
                 /\ \A k \in G!Handle : /\ G!Live(k)' <=> G!Live(k)
                                        /\ k # h => inst'[k] = inst[k]
                 /\ inst'[h].bound = inst[h].bound \cup {d}
            ELSE inst' = inst /\ secMap' = secMap
PROOF
  <1> USE TreeAssumption, GroupAssumption, GroupsFit
  <1>1. /\ inst \in [G!Handle -> GP!Group \cup {None}]
        /\ \A k \in G!Handle : G!Live(k) => inst[k] \in GP!Group
    BY GroupFacts
  <1>2. CASE ~G!Live(h)
    <2>1. inst' = inst /\ secMap' = secMap
      BY <1>2 DEF G!InstBound, G!MapBound, G!Live
    <2>2. UNCHANGED GP!groupVars
      BY <2>1 DEF GP!groupVars
    <2>3. GP!GroupsInv'
      BY <2>2, GP!NextKeeps
    <2> QED BY <1>2, <2>1, <2>3
  <1>3. CASE G!Live(h)
    <2>1. PICK g0 : g0 = inst[h]
      OBVIOUS
    <2>2. /\ g0 \in GP!Group /\ g0.bound \in SUBSET DomainId /\ g0.ref \in Nat
          /\ g0.bound \cup {d} \in SUBSET DomainId
      BY <1>1, <1>3, <2>1 DEF GP!Group
    <2>3. PICK g1, g2 : /\ g1 = GP!WithMembers(g0, g0.bound \cup {d}, g0.ref + 1)
                        /\ g2 = GP!WithMembers(g0, g0.bound \cup {d}, g0.ref + 2)
      OBVIOUS
    <2>4. /\ g1 \in GP!Group /\ g1 # None
          /\ g2 \in GP!Group /\ g2 # None /\ g2.bound = g0.bound \cup {d}
      BY <2>2, <2>3, GP!WithMembersFields
    <2>5. G!InstBound(inst, h, d) = [inst EXCEPT ![h] = g1]
      BY <1>1, <1>3, <2>1, <2>3 DEF G!InstBound, G!Live, GP!WithMembers
    <2>6. [g1 EXCEPT !.bound = @ \cup {d}, !.ref = @ + 1] = g2
      <3>1. g1.bound = g0.bound \cup {d} /\ g1.ref = g0.ref + 1
        BY <2>2, <2>3, GP!WithMembersFields
      <3>2. (g0.bound \cup {d}) \cup {d} = g0.bound \cup {d} /\ g0.ref + 1 + 1 = g0.ref + 2
        BY <2>2
      <3>3. [g1 EXCEPT !.bound = @ \cup {d}, !.ref = @ + 1]
              = [g1 EXCEPT !.bound = g0.bound \cup {d}, !.ref = g0.ref + 2]
        BY <3>1, <3>2
      <3> QED BY <2>2, <2>3, <3>3 DEF GP!Group, GP!WithMembers
    <2>7. inst' = [inst EXCEPT ![h] = g2]
      <3>1. PICK i1 : i1 = [inst EXCEPT ![h] = g1]
        OBVIOUS
      <3>2. i1[h] = g1
        BY <1>1, <3>1
      <3>3. G!InstBound(i1, h, d) =
              [i1 EXCEPT ![h] = [g1 EXCEPT !.bound = @ \cup {d}, !.ref = @ + 1]]
        BY <2>4, <3>2 DEF G!InstBound
      <3>4. [i1 EXCEPT ![h] = g2] = [inst EXCEPT ![h] = g2]
        BY <1>1, <3>1
      <3> QED BY <2>5, <2>6, <3>1, <3>3, <3>4
    <2>8. secMap' = [secMap EXCEPT ![d] = h]
      BY <1>3 DEF G!MapBound
    <2>9. GP!GroupsInv'
      <3>1. h \in GP!Handle /\ GP!Live(h)
        BY <1>3, SameGroups
      <3>2. g0.ref + 2 \in Nat /\ g0.ref + 2 > g0.ref
        BY <2>2
      <3>3. inst' = [inst EXCEPT ![h] =
                       GP!WithMembers(inst[h], inst[h].bound \cup {d}, g0.ref + 2)]
        BY <2>1, <2>3, <2>7
      <3> QED BY <2>1, <2>8, <3>1, <3>2, <3>3, GP!MemberAdded
    <2>10. \A k \in G!Handle : /\ G!Live(k)' <=> G!Live(k)
                               /\ k # h => inst'[k] = inst[k]
      BY <1>1, <1>3, <2>4, <2>7 DEF G!Live
    <2>11. inst'[h].bound = inst[h].bound \cup {d}
      BY <1>1, <2>1, <2>4, <2>7
    <2> QED BY <1>3, <2>8, <2>9, <2>10, <2>11
  <1> QED BY <1>2, <1>3

\* The unbinding of an EXIT.
LEMMA Unbound ==
  ASSUME GP!GroupsInv, NEW h \in G!Handle, NEW d \in DomainId,
         inst' = G!InstUnbound(h, d), secMap' = G!MapUnbound(h, d),
         UNCHANGED <<idMap, regions, nextHandle>>
  PROVE  /\ GP!GroupsInv'
         /\ IF G!Live(h)
            THEN /\ secMap' = [secMap EXCEPT ![d] = None]
                 /\ \A k \in G!Handle : /\ G!Live(k)' <=> G!Live(k)
                                        /\ k # h => inst'[k] = inst[k]
                 /\ inst'[h].bound = inst[h].bound \ {d}
            ELSE inst' = inst /\ secMap' = secMap
PROOF
  <1> USE TreeAssumption, GroupAssumption, GroupsFit
  <1>1. /\ inst \in [G!Handle -> GP!Group \cup {None}]
        /\ \A k \in G!Handle : G!Live(k) => inst[k] \in GP!Group
    BY GroupFacts
  <1>2. CASE ~G!Live(h)
    <2>1. inst' = inst /\ secMap' = secMap
      BY <1>2 DEF G!InstUnbound, G!MapUnbound, G!Live
    <2>2. UNCHANGED GP!groupVars
      BY <2>1 DEF GP!groupVars
    <2>3. GP!GroupsInv'
      BY <2>2, GP!NextKeeps
    <2> QED BY <1>2, <2>1, <2>3
  <1>3. CASE G!Live(h)
    <2>1. h \in GP!Handle /\ GP!Unbind(h, d)
      BY <1>3, SameGroups DEF GP!Unbind
    <2>2. GP!GroupsInv'
      BY <2>1, GP!UnbindKeeps
    <2>3. secMap' = [secMap EXCEPT ![d] = None]
      BY <1>3 DEF G!MapUnbound
    <2>4. PICK g0 : g0 = inst[h]
      OBVIOUS
    <2>5. g0 \in GP!Group /\ g0 # None /\ g0.bound \in SUBSET DomainId /\ g0.ref \in Nat
      BY <1>1, <1>3, <2>4 DEF GP!Group
    <2>6. CASE d \notin g0.bound
      <3>1. inst' = inst
        BY <2>4, <2>6 DEF G!InstUnbound
      <3> QED BY <1>3, <2>2, <2>3, <2>4, <2>5, <2>6, <3>1 DEF G!Live
    <2>7. CASE d \in g0.bound
      <3>1. PICK n : n = IF g0.ref = 0 THEN 0 ELSE g0.ref - 1
        OBVIOUS
      <3>2. n \in Nat /\ g0.bound \ {d} \in SUBSET DomainId
        BY <2>5, <3>1
      <3>3. PICK g1 : g1 = GP!WithMembers(g0, g0.bound \ {d}, n)
        OBVIOUS
      <3>4. g1 # None /\ g1.bound = g0.bound \ {d}
        BY <2>5, <3>2, <3>3, GP!WithMembersFields
      <3>5. inst' = [inst EXCEPT ![h] = g1]
        BY <1>1, <1>3, <2>4, <2>5, <2>7, <3>1, <3>3 DEF G!InstUnbound, GP!WithMembers
      <3>6. \A k \in G!Handle : /\ G!Live(k)' <=> G!Live(k)
                                /\ k # h => inst'[k] = inst[k]
        BY <1>1, <1>3, <3>4, <3>5 DEF G!Live
      <3>7. inst'[h].bound = inst[h].bound \ {d}
        BY <1>1, <2>4, <3>4, <3>5
      <3> QED BY <1>3, <2>2, <2>3, <3>6, <3>7
    <2> QED BY <2>6, <2>7
  <1> QED BY <1>2, <1>3

\* A first DESCEND: the new id is unknown to the controller, and afterwards it
\* is bound to the group of the DCB if that group lives.
LEMMA FirstKeepsSys ==
  ASSUME SysInv, NEW b \in Block, DescendFirst(b)
  PROVE  SysInv'
PROOF
  <1> USE TreeAssumption, GroupAssumption, GroupsFit
  <1> DEFINE d == nextId
             h == GroupFor(b)
  <1>1. T!DescendFirst(b) /\ TreeInv /\ b \in T!Addr
    BY DEF DescendFirst, SysInv, T!Addr
  <1>2. TreeInv'
    BY <1>1, TreeStepKeeps DEF TreeStep
  <1>3. /\ T!Object' = T!Object \cup {nObj} /\ nObj \notin T!Object /\ heap'[nObj].id = d
        /\ \A o \in T!Object :
             /\ heap'[o].id = heap[o].id
             /\ registry'[heap'[o].addr] = o <=> T!Registered(o)
        /\ registry'[heap'[nObj].addr] = nObj /\ d \in DomainId
        /\ \A o \in T!Object : T!Registered(o) => heap[o].id \in DomainId /\ heap[o].id # d
    <2>1. /\ \A o \in T!Object : T!Registered(o) => heap[o].id \in DomainId /\ heap[o].id < d
          /\ d \in Nat /\ nObj \notin T!Object
      BY <1>1, LiveDomains
    <2>2. \A i \in DomainId : i < d => i # d
      BY <2>1 DEF DomainId
    <2> HIDE DEF d
    <2> QED BY <1>1, <2>1, <2>2, FirstAdds DEF d
  <1>4. h \in G!Handle /\ h < nextHandle
    <2>1. current \in T!Object
      BY <1>1, LiveDomains
    <2>2. G!RootHandle \in G!Handle /\ G!RootHandle < nextHandle
      BY GroupFacts DEF SysInv, G!RootHandle
    <2> QED BY <1>1, <2>1, <2>2 DEF GroupFor, SysInv, HandlesGiven, HandleWord
  <1>5. secMap[d] = None /\ \A g \in G!Handle : G!Live(g) => d \notin inst[g].bound
    BY <1>3 DEF SysInv, ExitForgets
  <1> HIDE DEF d
  <1>6. /\ inst' = G!InstBound(G!InstBound(inst, h, d), h, d) /\ secMap' = G!MapBound(h, d)
        /\ memSg' = [memSg EXCEPT ![b] = h]
        /\ objSg' = [o \in 0 .. nObj |-> IF o = nObj THEN h ELSE objSg[o]]
        /\ UNCHANGED <<idMap, regions, nextHandle>>
    BY DEF DescendFirst, d
  <1> HIDE DEF h
  <1>7. /\ secMap \in [DomainId -> G!Handle \cup {None}]
        /\ None \notin G!Handle /\ NoHandle \notin G!Handle /\ nextHandle \in Nat
    BY GroupFacts DEF SysInv
  <1>8. /\ GP!GroupsInv'
        /\ IF G!Live(h)
           THEN /\ secMap' = [secMap EXCEPT ![d] = h]
                /\ \A k \in G!Handle : /\ G!Live(k)' <=> G!Live(k)
                                       /\ k # h => inst'[k] = inst[k]
                /\ inst'[h].bound = inst[h].bound \cup {d}
           ELSE inst' = inst /\ secMap' = secMap
    BY <1>3, <1>4, <1>6, BoundTwice DEF SysInv
  <1>9. /\ \A k \in G!Handle : inst'[k] # None <=> G!Live(k)
        /\ \A k \in G!Handle, e \in DomainId :
             e # d => secMap'[e] = secMap[e] /\ (e \in inst'[k].bound <=> e \in inst[k].bound)
        /\ \A k \in G!Handle : G!Live(k) =>
             (d \in inst'[k].bound <=> k = h)
        /\ secMap'[d] = IF G!Live(h) THEN h ELSE None
    <2>1. CASE G!Live(h)
      BY <2>1, <1>3, <1>4, <1>5, <1>7, <1>8 DEF G!Live
    <2>2. CASE ~G!Live(h)
      BY <2>2, <1>5, <1>8 DEF G!Live
    <2> QED BY <2>1, <2>2
  <1>10. /\ objSg'[nObj] = h /\ \A o \in T!Object : objSg'[o] = objSg[o]
         /\ objSg' \in [T!Object' -> HandleWord]
    <2>1. T!Object' = 0 .. nObj /\ \A o \in T!Object : o \in 0 .. nObj
      <3>1. nObj' = nObj + 1 /\ nObj \in Nat
        BY <1>1, LiveDomains DEF T!DescendFirst
      <3> QED BY <3>1 DEF T!Object
    <2>2. nObj \in 0 .. nObj
      BY <1>1, LiveDomains
    <2>3. objSg \in [T!Object -> HandleWord]
      BY DEF SysInv, HandlesGiven
    <2> QED BY <1>3, <1>4, <1>6, <2>1, <2>2, <2>3 DEF HandleWord
  <1>11. HandlesGiven'
    <2>1. memSg' \in [T!Addr -> HandleWord] /\ \A a \in T!Addr : memSg'[a] < nextHandle'
      BY <1>4, <1>6 DEF SysInv, HandlesGiven, HandleWord
    <2>2. \A o \in T!Object' : objSg'[o] < nextHandle'
      BY <1>3, <1>4, <1>6, <1>10 DEF SysInv, HandlesGiven
    <2> QED BY <1>10, <2>1, <2>2 DEF HandlesGiven
  <1>12. GroupFollowsDomain'
    <2> SUFFICES ASSUME NEW o \in T!Object', registry'[heap'[o].addr] = o
                 PROVE  IF objSg'[o] # NoHandle /\ inst'[objSg'[o]] # None
                        THEN /\ secMap'[heap'[o].id] = objSg'[o]
                             /\ heap'[o].id \in inst'[objSg'[o]].bound
                        ELSE secMap'[heap'[o].id] = None
      BY DEF GroupFollowsDomain, G!Live, T!Registered
    <2>1. CASE o = nObj
      <3>1. objSg'[o] = h /\ heap'[o].id = d /\ h # NoHandle
        BY <2>1, <1>3, <1>4, <1>7, <1>10
      <3>2. IF inst'[h] # None THEN secMap'[d] = h /\ d \in inst'[h].bound ELSE secMap'[d] = None
        BY <1>4, <1>9
      <3>3. PICK e, k : e = heap'[o].id /\ k = objSg'[o]
        OBVIOUS
      <3>4. IF inst'[k] # None THEN secMap'[e] = k /\ e \in inst'[k].bound ELSE secMap'[e] = None
        BY <3>1, <3>2, <3>3
      <3>5. k # NoHandle
        BY <3>1, <3>3
      <3> QED BY <3>3, <3>4, <3>5
    <2>2. CASE o # nObj
      <3>1. o \in T!Object /\ T!Registered(o)
        BY <2>2, <1>3
      <3>2. IF objSg[o] # NoHandle /\ G!Live(objSg[o])
            THEN /\ secMap[heap[o].id] = objSg[o]
                 /\ heap[o].id \in inst[objSg[o]].bound
            ELSE secMap[heap[o].id] = None
        BY <3>1 DEF SysInv, GroupFollowsDomain
      <3>3. objSg[o] # NoHandle => objSg[o] \in G!Handle
        BY <3>1 DEF SysInv, HandlesGiven, HandleWord
      <3>4. heap[o].id \in DomainId /\ heap[o].id # d
        BY <3>1, <1>3
      <3>5. heap'[o].id = heap[o].id /\ objSg'[o] = objSg[o]
        BY <3>1, <1>3, <1>10
      <3>6. PICK e, k : e = heap[o].id /\ k = objSg[o]
        OBVIOUS
      <3>7. /\ secMap'[e] = secMap[e]
            /\ k # NoHandle => /\ inst'[k] # None <=> G!Live(k)
                               /\ e \in inst'[k].bound <=> e \in inst[k].bound
        <4>1. secMap'[e] = secMap[e]
          BY <1>4, <1>9, <3>4, <3>6
        <4>2. k # NoHandle => k \in G!Handle
          BY <3>3, <3>6
        <4> QED BY <1>9, <3>4, <3>6, <4>1, <4>2
      <3> QED BY <3>2, <3>5, <3>6, <3>7
    <2> QED BY <2>1, <2>2
  <1>13. ExitForgets'
    <2> SUFFICES ASSUME NEW e \in DomainId,
                        secMap'[e] # None
                          \/ \E k \in G!Handle : inst'[k] # None /\ e \in inst'[k].bound
                 PROVE  \E o \in T!Object' :
                          registry'[heap'[o].addr] = o /\ heap'[o].id = e
      BY DEF ExitForgets, G!Live, T!Registered
    <2>1. CASE e = d
      BY <2>1, <1>3
    <2>2. CASE e # d
      <3>1. secMap[e] # None \/ \E k \in G!Handle : G!Live(k) /\ e \in inst[k].bound
        BY <2>2, <1>4, <1>9
      <3>2. PICK o \in T!Object : T!Registered(o) /\ heap[o].id = e
        BY <3>1 DEF SysInv, ExitForgets
      <3> QED BY <3>2, <1>3
    <2> QED BY <2>1, <2>2
  <1>14. BoundMapped'
    <2> SUFFICES ASSUME NEW k \in G!Handle, NEW e \in DomainId,
                        inst'[k] # None, e \in inst'[k].bound
                 PROVE  secMap'[e] = k
      BY DEF BoundMapped, G!Live
    <2>1. G!Live(k)
      BY <1>9
    <2>2. CASE e = d
      BY <2>1, <2>2, <1>9
    <2>3. CASE e # d
      BY <2>1, <2>3, <1>9 DEF SysInv, BoundMapped
    <2> QED BY <2>2, <2>3
  <1> QED BY <1>2, <1>8, <1>11, <1>12, <1>13, <1>14 DEF SysInv

\* An EXIT: the domain's id leaves the controller's map and every list.
LEMMA ExitKeepsSys ==
  ASSUME SysInv, Exit
  PROVE  SysInv'
PROOF
  <1> USE TreeAssumption, GroupAssumption, GroupsFit
  <1> DEFINE d == heap[current].id
             h == objSg[current]
  <1>1. T!Exit /\ TreeInv
    BY DEF Exit, SysInv
  <1>2. TreeInv'
    BY <1>1, TreeStepKeeps DEF TreeStep
  <1>3. /\ current \in T!Object /\ T!Registered(current) /\ d \in DomainId
        /\ \A o \in T!Object : T!Registered(o) =>
             heap[o].id \in DomainId /\ (heap[o].id = d => o = current)
    BY <1>1, LiveDomains
  <1>4. /\ T!Object' = T!Object
        /\ \A o \in T!Object :
             /\ heap'[o].id = heap[o].id
             /\ registry'[heap'[o].addr] = o <=> T!Registered(o) /\ o # current
    BY <1>1, ExitRemoves
  <1>5. IF h # NoHandle /\ G!Live(h) THEN secMap[d] = h /\ d \in inst[h].bound
        ELSE secMap[d] = None
    BY <1>3 DEF SysInv, GroupFollowsDomain
  <1>6. h \in HandleWord
    BY <1>3 DEF SysInv, HandlesGiven
  <1>7. /\ secMap \in [DomainId -> G!Handle \cup {None}]
        /\ None \notin G!Handle /\ NoHandle \notin G!Handle
    BY GroupFacts DEF SysInv
  <1>8. /\ IF h = NoHandle THEN UNCHANGED <<inst, secMap>>
           ELSE inst' = G!InstUnbound(h, d) /\ secMap' = G!MapUnbound(h, d)
        /\ UNCHANGED <<idMap, regions, nextHandle, memSg, objSg>>
    BY DEF Exit
  <1> HIDE DEF d, h
  \* Nobody but the group the domain is mapped to lists it.
  <1>9. \A k \in G!Handle : G!Live(k) /\ d \in inst[k].bound => secMap[d] = k
    BY <1>3 DEF SysInv, BoundMapped
  <1>10. /\ GP!GroupsInv'
         /\ \A k \in G!Handle : inst'[k] # None <=> G!Live(k)
         /\ \A k \in G!Handle, e \in DomainId :
              e # d => secMap'[e] = secMap[e] /\ (e \in inst'[k].bound <=> e \in inst[k].bound)
         /\ \A k \in G!Handle : G!Live(k) => d \notin inst'[k].bound
         /\ secMap'[d] = None
    <2>1. CASE h = NoHandle
      <3>1. UNCHANGED <<inst, secMap>> /\ UNCHANGED GP!groupVars
        BY <2>1, <1>8 DEF GP!groupVars
      <3>2. GP!GroupsInv'
        BY <3>1, GP!NextKeeps DEF SysInv
      <3>3. secMap[d] = None /\ \A k \in G!Handle : G!Live(k) => d \notin inst[k].bound
        BY <2>1, <1>5, <1>7, <1>9
      <3> QED BY <3>1, <3>2, <3>3 DEF G!Live
    <2>2. CASE h # NoHandle
      <3>1. h \in G!Handle
        BY <2>2, <1>6 DEF HandleWord
      <3>2. /\ GP!GroupsInv'
            /\ IF G!Live(h)
               THEN /\ secMap' = [secMap EXCEPT ![d] = None]
                    /\ \A k \in G!Handle : /\ G!Live(k)' <=> G!Live(k)
                                           /\ k # h => inst'[k] = inst[k]
                    /\ inst'[h].bound = inst[h].bound \ {d}
               ELSE inst' = inst /\ secMap' = secMap
        BY <2>2, <3>1, <1>3, <1>8, Unbound DEF SysInv
      <3>3. CASE G!Live(h)
        <4>1. \A k \in G!Handle : k # h /\ G!Live(k) => d \notin inst[k].bound
          BY <2>2, <3>3, <1>5, <1>9
        <4> QED BY <3>1, <3>2, <3>3, <4>1, <1>3, <1>7 DEF G!Live
      <3>4. CASE ~G!Live(h)
        <4>1. secMap[d] = None /\ \A k \in G!Handle : G!Live(k) => d \notin inst[k].bound
          BY <3>4, <1>5, <1>7, <1>9
        <4> QED BY <3>2, <3>4, <4>1 DEF G!Live
      <3> QED BY <3>3, <3>4
    <2> QED BY <2>1, <2>2
  <1>11. HandlesGiven'
    BY <1>4, <1>8 DEF SysInv, HandlesGiven
  <1>12. GroupFollowsDomain'
    <2> SUFFICES ASSUME NEW o \in T!Object, registry'[heap'[o].addr] = o
                 PROVE  IF objSg[o] # NoHandle /\ inst'[objSg[o]] # None
                        THEN /\ secMap'[heap[o].id] = objSg[o]
                             /\ heap[o].id \in inst'[objSg[o]].bound
                        ELSE secMap'[heap[o].id] = None
      BY <1>4, <1>8 DEF GroupFollowsDomain, G!Live, T!Registered
    <2>1. PICK e, k : e = heap[o].id /\ k = objSg[o]
      OBVIOUS
    <2>2. T!Registered(o) /\ e \in DomainId /\ e # d
      BY <2>1, <1>3, <1>4
    <2>3. IF k # NoHandle /\ G!Live(k) THEN secMap[e] = k /\ e \in inst[k].bound
          ELSE secMap[e] = None
      BY <2>1, <2>2 DEF SysInv, GroupFollowsDomain
    <2>4. k # NoHandle => k \in G!Handle
      BY <2>1 DEF SysInv, HandlesGiven, HandleWord
    <2>5. /\ secMap'[e] = secMap[e]
          /\ k # NoHandle => /\ inst'[k] # None <=> G!Live(k)
                             /\ e \in inst'[k].bound <=> e \in inst[k].bound
      <3>1. secMap'[e] = secMap[e]
        BY <2>2, <1>7, <1>10, GroupFacts DEF SysInv, G!RootHandle
      <3> QED BY <2>2, <2>4, <3>1, <1>10
    <2> QED BY <2>1, <2>3, <2>5
  <1>13. ExitForgets'
    <2> SUFFICES ASSUME NEW e \in DomainId,
                        secMap'[e] # None
                          \/ \E k \in G!Handle : inst'[k] # None /\ e \in inst'[k].bound
                 PROVE  \E o \in T!Object : registry'[heap'[o].addr] = o /\ heap'[o].id = e
      BY <1>4 DEF ExitForgets, G!Live, T!Registered
    <2>1. e # d
      BY <1>10
    <2>2. secMap[e] # None \/ \E k \in G!Handle : G!Live(k) /\ e \in inst[k].bound
      <3>1. secMap'[e] = secMap[e]
        BY <2>1, <1>10, GroupFacts DEF SysInv
      <3> QED BY <2>1, <3>1, <1>10
    <2>3. PICK o \in T!Object : T!Registered(o) /\ heap[o].id = e
      BY <2>2 DEF SysInv, ExitForgets
    <2> QED BY <2>1, <2>3, <1>4 DEF d
  <1>14. BoundMapped'
    <2> SUFFICES ASSUME NEW k \in G!Handle, NEW e \in DomainId,
                        inst'[k] # None, e \in inst'[k].bound
                 PROVE  secMap'[e] = k
      BY DEF BoundMapped, G!Live
    <2>1. G!Live(k) /\ e # d
      BY <1>10
    <2> QED BY <2>1, <1>10 DEF SysInv, BoundMapped
  <1> QED BY <1>2, <1>10, <1>11, <1>12, <1>13, <1>14 DEF SysInv

-----------------------------------------------------------------------------
\* Every step of the system keeps the invariant.
LEMMA SysStep == SysInv /\ [SysNext]_sysVars => SysInv'
PROOF
  <1> SUFFICES ASSUME SysInv, [SysNext]_sysVars PROVE SysInv'
    OBVIOUS
  <1>1. ASSUME NEW b \in Block, NEW h \in HandleWord, PrepareBlock(b, h) PROVE SysInv'
    BY <1>1, QuietKeepsSys DEF PrepareBlock
  <1>2. ASSUME NEW b \in Block, DescendFirst(b) PROVE SysInv'
    BY <1>2, FirstKeepsSys
  <1>3. CASE Exit
    BY <1>3, ExitKeepsSys
  <1>4. CASE Transfer
    BY <1>4, QuietKeepsSys DEF Transfer
  <1>5. CASE Sysop
    <2>1. Caller \in DomainId
      BY LiveDomains DEF SysInv, Caller
    <2>2. ASSUME NEW conf \in BOOLEAN, G!Create(Caller, conf, FALSE) PROVE SysInv'
      BY <1>5, <2>2, CreateKeepsSys DEF Sysop
    <2>3. ASSUME NEW h \in G!Handle, G!Destroy(h, Caller) \/ G!DestroyForce(h, Caller)
          PROVE  SysInv'
      BY <1>5, <2>1, <2>3, DestroyKeepsSys DEF Sysop
    <2> QED BY <1>5, <2>2, <2>3 DEF Sysop
  <1>6. ASSUME NEW h \in G!Handle, NEW d \in DomainId, RequestDestroyConfidential(h, d)
        PROVE  SysInv'
    BY <1>6, DestroyKeepsSys DEF RequestDestroyConfidential
  <1>7. CASE UNCHANGED sysVars
    <2>1. UNCHANGED <<treeVars, memSg, objSg>> /\ UNCHANGED groupVars
      BY <1>7 DEF sysVars
    <2>2. TreeInv'
      BY <2>1, TreeStepKeeps DEF TreeStep, SysInv
    <2>3. GP!GroupsInv'
      <3>1. UNCHANGED GP!groupVars
        BY <2>1 DEF groupVars, GP!groupVars
      <3> QED BY <3>1, GP!NextKeeps, TreeAssumption, GroupAssumption, GroupsFit DEF SysInv
    <2>4. HandlesGiven' /\ GroupFollowsDomain' /\ ExitForgets' /\ BoundMapped'
      BY <2>1 DEF SysInv, treeVars, groupVars, HandlesGiven, GroupFollowsDomain, ExitForgets,
                  BoundMapped, T!Object, T!Registered, G!Live
    <2> QED BY <2>2, <2>3, <2>4 DEF SysInv
  <1> QED BY <1>1, <1>2, <1>3, <1>4, <1>5, <1>6, <1>7 DEF SysNext

LEMMA SysInvAlways == SysSpec => []SysInv
PROOF
  BY InitSys, SysStep, PTL DEF SysSpec

\* Every id that DESCEND binds or EXIT unbinds, that of a domain that lives, is
\* one the controller has an entry for.
LiveIdsKnown == \A o \in T!Object : T!Registered(o) => heap[o].id \in DomainId

\* The composed system keeps the shapes of both halves; an id handed to the
\* controller is always one of its domains (LiveIdsKnown); and every handle in a
\* DCB or a cached DomainBlock is one that create has given out, or none
\* (HandlesGiven).
THEOREM SysTypeCorrect == SysSpec => [](SysTypeOK /\ LiveIdsKnown /\ HandlesGiven)
PROOF
  <1>1. SysInv => SysTypeOK
    <2> SUFFICES ASSUME SysInv PROVE SysTypeOK
      OBVIOUS
    <2>1. T!TypeOK
      <3>1. TP!TypeOK
        BY DEF SysInv, TreeInv, TP!OneChain, TP!Anchored
      <3> QED BY <3>1 DEF TP!TypeOK, T!TypeOK, T!Object, TP!Object, T!Root, TP!Root,
                          T!Domain, TP!Domain, T!Addr, TP!Addr, T!Word, TP!Word, T!Dcb, TP!Dcb
    <2>2. G!GroupsTypeOK
      BY SameGroups DEF SysInv, GP!GroupsInv, GP!GroupsTypeOK, G!GroupsTypeOK, G!Group, GP!Group
    <2> QED BY <2>1, <2>2 DEF SysInv, HandlesGiven, SysTypeOK
  <1>2. SysInv => LiveIdsKnown /\ HandlesGiven
    BY LiveDomains DEF SysInv, LiveIdsKnown
  <1> QED BY <1>1, <1>2, SysInvAlways, PTL

\* Whatever groups are created and destroyed while domains come and go, a live
\* domain is in the group its DCB names, or in none once that group is gone.
THEOREM GroupsFollowDomains == SysSpec => []GroupFollowsDomain
PROOF
  BY SysInvAlways, PTL DEF SysInv

\* After EXIT the domain's id is in no group and in no map.
THEOREM ExitLeavesNoTrace == SysSpec => []ExitForgets
PROOF
  BY SysInvAlways, PTL DEF SysInv

-----------------------------------------------------------------------------
(* What tree and groups promise each on their own holds of them together.  *)

\* What every step of the system does to the tree.
LEMMA SysTakesTreeStep == [SysNext]_sysVars => TreeStep
PROOF
  <1> SUFFICES ASSUME [SysNext]_sysVars PROVE TreeStep
    OBVIOUS
  <1>1. ASSUME NEW b \in Block, NEW h \in HandleWord, PrepareBlock(b, h) PROVE TreeStep
    <2>1. RootVector \in T!Word
      BY TreeAssumption DEF T!Word
    <2> QED BY <1>1, <2>1 DEF PrepareBlock, TreeStep
  <1>2. ASSUME NEW b \in Block, DescendFirst(b) PROVE TreeStep
    BY <1>2 DEF DescendFirst, TreeStep, T!Addr
  <1>3. CASE Exit
    BY <1>3 DEF Exit, TreeStep
  <1>4. CASE Transfer
    BY <1>4 DEF Transfer, TreeStep
  <1>5. CASE UNCHANGED treeVars
    BY <1>5 DEF TreeStep
  <1>6. CASE Sysop
    BY <1>5, <1>6 DEF Sysop
  <1>7. ASSUME NEW h \in G!Handle, NEW d \in DomainId, RequestDestroyConfidential(h, d)
        PROVE  TreeStep
    BY <1>5, <1>7 DEF RequestDestroyConfidential
  <1>8. CASE UNCHANGED sysVars
    BY <1>5, <1>8 DEF sysVars
  <1> QED BY <1>1, <1>2, <1>3, <1>4, <1>6, <1>7, <1>8 DEF SysNext

\* With a security controller attached the domains are still one chain, along
\* which control moves one link at a time (rpa_logic.py:532-739).
THEOREM SysImplementsChain == SysSpec => T!ImplementsChain
PROOF
  <1>1. [SysNext]_sysVars => [TP!Next]_(TP!vars)
    BY SysTakesTreeStep, TreeStepIsNext
  <1>2. SysInit => TP!Init
    BY SameTree DEF SysInit
  <1>3. SysSpec => TP!Spec
    BY <1>1, <1>2, PTL DEF SysSpec, TP!Spec
  <1>4. TP!Spec => TP!ImplementsChain
    <2>1. TP!Disciplined
      BY DEF TP!Disciplined, Conventions
    <2> QED BY <2>1, TP!TreeImplementsChain, TreeAssumption DEF Conventions
  <1>5. TP!ImplementsChain => T!ImplementsChain
    BY PTL DEF T!ImplementsChain, TP!ImplementsChain, T!Addr, TP!Addr,
       T!Chain!ChainSpec, TP!Chain!ChainSpec, T!Chain!ChainInit, TP!Chain!ChainInit,
       T!Chain!ChainNext, TP!Chain!ChainNext, T!Chain!chainVars, TP!Chain!chainVars,
       T!Chain!Enter, TP!Chain!Enter, T!Chain!Resume, TP!Chain!Resume,
       T!Chain!Leave, TP!Chain!Leave, T!Chain!Release, TP!Chain!Release,
       T!Chain!IsLeaf, TP!Chain!IsLeaf
  <1> QED BY <1>3, <1>4, <1>5

\* The invariants of the group controller survive the binding that DESCEND does
\* twice over and the destructions a sysop does under a caller's id: the count
\* covers the bound, the map names members of live groups only, the root group
\* lives (security_group.py:222-515).
THEOREM SysKeepsGroups ==
  SysSpec => [](G!RefCoversBound /\ G!MembershipSound /\ G!RegionsOwned /\ G!RootGroupLives)
PROOF
  <1>1. GP!GroupsInv =>
          G!RefCoversBound /\ G!MembershipSound /\ G!RegionsOwned /\ G!RootGroupLives
    BY SameGroups
       DEF GP!GroupsInv, G!RefCoversBound, GP!RefCoversBound, G!MembershipSound,
           GP!MembershipSound, G!RegionsOwned, GP!RegionsOwned, G!RootGroupLives,
           GP!RootGroupLives, G!Cardinality, GP!Cardinality, G!IsFiniteSet, GP!IsFiniteSet
  <1> QED BY <1>1, SysInvAlways, PTL DEF SysInv

\* The memory of a confidential group is reached by DMA on behalf of live
\* domains only, and only of those whose own DomainBlock names the group.
SealedToLiveDomains ==
  \A h \in G!Handle : G!Live(h) /\ inst[h].confidential =>
    \A d \in DomainId : G!CheckDma(h, d) =>
      \E o \in T!Object : T!Registered(o) /\ heap[o].id = d /\ objSg[o] = h

\* Neither an exited domain's id nor a domain that has drifted from a destroyed
\* group opens a confidential one (security_group.py:517-575).
THEOREM ConfidentialOpensToItsDomains == SysSpec => []SealedToLiveDomains
PROOF
  <1>1. SysInv => SealedToLiveDomains
    <2> SUFFICES ASSUME SysInv, NEW h \in G!Handle, G!Live(h), inst[h].confidential,
                        NEW d \in DomainId, G!CheckDma(h, d)
                 PROVE  \E o \in T!Object :
                          T!Registered(o) /\ heap[o].id = d /\ objSg[o] = h
      BY DEF SealedToLiveDomains
    <2>1. G!GroupOf(d) = h
      BY DEF G!CheckDma
    <2>2. h # G!RootHandle
      BY SameGroups DEF SysInv, GP!GroupsInv, GP!RootGroupLives
    <2>3. secMap[d] = h /\ secMap[d] # None
      BY <2>1, <2>2, GroupFacts DEF G!GroupOf, SysInv
    <2>4. PICK o \in T!Object : T!Registered(o) /\ heap[o].id = d
      BY <2>3 DEF SysInv, ExitForgets
    <2>5. objSg[o] = h
      BY <2>3, <2>4 DEF SysInv, GroupFollowsDomain
    <2> QED BY <2>4, <2>5
  <1> QED BY <1>1, SysInvAlways, PTL

\* Binding and unbinding bring no group to life.
LEMMA BindRevivesNone ==
  ASSUME NEW i, NEW h \in DOMAIN i, i[h] = None, NEW g, NEW d
  PROVE  LET j == G!InstBound(i, g, d) IN h \in DOMAIN j /\ j[h] = None
PROOF
  <1>1. CASE i[g] = None
    BY <1>1 DEF G!InstBound
  <1>2. CASE i[g] # None
    <2>1. g # h
      BY <1>2
    <2>2. PICK r : G!InstBound(i, g, d) = [i EXCEPT ![g] = r]
      BY <1>2 DEF G!InstBound
    <2> QED BY <2>1, <2>2
  <1> QED BY <1>1, <1>2

LEMMA DeadStayDead ==
  ASSUME SysInv, SysNext, NEW h \in G!Handle, h < nextHandle, ~G!Live(h)
  PROVE  inst'[h] = None
PROOF
  <1>1. inst[h] = None /\ DOMAIN inst = G!Handle /\ nextHandle \in Nat /\ h # nextHandle
    BY GroupFacts, GroupAssumption DEF SysInv, G!Live, G!Handle
  <1>2. CASE UNCHANGED groupVars
    BY <1>1, <1>2 DEF groupVars
  <1>3. ASSUME NEW b \in Block, DescendFirst(b) PROVE inst'[h] = None
    <2>1. PICK g, d : inst' = G!InstBound(G!InstBound(inst, g, d), g, d)
      BY <1>3 DEF DescendFirst
    <2>2. PICK j : j = G!InstBound(inst, g, d)
      OBVIOUS
    <2>3. h \in DOMAIN j /\ j[h] = None
      BY <1>1, <2>2, BindRevivesNone
    <2> QED BY <2>1, <2>2, <2>3, BindRevivesNone
  <1>4. CASE Exit
    <2>1. \/ inst' = inst
          \/ \E g, d : inst' = G!InstUnbound(g, d)
      BY <1>4 DEF Exit
    <2>2. ASSUME NEW g, NEW d, inst' = G!InstUnbound(g, d) PROVE inst'[h] = None
      <3>1. CASE G!Live(g) /\ d \in inst[g].bound
        <4>1. g # h
          BY <3>1
        <4>2. PICK r : G!InstUnbound(g, d) = [inst EXCEPT ![g] = r]
          BY <3>1 DEF G!InstUnbound
        <4> QED BY <1>1, <2>2, <4>1, <4>2
      <3>2. CASE ~(G!Live(g) /\ d \in inst[g].bound)
        BY <1>1, <2>2, <3>2 DEF G!InstUnbound
      <3> QED BY <3>1, <3>2
    <2> QED BY <1>1, <2>1, <2>2
  <1>5. ASSUME NEW conf \in BOOLEAN, G!Create(Caller, conf, FALSE) PROVE inst'[h] = None
    BY <1>1, <1>5 DEF G!Create
  <1>6. ASSUME NEW k, inst' = [inst EXCEPT ![k] = None] PROVE inst'[h] = None
    BY <1>1, <1>6
  <1>7. CASE Sysop
    <2>1. ASSUME NEW k, G!Destroy(k, Caller) \/ G!DestroyForce(k, Caller)
          PROVE  inst'[h] = None
      BY <1>6, <2>1 DEF G!Destroy, G!DestroyForce
    <2> QED BY <1>5, <1>7, <2>1 DEF Sysop
  <1>8. ASSUME NEW k, NEW d, RequestDestroyConfidential(k, d) PROVE inst'[h] = None
    BY <1>6, <1>8 DEF RequestDestroyConfidential, G!DestroyConfidential
  <1>9. CASE Transfer \/ \E b \in Block, g \in HandleWord : PrepareBlock(b, g)
    BY <1>2, <1>9 DEF Transfer, PrepareBlock
  <1> QED BY <1>3, <1>4, <1>7, <1>8, <1>9 DEF SysNext

\* A handle some DCB still names after its group is gone is never the handle
\* of another group, whoever creates and enters domains meanwhile
\* (security_group.py:236-238).
THEOREM SysHandlesStayDead == SysSpec => G!HandlesNotReused
PROOF
  <1> DEFINE Same == \A h \in G!Handle : h < nextHandle /\ ~G!Live(h) => inst'[h] = None
  <1>1. SysInv /\ [SysNext]_sysVars => [Same]_(G!groupVars)
    <2>1. UNCHANGED sysVars => UNCHANGED G!groupVars
      BY DEF sysVars, groupVars, G!groupVars
    <2>2. ASSUME SysInv, SysNext PROVE Same
      BY <2>2, DeadStayDead
    <2> HIDE DEF Same
    <2> QED BY <2>1, <2>2
  <1> QED BY <1>1, SysInvAlways, PTL DEF SysSpec, G!HandlesNotReused
=============================================================================
