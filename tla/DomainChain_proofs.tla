-------------------------- MODULE DomainChain_proofs --------------------------
(***************************************************************************)
(* Proofs about the domain tree of software that follows both conventions, *)
(* for any blocks, vectors and number of domains.                          *)
(***************************************************************************)
EXTENDS DomainTree_proofs

\* The parts of the inductive invariant, over the registered objects: what
\* ChainLinked, ViewsAgree and DistinctIds say, without "Disciplined =>".
ParentsLive ==
  \A o \in Object \ {Root} : Registered(o) =>
    /\ Registered(heap[o].parent)
    /\ heap[heap[o].parent].child = heap[o].addr

ChildrenLive ==
  \A o \in Object : Registered(o) /\ heap[o].child # Zero =>
    /\ registry[heap[o].child] # None
    /\ heap[registry[heap[o].child]].parent = o

MemoryAgrees ==
  \A o \in Object : Registered(o) =>
    /\ mem[heap[o].addr].child = heap[o].child
    /\ mem[heap[o].addr].id = heap[o].id

IdsOnce ==
  /\ heap[Root].id = 0
  /\ \A o \in Object : Registered(o) =>
       /\ heap[o].id < nextId
       /\ \A q \in Object : Registered(q) /\ heap[q].id = heap[o].id => q = o

\* A block no live domain occupies names no child, so the object made from it
\* at a first DESCEND caches none.
FreshClean == \A a \in Addr : registry[a] = None => mem[a].child = Zero

OneChain ==
  /\ Anchored
  /\ Registered(current)
  /\ ParentsLive
  /\ ChildrenLive
  /\ MemoryAgrees
  /\ IdsOnce
  /\ FreshClean

LEMMA InitOneChain == Init => OneChain
PROOF
  <1> SUFFICES ASSUME Init PROVE OneChain
    OBVIOUS
  <1>1. Anchored
    BY InitAnchored
  <1>2. Object = {Root} /\ Registered(Root) /\ current = Root /\ heap[Root].addr = Zero
    BY DEF Init, Object, Root, Registered, Addr
  <1>3. heap[Root].id = 0 /\ heap[Root].child = Zero /\ nextId = 1
    BY DEF Init
  <1>4. \A a \in Addr : mem[a].child = Zero /\ mem[a].id = 0
    BY DEF Init, EmptyDcb
  <1> QED BY <1>1, <1>2, <1>3, <1>4
          DEF OneChain, ParentsLive, ChildrenLive, MemoryAgrees, IdsOnce, FreshClean, Addr

\* RETURN: the child resumed is a registered one.
LEMMA ReturnOneChain ==
  ASSUME OneChain, Anchored', NEW b \in Addr, DescendReturn(b)
  PROVE  OneChain'
PROOF
  <1>1. Registered(current)'
    BY DEF OneChain, Anchored, TypeOK, RegistryAnchored, DescendReturn, Registered
  <1> QED BY <1>1 DEF OneChain, ParentsLive, ChildrenLive, MemoryAgrees, IdsOnce,
                      FreshClean, DescendReturn, Registered, Object

\* ascend: the parent of a registered object is registered.
LEMMA AscendOneChain ==
  ASSUME OneChain, Anchored', Ascend
  PROVE  OneChain'
PROOF
  <1>1. current \in Object \ {Root}
    BY DEF OneChain, Anchored, TypeOK, RegistryAnchored, Ascend
  <1>2. Registered(current)'
    BY <1>1 DEF OneChain, ParentsLive, Ascend, Registered
  <1> QED BY <1>2 DEF OneChain, ParentsLive, ChildrenLive, MemoryAgrees, IdsOnce,
                      FreshClean, Ascend, Registered, Object

\* The software's own writes touch the block of no live domain, or only the
\* trap vector of one.
LEMMA WriteOneChain ==
  ASSUME OneChain, Anchored',
         \/ \E b \in Block, v \in Word : registry[b] = None /\ PrepareBlock(b, v)
         \/ \E v \in Word : WriteTrapVector(v)
  PROVE  OneChain'
PROOF
  <1>1. /\ \A a \in Addr : registry[a] # None =>
             mem'[a].child = mem[a].child /\ mem'[a].id = mem[a].id
        /\ \A a \in Addr : mem[a].child = Zero => mem'[a].child = Zero
    <2>1. ASSUME NEW b \in Block, NEW v \in Word, registry[b] = None, PrepareBlock(b, v)
          PROVE  <1>1!1 /\ <1>1!2
      BY <2>1 DEF OneChain, Anchored, TypeOK, Dcb, PrepareBlock, EmptyDcb, Addr
    <2>2. ASSUME NEW v \in Word, WriteTrapVector(v)
          PROVE  <1>1!1 /\ <1>1!2
      BY <2>2 DEF OneChain, Anchored, TypeOK, Dcb, WriteTrapVector
    <2> QED BY <2>1, <2>2
  <1>2. UNCHANGED <<heap, nObj, registry, current, nextId>>
    BY DEF PrepareBlock, WriteTrapVector
  <1>3. \A o \in Object : Registered(o) =>
          heap[o].addr \in Addr /\ registry[heap[o].addr] # None
    BY NoneAssumption DEF OneChain, Anchored, TypeOK, Domain, Registered, Object
  <1>4. Registered(current)' /\ ParentsLive' /\ ChildrenLive' /\ IdsOnce'
    BY <1>2 DEF OneChain, ParentsLive, ChildrenLive, IdsOnce, Registered, Object
  <1>5. MemoryAgrees'
    BY <1>1, <1>2, <1>3 DEF OneChain, MemoryAgrees, Registered, Object
  <1>6. FreshClean'
    BY <1>1, <1>2 DEF OneChain, FreshClean
  <1> QED BY <1>4, <1>5, <1>6 DEF OneChain

\* A DESCEND to a fresh block adds one object at the end of the chain.
LEMMA FirstOneChain ==
  ASSUME OneChain, Anchored', NEW b \in Addr, registry[b] = None, DescendFirst(b)
  PROVE  OneChain'
PROOF
  <1> USE NoneAssumption
  <1>1. PICK new : new = nObj
    OBVIOUS
  <1>2. /\ new \in Nat /\ Object' = Object \cup {new} /\ new \notin Object /\ new # Root
        /\ current \in Object /\ current' = new
        /\ nextId \in Nat /\ nextId' = nextId + 1
        /\ b # Zero /\ heap[current].child = Zero /\ registry[heap[current].addr] = current
    BY <1>1 DEF OneChain, Anchored, TypeOK, Object, Root, DescendFirst, Registered
  <1>3. /\ \A a \in Addr : registry[a] \in Object \cup {None} /\ None \notin Object
        /\ \A a \in Addr : registry'[a] = IF a = b THEN new ELSE registry[a]
    BY <1>1 DEF OneChain, Anchored, TypeOK, DescendFirst, Object
  <1>4. heap'[new] = ReadBlock(b, nextId)
    BY <1>1, <1>2 DEF DescendFirst, Grow
  <1>5. \A o \in Object :
          /\ heap[o] \in Domain
          /\ heap'[o] = IF o = current THEN [heap[o] EXCEPT !.child = b] ELSE heap[o]
    BY <1>1, <1>2 DEF OneChain, Anchored, TypeOK, DescendFirst, Grow, Object
  <1>6. \A o \in Object :
          /\ heap[o].addr \in Addr /\ heap[o].child \in Addr /\ heap[o].id \in Nat
          /\ heap'[o].addr = heap[o].addr
          /\ heap'[o].parent = heap[o].parent
          /\ heap'[o].id = heap[o].id
          /\ heap'[o].child = IF o = current THEN b ELSE heap[o].child
    BY <1>5 DEF Domain
  <1>7. /\ heap'[new].addr = b /\ heap'[new].parent = current
        /\ heap'[new].id = nextId /\ heap'[new].child = Zero
    BY <1>4 DEF ReadBlock, OneChain, FreshClean
  <1>8. /\ heap[current].addr # b /\ heap[current].addr \in Addr
        /\ \A a \in Addr :
             /\ mem'[a].child = IF a = heap[current].addr THEN b ELSE mem[a].child
             /\ mem'[a].id = IF a = b THEN nextId ELSE mem[a].id
    BY <1>2, <1>3, <1>6 DEF OneChain, Anchored, TypeOK, Dcb, DescendFirst
  <1>9. /\ \A o \in Object : Registered(o)' <=> Registered(o)
        /\ \A o \in Object : Registered(o) => heap[o].addr # b
        /\ registry'[heap'[new].addr] = new
    BY <1>2, <1>3, <1>6, <1>7 DEF Registered
  <1>10. Registered(current)'
    BY <1>2, <1>9 DEF Registered
  <1>11. ParentsLive'
    <2> SUFFICES ASSUME NEW o \in Object' \ {Root}, Registered(o)'
                 PROVE  /\ Registered(heap[o].parent)'
                        /\ heap'[heap'[o].parent].child = heap'[o].addr
      BY DEF ParentsLive
    <2>1. CASE o = new
      BY <2>1, <1>2, <1>3, <1>6, <1>7, <1>8, <1>9 DEF Registered
    <2>2. CASE o \in Object
      <3>1. heap[o].parent \in Object
        BY <2>2 DEF OneChain, Anchored, TypeOK, RegistryAnchored, Object, Root
      <3>2. Registered(heap[o].parent) /\ heap[heap[o].parent].child = heap[o].addr
        BY <2>2, <1>9 DEF OneChain, ParentsLive
      <3>3. heap[o].addr # Zero /\ heap[o].parent # current
        BY <2>2, <3>2, <1>2 DEF OneChain, Anchored, RealAddresses
      <3> QED BY <2>2, <3>1, <3>2, <3>3, <1>6, <1>9 DEF Registered
    <2> QED BY <2>1, <2>2, <1>2
  <1>12. ChildrenLive'
    <2> SUFFICES ASSUME NEW o \in Object', Registered(o)', heap'[o].child # Zero
                 PROVE  /\ registry'[heap'[o].child] # None
                        /\ heap'[registry'[heap'[o].child]].parent = o
      BY DEF ChildrenLive
    <2>1. o \in Object
      BY <1>2, <1>7
    <2>2. CASE o = current
      BY <2>2, <1>2, <1>3, <1>6, <1>7
    <2>3. CASE o # current
      <3>1. /\ heap[o].child \in Addr /\ heap'[o].child = heap[o].child
            /\ registry[heap[o].child] # None
            /\ heap[registry[heap[o].child]].parent = o
        BY <2>1, <2>3, <1>6, <1>9 DEF OneChain, ChildrenLive
      <3>2. heap[o].child # b /\ registry[heap[o].child] \in Object
        BY <3>1, <1>3
      <3> QED BY <3>1, <3>2, <1>3, <1>6
    <2> QED BY <2>2, <2>3
  <1>13. MemoryAgrees'
    <2> SUFFICES ASSUME NEW o \in Object', Registered(o)'
                 PROVE  /\ mem'[heap'[o].addr].child = heap'[o].child
                        /\ mem'[heap'[o].addr].id = heap'[o].id
      BY DEF MemoryAgrees
    <2>1. CASE o = new
      BY <2>1, <1>7, <1>8 DEF OneChain, FreshClean
    <2>2. CASE o \in Object
      <3>1. /\ heap[o].addr \in Addr /\ heap[o].addr # b
            /\ mem[heap[o].addr].child = heap[o].child
            /\ mem[heap[o].addr].id = heap[o].id
            /\ heap[o].addr = heap[current].addr => o = current
        BY <2>2, <1>2, <1>6, <1>9 DEF OneChain, MemoryAgrees, Registered
      <3> QED BY <2>2, <3>1, <1>6, <1>8
    <2> QED BY <2>1, <2>2, <1>2
  <1>14. IdsOnce'
    <2>1. heap'[Root].id = 0
      BY <1>2, <1>6 DEF OneChain, Anchored, TypeOK, IdsOnce
    <2>2. \A o \in Object : Registered(o)' => heap'[o].id < nextId
      BY <1>6, <1>9 DEF OneChain, IdsOnce
    <2>3. ASSUME NEW o \in Object', Registered(o)'
          PROVE  /\ heap'[o].id < nextId'
                 /\ \A q \in Object' : Registered(q)' /\ heap'[q].id = heap'[o].id => q = o
      <3>1. CASE o = new
        BY <3>1, <2>2, <1>2, <1>6, <1>7
      <3>2. CASE o \in Object
        <4>1. \A q \in Object : Registered(q)' /\ heap'[q].id = heap'[o].id => q = o
          BY <3>2, <2>3, <1>6, <1>9 DEF OneChain, IdsOnce
        <4>2. heap'[o].id < nextId /\ heap'[o].id \in Nat
          BY <3>2, <2>2, <2>3, <1>6
        <4> QED BY <4>1, <4>2, <1>2, <1>7
      <3> QED BY <3>1, <3>2, <1>2
    <2> QED BY <2>1, <2>3 DEF IdsOnce
  <1>15. FreshClean'
    BY <1>2, <1>3, <1>8 DEF OneChain, FreshClean
  <1> QED BY <1>10, <1>11, <1>12, <1>13, <1>14, <1>15 DEF OneChain

\* EXIT of a leaf takes the last link off the chain.
LEMMA ExitOneChain ==
  ASSUME OneChain, Anchored', Exit, heap[current].child = Zero
  PROVE  OneChain'
PROOF
  <1> USE NoneAssumption
  <1>1. PICK p, b, me : p = heap[current].parent /\ b = heap[current].addr /\ me = current
    OBVIOUS
  <1>A. /\ p # None /\ nObj' = nObj /\ current' = p /\ nextId' = nextId
        /\ heap' = [heap EXCEPT ![p].child = Zero, ![me].bid = 0]
        /\ mem' = [mem EXCEPT ![heap[p].addr].child = Zero, ![b].id = 0]
        /\ registry' = [registry EXCEPT ![b] = None]
    BY <1>1 DEF Exit
  <1>B. /\ heap \in [Object -> Domain] /\ mem \in [Addr -> Dcb]
        /\ registry \in [Addr -> Object \cup {None}] /\ None \notin Object
        /\ me \in Object /\ Root \in Object
        /\ \A o \in Object : o # Root => heap[o].parent \in Object /\ heap[o].parent # o
        /\ heap[Root].parent = None
    <2>1. TypeOK /\ RegistryAnchored /\ Registered(current)
      BY DEF OneChain, Anchored
    <2>2. me \in Object
      BY <1>1, <2>1 DEF TypeOK
    <2>3. /\ heap \in [Object -> Domain] /\ mem \in [Addr -> Dcb]
          /\ registry \in [Addr -> Object \cup {None}] /\ None \notin Object
          /\ Root \in Object
      BY <2>1 DEF TypeOK, Object, Root
    <2>4. heap[Root].parent = None
      BY <2>1, <2>3 DEF RegistryAnchored
    <2>5. ASSUME NEW o \in Object, o # Root
          PROVE  heap[o].parent \in Object /\ heap[o].parent # o
      <3>1. heap[o].parent \in 0 .. o - 1
        BY <2>1, <2>5 DEF RegistryAnchored
      <3> QED BY <3>1, <2>1, <2>5 DEF TypeOK, Object
    <2> QED BY <2>2, <2>3, <2>4, <2>5
  <1>2. /\ Object' = Object /\ current' = p /\ nextId' = nextId
        /\ me \in Object \ {Root} /\ p \in Object /\ p # me
        /\ b \in Addr /\ b # Zero /\ registry[b] = me
    <2>1. Object' = Object
      BY <1>A DEF Object
    <2>2. me # Root /\ p \in Object /\ p # me
      BY <1>1, <1>A, <1>B
    <2>3. b \in Addr /\ b # Zero /\ registry[b] = me
      BY <1>1, <1>B, <2>2 DEF OneChain, Anchored, RealAddresses, Registered, Domain
    <2> QED BY <1>A, <1>B, <2>1, <2>2, <2>3
  <1>3. /\ registry[heap[p].addr] = p /\ heap[p].child = b
        /\ heap[p].addr \in Addr /\ heap[p].addr # b
    BY <1>1, <1>2 DEF OneChain, ParentsLive, Registered, Anchored, TypeOK, Domain
  <1>4. /\ \A a \in Addr : registry[a] \in Object \cup {None} /\ None \notin Object
        /\ \A a \in Addr : registry'[a] = IF a = b THEN None ELSE registry[a]
    BY <1>A, <1>B
  <1>5. /\ heap \in [Object -> Domain]
        /\ heap' = [heap EXCEPT ![p].child = Zero, ![me].bid = 0]
    BY <1>A, <1>B
  <1>6. \A o \in Object :
          /\ heap[o].addr \in Addr /\ heap[o].child \in Addr /\ heap[o].id \in Nat
          /\ heap'[o].addr = heap[o].addr
          /\ heap'[o].parent = heap[o].parent
          /\ heap'[o].id = heap[o].id
          /\ heap'[o].child = IF o = p THEN Zero ELSE heap[o].child
    BY <1>2, <1>5 DEF Domain
  <1>7. \A a \in Addr :
          /\ mem'[a].child = IF a = heap[p].addr THEN Zero ELSE mem[a].child
          /\ mem'[a].id = IF a = b THEN 0 ELSE mem[a].id
    BY <1>2, <1>3, <1>A, <1>B DEF Dcb
  <1>8. /\ \A o \in Object : Registered(o) /\ heap[o].addr = b => o = me
        /\ \A o \in Object : Registered(o)' <=> Registered(o) /\ o # me
    <2>1. \A o \in Object : Registered(o) /\ heap[o].addr = b => o = me
      BY <1>2 DEF Registered
    <2>2. heap[me].addr = b
      BY <1>1
    <2>3. \A o \in Object : Registered(o)' <=> registry'[heap[o].addr] = o
      BY <1>6 DEF Registered
    <2> QED BY <1>2, <1>4, <1>6, <2>1, <2>2, <2>3 DEF Registered
  <1>9. Registered(current)'
    BY <1>2, <1>3, <1>4, <1>6 DEF Registered
  <1>10. ParentsLive'
    <2> SUFFICES ASSUME NEW o \in Object \ {Root}, Registered(o)'
                 PROVE  /\ Registered(heap[o].parent)'
                        /\ heap'[heap'[o].parent].child = heap'[o].addr
      BY <1>2 DEF ParentsLive
    <2>1. /\ heap[o].parent \in Object /\ Registered(o) /\ o # me
          /\ Registered(heap[o].parent) /\ heap[heap[o].parent].child = heap[o].addr
      BY <1>8, <1>B DEF OneChain, ParentsLive
    <2>2. heap[o].parent # me /\ heap[o].parent # p
      BY <2>1, <1>1, <1>3, <1>8 DEF OneChain, Anchored, RealAddresses
    <2> QED BY <2>1, <2>2, <1>6, <1>8 DEF Registered
  <1>11. ChildrenLive'
    <2> SUFFICES ASSUME NEW o \in Object, Registered(o)', heap'[o].child # Zero
                 PROVE  /\ registry'[heap'[o].child] # None
                        /\ heap'[registry'[heap'[o].child]].parent = o
      BY <1>2 DEF ChildrenLive
    <2>1. /\ o # p /\ heap[o].child \in Addr /\ heap'[o].child = heap[o].child
          /\ registry[heap[o].child] # None
          /\ heap[registry[heap[o].child]].parent = o
      BY <1>6, <1>8 DEF OneChain, ChildrenLive
    <2>2. heap[o].child # b /\ registry[heap[o].child] \in Object
      BY <2>1, <1>1, <1>2, <1>4
    <2> QED BY <2>1, <2>2, <1>4, <1>6
  <1>12. MemoryAgrees'
    <2> SUFFICES ASSUME NEW o \in Object, Registered(o)'
                 PROVE  /\ mem'[heap'[o].addr].child = heap'[o].child
                        /\ mem'[heap'[o].addr].id = heap'[o].id
      BY <1>2 DEF MemoryAgrees
    <2>1. /\ heap[o].addr \in Addr /\ heap[o].addr # b
          /\ mem[heap[o].addr].child = heap[o].child
          /\ mem[heap[o].addr].id = heap[o].id
          /\ heap[o].addr = heap[p].addr <=> o = p
      BY <1>2, <1>3, <1>6, <1>8 DEF OneChain, MemoryAgrees, Registered
    <2> QED BY <2>1, <1>6, <1>7
  <1>13. IdsOnce'
    BY <1>2, <1>6, <1>8 DEF OneChain, IdsOnce, Anchored, TypeOK
  <1>14. FreshClean'
    <2>1. mem[b].child = Zero
      BY <1>1, <1>2 DEF OneChain, MemoryAgrees
    <2> QED BY <2>1, <1>4, <1>7 DEF OneChain, FreshClean
  <1> QED BY <1>9, <1>10, <1>11, <1>12, <1>13, <1>14 DEF OneChain

\* DESCEND never finds its child lost from the registry.
LEMMA NeverRebuilds ==
  ASSUME OneChain, NEW b \in Addr, DescendRebuild(b)
  PROVE  FALSE
PROOF
  <1>1. current \in Object /\ Registered(current) /\ b # Zero
    BY NoneAssumption DEF OneChain, Anchored, TypeOK, RegistryAnchored, DescendRebuild, Root
  <1> QED BY <1>1 DEF OneChain, ChildrenLive, DescendRebuild

LEMMA NextOneChain ==
  ASSUME Disciplined, OneChain, [Next]_vars
  PROVE  OneChain'
PROOF
  <1>0. Anchored'
    BY NextAnchored DEF OneChain
  <1>1. ASSUME NEW b \in Block, NEW v \in Word, PrepareBlock(b, v) PROVE OneChain'
    BY <1>0, <1>1, WriteOneChain DEF Disciplined, FreshBlock, PrepareBlock
  <1>2. ASSUME NEW v \in Word, WriteTrapVector(v) PROVE OneChain'
    BY <1>0, <1>2, WriteOneChain
  <1>3. ASSUME NEW b \in Addr, DescendReturn(b) PROVE OneChain'
    BY <1>0, <1>3, ReturnOneChain
  <1>4. ASSUME NEW b \in Addr, DescendRebuild(b) PROVE OneChain'
    BY <1>4, NeverRebuilds
  <1>5. ASSUME NEW b \in Addr, DescendFirst(b) PROVE OneChain'
    BY <1>0, <1>5, FirstOneChain DEF Disciplined, FreshBlock, DescendFirst
  <1>6. ASSUME UNCHANGED vars PROVE OneChain'
    BY <1>0, <1>6 DEF OneChain, ParentsLive, ChildrenLive, MemoryAgrees, IdsOnce,
                      FreshClean, Registered, Object, vars
  <1>7. ASSUME NEW b \in Addr \cup BadBlock, DescendRefused(b) PROVE OneChain'
    BY <1>6, <1>7 DEF DescendRefused
  <1>8. CASE Ascend
    BY <1>0, <1>8, AscendOneChain
  <1>9. CASE Exit
    BY <1>0, <1>9, ExitOneChain DEF Disciplined, LeafExit, Exit
  <1>10. CASE AscendAtRoot
    BY <1>6, <1>10 DEF AscendAtRoot
  <1>11. ASSUME NEW installed \in BOOLEAN, Fault(installed) PROVE OneChain'
    BY <1>6, <1>8, <1>10, <1>11 DEF Fault
  <1> QED BY <1>1, <1>2, <1>3, <1>4, <1>5, <1>6, <1>7, <1>8, <1>9, <1>10, <1>11 DEF Next

LEMMA OneChainAlways == ASSUME Disciplined PROVE Spec => []OneChain
PROOF
  <1>1. OneChain /\ [Next]_vars => OneChain'
    BY NextOneChain
  <1> QED BY <1>1, InitOneChain, PTL DEF Spec

-----------------------------------------------------------------------------
\* Software that follows the conventions never gets an ascend that lands in an
\* object EXIT has thrown away: every live domain hangs below a live parent
\* (rpa_logic.py:673-724).
THEOREM ChainStaysLinked == Spec => []ChainLinked
PROOF
  <1>1. CASE Disciplined
    <2>1. OneChain => ChainLinked
      BY DEF OneChain, ParentsLive, ChainLinked
    <2> QED BY <1>1, <2>1, OneChainAlways, PTL
  <1>2. CASE ~Disciplined
    <2>1. ChainLinked
      BY <1>2 DEF ChainLinked
    <2> QED BY <2>1, PTL
  <1> QED BY <1>1, <1>2

\* Under the conventions the control blocks in memory and the objects that
\* cache them stay in agreement, and a child_block names a live child
\* (rpa_logic.py:567-671, 694-713).
THEOREM ViewsStayInAgreement == Spec => []ViewsAgree
PROOF
  <1>1. CASE Disciplined
    <2>1. OneChain => ViewsAgree
      BY DEF OneChain, ChildrenLive, MemoryAgrees, ViewsAgree
    <2> QED BY <1>1, <2>1, OneChainAlways, PTL
  <1>2. CASE ~Disciplined
    <2>1. ViewsAgree
      BY <1>2 DEF ViewsAgree
    <2> QED BY <2>1, PTL
  <1> QED BY <1>1, <1>2

\* Under the conventions no two live domains share an id, whatever ids the
\* control blocks of exited domains still hold (rpa_logic.py:629-631).
THEOREM IdsStayDistinct == Spec => []DistinctIds
PROOF
  <1>1. CASE Disciplined
    <2>1. OneChain => DistinctIds
      BY DEF OneChain, IdsOnce, DistinctIds
    <2> QED BY <1>1, <2>1, OneChainAlways, PTL
  <1>2. CASE ~Disciplined
    <2>1. DistinctIds
      BY <1>2 DEF DistinctIds
    <2> QED BY <2>1, PTL
  <1> QED BY <1>1, <1>2

\* Two live domains at one depth are one: their parents are (by induction on
\* the depth), and a domain names a single child.
LEMMA OneDomainPerDepth ==
  ASSUME OneChain,
         NEW o \in Object, NEW q \in Object,
         Registered(o), Registered(q), GetDepth[o] = GetDepth[q]
  PROVE  o = q
PROOF
  <1> DEFINE S == {n \in Nat : \A x, y \in Object :
                     Registered(x) /\ Registered(y) /\ GetDepth[x] = n /\ GetDepth[y] = n
                       => x = y}
  <1>1. \A x \in Object :
          /\ GetDepth[x] \in Nat
          /\ GetDepth[x] = IF heap[x].parent = None THEN 0 ELSE 1 + GetDepth[heap[x].parent]
    BY DepthFollowsParents DEF OneChain
  <1>2. \A x \in Object : x # Root => heap[x].parent \in Object
    BY DEF OneChain, Anchored, TypeOK, RegistryAnchored, Object, Root
  <1>3. heap[Root].parent = None /\ \A x \in Object : x # Root => heap[x].parent # None
    BY <1>2, NoneAssumption DEF OneChain, Anchored, TypeOK, RegistryAnchored, Object
  <1>4. 0 \in S
    <2> SUFFICES ASSUME NEW x \in Object, GetDepth[x] = 0 PROVE x = Root
      OBVIOUS
    <2> QED BY <1>1, <1>2, <1>3
  <1>5. \A n \in Nat : n \in S => n + 1 \in S
    <2> SUFFICES ASSUME NEW n \in Nat, n \in S, NEW x \in Object, NEW y \in Object,
                        Registered(x), Registered(y),
                        GetDepth[x] = n + 1, GetDepth[y] = n + 1
                 PROVE  x = y
      OBVIOUS
    <2>1. \A u, v \in Object :
            Registered(u) /\ Registered(v) /\ GetDepth[u] = n /\ GetDepth[v] = n => u = v
      OBVIOUS
    <2> HIDE DEF S
    <2>2. \A z \in Object : GetDepth[z] = n + 1 =>
            z # Root /\ heap[z].parent \in Object /\ GetDepth[heap[z].parent] = n
      BY <1>1, <1>2, <1>3
    <2>3. /\ Registered(heap[x].parent) /\ heap[heap[x].parent].child = heap[x].addr
          /\ Registered(heap[y].parent) /\ heap[heap[y].parent].child = heap[y].addr
      BY <2>2 DEF OneChain, ParentsLive
    <2>4. heap[x].parent = heap[y].parent
      BY <2>1, <2>2, <2>3
    <2> QED BY <2>3, <2>4 DEF Registered
  <1>6. GetDepth[o] \in S
    <2> HIDE DEF S
    <2> QED BY <1>1, <1>4, <1>5, CountingUp
  <1> QED BY <1>6

\* Under the conventions there is one live domain per privilege level, as the
\* hardware's one control block per core and level needs (rpa_logic.py:426, 454).
THEOREM OneLivePerLevel == Spec => []OnePerLevel
PROOF
  <1>1. CASE Disciplined
    <2>1. OneChain => OnePerLevel
      BY OneDomainPerDepth DEF OnePerLevel
    <2> QED BY <1>1, <2>1, OneChainAlways, PTL
  <1>2. CASE ~Disciplined
    <2>1. OnePerLevel
      BY <1>2 DEF OnePerLevel
    <2> QED BY <2>1, PTL
  <1> QED BY <1>1, <1>2

\* get_domain_by_id finds the one live domain that has the id.
LEMMA FindsById ==
  ASSUME OneChain, NEW c \in Object, Registered(c)
  PROVE  GetDomainById(heap[c].id) = c
PROOF
  <1> DEFINE found == {o \in Object : Registered(o) /\ heap[o].id = heap[c].id}
  <1>1. found = {c}
    BY DEF OneChain, IdsOnce
  <1>2. GetDomainById(heap[c].id) =
          IF found = {} THEN None ELSE IF Root \in found THEN Root ELSE CHOOSE o \in found : TRUE
    BY DEF GetDomainById
  <1> HIDE DEF found
  <1>3. CASE c = Root
    BY <1>1, <1>2, <1>3
  <1>4. CASE c # Root
    <2>1. found # {} /\ Root \notin found
      BY <1>1, <1>4
    <2>2. (CHOOSE o \in found : TRUE) \in found
      BY <2>1
    <2> QED BY <1>1, <1>2, <2>1, <2>2
  <1> QED BY <1>3, <1>4

\* Under the conventions verify_parent_child answers exactly by the parent
\* references of the live domains (rpa_logic.py:783-825).
THEOREM HierarchyStaysExact == Spec => []HierarchyExact
PROOF
  <1>1. CASE Disciplined
    <2>1. ASSUME OneChain, NEW p \in Object \ {Root}, NEW c \in Object \ {Root},
                 Registered(p), Registered(c)
          PROVE  VerifyParentChild(heap[p].id, heap[c].id) <=> heap[c].parent = p
      <3>1. /\ Root \in Object /\ Registered(Root) /\ heap[Root].id = 0
        BY <2>1, NoneAssumption
           DEF OneChain, Anchored, TypeOK, RegistryAnchored, IdsOnce, Registered, Addr, Root
      <3>2. heap[p].id # 0
        BY <2>1, <3>1 DEF OneChain, IdsOnce
      <3>3. GetDomainById(heap[c].id) = c /\ c # None
        BY <2>1, FindsById, NoneAssumption DEF OneChain, Anchored, TypeOK, Object
      <3>4. heap[c].parent \in Object /\ heap[c].parent # None /\ Registered(heap[c].parent)
        BY <2>1, NoneAssumption
           DEF OneChain, ParentsLive, Anchored, TypeOK, RegistryAnchored, Object, Root
      <3>5. heap[heap[c].parent].id = heap[p].id <=> heap[c].parent = p
        BY <2>1, <3>4 DEF OneChain, IdsOnce
      <3> QED BY <3>2, <3>3, <3>4, <3>5 DEF VerifyParentChild
    <2>2. OneChain => HierarchyExact
      BY <2>1 DEF HierarchyExact
    <2> QED BY <1>1, <2>2, OneChainAlways, PTL
  <1>2. CASE ~Disciplined
    <2>1. HierarchyExact
      BY <1>2 DEF HierarchyExact
    <2> QED BY <2>1, PTL
  <1> QED BY <1>1, <1>2

\* Under the conventions a suspended domain stays registered until it runs
\* again and exits (rpa_logic.py:570-580, 663, 713).
THEOREM OnlyOwnExitDrops == Spec => OnlyOwnExit
PROOF
  <1> DEFINE Drops == \A a \in Addr : registry[a] # None /\ registry'[a] # registry[a] =>
                        registry[a] = current /\ current' = heap[current].parent
  <1>1. ASSUME Disciplined, OneChain, [Next]_vars PROVE Drops
    <2>1. registry \in [Addr -> Object \cup {None}] /\ heap[current].addr \in Addr
      BY <1>1 DEF OneChain, Anchored, TypeOK, Domain
    <2>2. CASE Exit
      BY <1>1, <2>1, <2>2 DEF Exit, OneChain, Registered
    <2>3. CASE \E b \in Addr : DescendFirst(b)
      BY <1>1, <2>1, <2>3 DEF DescendFirst, Disciplined, FreshBlock
    <2>4. CASE \E b \in Addr : DescendRebuild(b)
      BY <2>1, <2>4 DEF DescendRebuild
    <2>5. CASE UNCHANGED registry
      BY <2>5
    <2> QED BY <1>1, <2>2, <2>3, <2>4, <2>5
            DEF Next, vars, PrepareBlock, WriteTrapVector, DescendReturn, DescendRefused,
                Ascend, AscendAtRoot, Fault
  <1>2. CASE Disciplined
    <2>1. OneChain /\ [Next]_vars => [Disciplined => Drops]_vars
      BY <1>1, <1>2
    <2>2. Spec => []OneChain
      BY <1>2, OneChainAlways
    <2> QED BY <2>1, <2>2, PTL DEF OnlyOwnExit, Spec
  <1>3. CASE ~Disciplined
    <2>1. [Next]_vars => [Disciplined => Drops]_vars
      BY <1>3
    <2> QED BY <2>1, PTL DEF OnlyOwnExit, Spec
  <1> QED BY <1>2, <1>3

-----------------------------------------------------------------------------
(* The tree implements the chain.                                          *)

\* Every object lives at an address; only the root's is 0.
LEMMA ObjectFacts ==
  ASSUME Anchored
  PROVE  /\ current \in Object /\ Root \in Object /\ None \notin Object
         /\ \A a \in Addr : registry[a] \in Object \cup {None}
         /\ \A a \in Addr : registry[a] # None =>
              Registered(registry[a]) /\ heap[registry[a]].addr = a
         /\ heap[Root].addr = Zero /\ heap[Root].parent = None
         /\ \A o \in Object : heap[o].addr \in Addr
         /\ \A o \in Object \ {Root} : heap[o].addr \in Block /\ heap[o].parent \in Object
PROOF
  <1> USE NoneAssumption
  <1>1. current \in Object /\ Root \in Object /\ None \notin Object
    BY DEF Anchored, TypeOK, Object
  <1>2. \A a \in Addr : registry[a] \in Object \cup {None}
    BY DEF Anchored, TypeOK
  <1>3. \A a \in Addr : registry[a] # None =>
          Registered(registry[a]) /\ heap[registry[a]].addr = a
    BY DEF Anchored, RegistryAnchored, Registered
  <1>4. heap[Root].addr = Zero /\ heap[Root].parent = None
    BY <1>1 DEF Anchored, RegistryAnchored, Addr
  <1>5. \A o \in Object : heap[o].addr \in Addr
    BY DEF Anchored, TypeOK, Domain
  <1>6. \A o \in Object \ {Root} : heap[o].addr \in Block /\ heap[o].parent \in Object
    BY <1>5 DEF Anchored, TypeOK, RegistryAnchored, RealAddresses, Addr, Object, Root
  <1> QED BY <1>1, <1>2, <1>3, <1>4, <1>5, <1>6

\* A domain without a child is the leaf of the chain.
LEMMA ChildlessIsLeaf ==
  ASSUME OneChain, heap[current].child = Zero
  PROVE  Chain!IsLeaf(heap[current].addr)
PROOF
  <1> SUFFICES ASSUME NEW a \in Block, a # Zero, registry[a] # None,
                      heap[heap[registry[a]].parent].addr = heap[current].addr
               PROVE  FALSE
    BY DEF Chain!IsLeaf, Addr
  <1>1. /\ registry[a] \in Object \ {Root} /\ Registered(registry[a])
        /\ heap[registry[a]].addr = a
    BY ObjectFacts DEF OneChain, Addr
  <1>2. /\ Registered(heap[registry[a]].parent)
        /\ heap[heap[registry[a]].parent].child = a
    BY <1>1 DEF OneChain, ParentsLive
  <1>3. heap[registry[a]].parent = current
    BY <1>2 DEF OneChain, Registered
  <1> QED BY <1>2, <1>3

\* The steps that change the chain keep every object at its address, under
\* its parent.
LEMMA PlacesKept ==
  ASSUME Anchored,
         Exit \/ \E b \in Addr : DescendFirst(b)
  PROVE  \A o \in Object : heap'[o].addr = heap[o].addr /\ heap'[o].parent = heap[o].parent
PROOF
  <1> USE DEF Anchored, TypeOK, Domain
  <1>1. CASE Exit
    <2>1. PICK p : p = heap[current].parent
      OBVIOUS
    <2>2. p \in Object
      BY <1>1, <2>1, ObjectFacts DEF Exit
    <2>3. heap' = [heap EXCEPT ![p].child = Zero, ![current].bid = 0]
      BY <1>1, <2>1 DEF Exit
    <2> QED BY <2>2, <2>3
  <1>2. ASSUME NEW b \in Addr, DescendFirst(b)
        PROVE  \A o \in Object : /\ heap'[o].addr = heap[o].addr
                                /\ heap'[o].parent = heap[o].parent
    <2>1. \A o \in Object :
            heap'[o] = IF o = current THEN [heap[o] EXCEPT !.child = b] ELSE heap[o]
      BY <1>2 DEF DescendFirst, Grow, Object
    <2> QED BY <2>1
  <1> QED BY <1>1, <1>2

LEMMA FirstEnters ==
  ASSUME OneChain, NEW b \in Addr, registry[b] = None, DescendFirst(b)
  PROVE  Chain!Enter(b) /\ b \in Block
PROOF
  <1> USE NoneAssumption
  <1>1. PICK new : new = nObj
    OBVIOUS
  <1>2. /\ b \in Block /\ b # Zero /\ current' = new
        /\ new \notin Object /\ new # None
        /\ \A a \in Addr : registry'[a] = IF a = b THEN new ELSE registry[a]
    BY <1>1 DEF OneChain, Anchored, TypeOK, Object, DescendFirst, Addr
  <1>3. heap'[new].addr = b /\ heap'[new].parent = current
    BY <1>1 DEF OneChain, Anchored, TypeOK, DescendFirst, Grow, ReadBlock
  <1>4. b \notin {a \in Addr : registry[a] # None}
    OBVIOUS
  <1>5. Chain!IsLeaf(heap[current].addr)
    BY ChildlessIsLeaf DEF DescendFirst
  <1>6. {a \in Addr : registry'[a] # None} = {a \in Addr : registry[a] # None} \cup {b}
    BY <1>2
  <1>7. ASSUME NEW a \in Block
        PROVE  (IF registry'[a] = None THEN Zero ELSE heap'[heap'[registry'[a]].parent].addr)
               = IF a = b THEN heap[current].addr
                 ELSE IF registry[a] = None THEN Zero ELSE heap[heap[registry[a]].parent].addr
    <2>1. CASE a = b
      BY <2>1, <1>2, <1>3, ObjectFacts, PlacesKept DEF OneChain
    <2>2. CASE a # b /\ registry[a] = None
      BY <2>2, <1>2 DEF Addr
    <2>3. CASE a # b /\ registry[a] # None
      <3>1. a \in Addr /\ registry'[a] = registry[a] /\ a # Zero
        BY <2>3, <1>2, AddressAssumption DEF Addr
      <3>2. registry[a] \in Object \ {Root} /\ heap[registry[a]].parent \in Object
        BY <2>3, <3>1, ObjectFacts DEF OneChain
      <3> QED BY <2>3, <3>1, <3>2, PlacesKept DEF OneChain
    <2> QED BY <2>1, <2>2, <2>3
  <1>8. heap'[current'].addr = b
    BY <1>2, <1>3
  <1> QED BY <1>2, <1>4, <1>5, <1>6, <1>7, <1>8 DEF Chain!Enter

LEMMA ReturnResumes ==
  ASSUME OneChain, NEW b \in Addr, b # Zero, DescendReturn(b)
  PROVE  Chain!Resume(b) /\ b \in Block
PROOF
  <1>1. /\ b \in Block /\ registry[b] # None /\ heap[current].child = b
        /\ current' = registry[b] /\ UNCHANGED <<heap, registry>>
    BY DEF DescendReturn, Addr
  <1>2. heap[registry[b]].parent = current /\ heap[registry[b]].addr = b
    BY <1>1, ObjectFacts DEF OneChain, ChildrenLive
  <1> QED BY <1>1, <1>2 DEF Chain!Resume

LEMMA AscendLeaves ==
  ASSUME OneChain, Ascend
  PROVE  Chain!Leave
PROOF
  <1>1. /\ current \in Object \ {Root} /\ heap[current].addr \in Block
        /\ registry[heap[current].addr] = current /\ current # None
    BY ObjectFacts DEF OneChain, Ascend, Registered
  <1>2. heap[current].addr # Zero
    BY <1>1, AddressAssumption
  <1> QED BY <1>1, <1>2 DEF Chain!Leave, Ascend

LEMMA ExitReleases ==
  ASSUME OneChain, Exit, heap[current].child = Zero
  PROVE  Chain!Release
PROOF
  <1>1. PICK p, b : p = heap[current].parent /\ b = heap[current].addr
    OBVIOUS
  <1>2. /\ current \in Object \ {Root} /\ p \in Object /\ b \in Block /\ b # Zero
        /\ registry[b] = current /\ current # None
    BY <1>1, ObjectFacts, AddressAssumption DEF OneChain, Exit, Registered
  <1>3. /\ current' = p
        /\ \A a \in Addr : registry'[a] = IF a = b THEN None ELSE registry[a]
    BY <1>1 DEF OneChain, Anchored, TypeOK, Exit
  <1>4. Chain!IsLeaf(b)
    BY <1>1, ChildlessIsLeaf
  <1>5. {a \in Addr : registry'[a] # None} = {a \in Addr : registry[a] # None} \ {b}
    BY <1>3
  <1>6. ASSUME NEW a \in Block
        PROVE  (IF registry'[a] = None THEN Zero ELSE heap'[heap'[registry'[a]].parent].addr)
               = IF a = b THEN Zero
                 ELSE IF registry[a] = None THEN Zero ELSE heap[heap[registry[a]].parent].addr
    <2>1. CASE a = b \/ registry[a] = None
      BY <2>1, <1>3 DEF Addr
    <2>2. CASE a # b /\ registry[a] # None
      <3>1. a \in Addr /\ registry'[a] = registry[a] /\ a # Zero
        BY <2>2, <1>3, AddressAssumption DEF Addr
      <3>2. registry[a] \in Object \ {Root} /\ heap[registry[a]].parent \in Object
        BY <2>2, <3>1, ObjectFacts DEF OneChain
      <3> QED BY <2>2, <3>1, <3>2, PlacesKept DEF OneChain
    <2> QED BY <2>1, <2>2
  <1>7. heap'[current'].addr = heap[p].addr
    BY <1>2, <1>3, PlacesKept DEF OneChain
  <1> QED BY <1>1, <1>2, <1>4, <1>5, <1>6, <1>7 DEF Chain!Release

\* The tree of disciplined software is a chain: each DESCEND, ASCEND and EXIT
\* is the chain's Enter or Resume, Leave or Release, and no other step of the
\* tree moves the chain (rpa_logic.py:532-739).
THEOREM TreeImplementsChain == ASSUME Disciplined PROVE Spec => ImplementsChain
PROOF
  <1>1. Init => Chain!ChainInit
    <2>1. ASSUME Init PROVE Chain!ChainInit
      <3>1. \A a \in Addr : registry[a] # None <=> a = Zero
        BY <2>1, NoneAssumption DEF Init, Root
      <3>2. \A a \in Block : a \in Addr /\ a # Zero
        BY AddressAssumption DEF Addr
      <3>3. heap[current].addr = Zero
        BY <2>1 DEF Init, Root
      <3> QED BY <3>1, <3>2, <3>3 DEF Chain!ChainInit, Addr
    <2> QED BY <2>1
  <1>2. ASSUME OneChain, [Next]_vars PROVE [Chain!ChainNext]_(Chain!chainVars)
    <2>1. ASSUME NEW b \in Addr, DescendReturn(b) PROVE Chain!ChainNext
      BY <1>2, <2>1, ReturnResumes DEF Chain!ChainNext, Disciplined, RealBlock, DescendReturn
    <2>2. ASSUME NEW b \in Addr, DescendFirst(b) PROVE Chain!ChainNext
      BY <1>2, <2>2, FirstEnters DEF Chain!ChainNext, Disciplined, FreshBlock, DescendFirst
    <2>3. CASE \E b \in Addr : DescendRebuild(b)
      BY <1>2, <2>3, NeverRebuilds
    <2>4. CASE Ascend
      BY <1>2, <2>4, AscendLeaves DEF Chain!ChainNext
    <2>5. CASE Exit
      BY <1>2, <2>5, ExitReleases DEF Chain!ChainNext, Disciplined, LeafExit, Exit
    <2>6. CASE UNCHANGED <<heap, registry, current>>
      BY <2>6 DEF Chain!chainVars
    <2> QED BY <1>2, <2>1, <2>2, <2>3, <2>4, <2>5, <2>6
            DEF Next, vars, PrepareBlock, WriteTrapVector, DescendRefused, AscendAtRoot, Fault
  <1>3. OneChain /\ [Next]_vars => [Chain!ChainNext]_(Chain!chainVars)
    BY <1>2
  <1> QED BY <1>1, <1>3, OneChainAlways, PTL DEF Spec, ImplementsChain, Chain!ChainSpec
=============================================================================
