-------------------------- MODULE DomainTree_proofs --------------------------
(***************************************************************************)
(* Proofs about DomainTree, for any blocks, vectors and number of domains. *)
(*                                                                         *)
(* The first part assumes nothing of the software (any Conventions); the   *)
(* second part is about software that follows both conventions.            *)
(***************************************************************************)
EXTENDS DomainTree, WellFoundedInduction, TLAPS

\* A control block at address 0 belongs to the root alone.  With it
\* RegistryAnchored is inductive: an EXIT never takes the root's entry away.
RealAddresses == \A o \in Object \ {Root} : heap[o].addr # Zero

Anchored == TypeOK /\ RegistryAnchored /\ RealAddresses

\* What the two actions that create an object do to the invariant: the new
\* object hangs below the current one and is filed under its own address.
LEMMA GrowAnchored ==
  ASSUME Anchored,
         NEW b \in Addr, NEW id \in Nat, b # Zero,
         heap' = Grow(b, ReadBlock(b, id)),
         nObj' = nObj + 1,
         registry' = [registry EXCEPT ![b] = nObj],
         current' = nObj,
         mem' \in [Addr -> Dcb],
         nextId' \in Nat
  PROVE  Anchored'
PROOF
  <1> DEFINE new == ReadBlock(b, id)
  <1> USE NoneAssumption
  <1>1. nObj \in Nat /\ nObj' \in Nat /\ Object' = Object \cup {nObj} /\ nObj \notin Object
    BY DEF Anchored, TypeOK, Object
  <1>2. new \in Domain /\ new.addr = b /\ new.parent = current
    BY DEF Anchored, TypeOK, Domain, Dcb, ReadBlock, Object
  <1>3. /\ heap' \in [Object' -> Domain]
        /\ heap'[nObj] = new
        /\ \A o \in Object : /\ heap'[o].addr = heap[o].addr
                             /\ heap'[o].parent = heap[o].parent
    <2> HIDE DEF new
    <2>1. heap' = [o \in 0 .. nObj |-> IF o = nObj THEN new
                     ELSE IF o = current THEN [heap[o] EXCEPT !.child = b] ELSE heap[o]]
      BY DEF Grow, new
    <2>2. Object' = 0 .. nObj
      BY <1>1 DEF Object
    <2>3. \A o \in Object : heap[o] \in Domain /\ [heap[o] EXCEPT !.child = b] \in Domain
      BY DEF Anchored, TypeOK, Domain
    <2>4. \A o \in Object : o \in 0 .. nObj /\ o # nObj
      BY <1>1 DEF Object
    <2>5. heap' \in [Object' -> Domain]
      BY <1>1, <1>2, <2>1, <2>2, <2>3
    <2>6. heap'[nObj] = new
      BY <1>1, <2>1
    <2>7. ASSUME NEW o \in Object
          PROVE  heap'[o].addr = heap[o].addr /\ heap'[o].parent = heap[o].parent
      <3>1. CASE o = current
        <4>1. heap'[o] = [heap[o] EXCEPT !.child = b]
          BY <3>1, <2>1, <2>4
        <4> QED BY <4>1, <2>3 DEF Domain
      <3>2. CASE o # current
        BY <3>2, <2>1, <2>4
      <3> QED BY <3>1, <3>2
    <2> QED BY <2>5, <2>6, <2>7
  <1> HIDE DEF new
  <1>4. registry' \in [Addr -> Object' \cup {None}]
    BY <1>1 DEF Anchored, TypeOK
  <1>5. TypeOK'
    BY <1>1, <1>3, <1>4 DEF Anchored, TypeOK, Root, Object
  <1>6. RegistryAnchored'
    <2>1. registry'[Zero] = Root
      BY DEF Anchored, TypeOK, RegistryAnchored, Addr
    <2>2. \A a \in Addr : registry'[a] # None => heap'[registry'[a]].addr = a
      BY <1>1, <1>2, <1>3 DEF Anchored, TypeOK, RegistryAnchored
    <2>3. \A o \in Object' : IF o = Root THEN heap'[o].parent = None
                             ELSE heap'[o].parent \in 0 .. o - 1
      <3>1. nObj # Root /\ current \in 0 .. nObj - 1
        BY <1>1 DEF Anchored, TypeOK, Root, Object
      <3>2. heap'[nObj].parent \in 0 .. nObj - 1
        BY <1>2, <1>3, <3>1
      <3>3. \A o \in Object : IF o = Root THEN heap'[o].parent = None
                             ELSE heap'[o].parent \in 0 .. o - 1
        BY <1>3 DEF Anchored, RegistryAnchored
      <3> QED BY <1>1, <3>1, <3>2, <3>3
    <2> QED BY <2>1, <2>2, <2>3 DEF RegistryAnchored
  <1>7. RealAddresses'
    BY <1>1, <1>2, <1>3 DEF Anchored, RealAddresses
  <1> QED BY <1>5, <1>6, <1>7 DEF Anchored

LEMMA InitAnchored == Init => Anchored
PROOF
  <1> SUFFICES ASSUME Init PROVE Anchored
    OBVIOUS
  <1> USE NoneAssumption, AddressAssumption, RootVectorAssumption
      DEF Init, Root, Object, Addr, Word
  <1>1. Object = {Root} /\ nObj = 1
    OBVIOUS
  <1>2. heap \in [Object -> Domain]
    BY <1>1 DEF Domain
  <1>3. mem \in [Addr -> Dcb]
    BY DEF EmptyDcb, Dcb
  <1>4. TypeOK
    BY <1>1, <1>2, <1>3 DEF TypeOK
  <1>5. RegistryAnchored
    BY <1>1 DEF RegistryAnchored
  <1>6. RealAddresses
    BY <1>1 DEF RealAddresses
  <1> QED BY <1>4, <1>5, <1>6 DEF Anchored

\* ascend, plain or from fault: control goes to an object older than this one.
LEMMA AscendAnchored == Anchored /\ Ascend => Anchored'
PROOF
  <1> SUFFICES ASSUME Anchored, Ascend PROVE Anchored'
    OBVIOUS
  <1>1. heap[current].parent \in Object
    BY DEF Anchored, TypeOK, RegistryAnchored, Ascend, Object, Root
  <1>2. TypeOK'
    BY <1>1 DEF Anchored, TypeOK, Ascend, Object
  <1>3. RegistryAnchored' /\ RealAddresses'
    BY DEF Anchored, RegistryAnchored, RealAddresses, Ascend, Object
  <1> QED BY <1>2, <1>3 DEF Anchored

LEMMA ExitAnchored == Anchored /\ Exit => Anchored'
PROOF
  <1> SUFFICES ASSUME Anchored, Exit PROVE Anchored'
    OBVIOUS
  <1> DEFINE p == heap[current].parent
             b == heap[current].addr
  <1>1. p \in Object /\ current \in Object /\ current # Root
    <2>1. current \in Object /\ p # None
      BY DEF Anchored, TypeOK, Exit
    <2>2. current # Root
      BY <2>1 DEF Anchored, RegistryAnchored
    <2>3. heap[current].parent \in 0 .. current - 1
      BY <2>1, <2>2 DEF Anchored, RegistryAnchored
    <2> QED BY <2>1, <2>2, <2>3 DEF Anchored, TypeOK, Object
  <1>2. b \in Addr /\ b # Zero /\ heap[p].addr \in Addr /\ Zero \in Addr
    BY <1>1 DEF Anchored, TypeOK, RealAddresses, Domain, Addr
  <1>3. /\ heap' = [heap EXCEPT ![p].child = Zero, ![current].bid = 0]
        /\ mem' = [mem EXCEPT ![heap[p].addr].child = Zero, ![b].id = 0]
        /\ registry' = [registry EXCEPT ![b] = None]
        /\ current' = p /\ nObj' = nObj /\ nextId' = nextId /\ Object' = Object
    BY DEF Exit, Object
  <1> HIDE DEF p, b
  <1>4. /\ heap' \in [Object -> Domain]
        /\ \A o \in Object : /\ heap'[o].addr = heap[o].addr
                             /\ heap'[o].parent = heap[o].parent
    <2>1. heap \in [Object -> Domain]
      BY DEF Anchored, TypeOK
    <2>2. Zero \in Word /\ Zero \in Addr
      BY DEF Word, Addr
    <2> QED BY <1>1, <1>2, <1>3, <2>1, <2>2 DEF Domain
  <1>5. mem' \in [Addr -> Dcb]
    BY <1>2, <1>3 DEF Anchored, TypeOK, Dcb
  <1>6. registry' \in [Addr -> Object \cup {None}]
    BY <1>3 DEF Anchored, TypeOK
  <1>7. TypeOK'
    BY <1>1, <1>3, <1>4, <1>5, <1>6 DEF Anchored, TypeOK
  <1>8. RegistryAnchored'
    BY <1>2, <1>3, <1>4, NoneAssumption DEF Anchored, TypeOK, RegistryAnchored
  <1>9. RealAddresses'
    BY <1>3, <1>4 DEF Anchored, RealAddresses
  <1> QED BY <1>7, <1>8, <1>9 DEF Anchored

\* Every step keeps the invariant: one case per action of the tree.
LEMMA NextAnchored == Anchored /\ [Next]_vars => Anchored'
PROOF
  <1> SUFFICES ASSUME Anchored, [Next]_vars PROVE Anchored'
    OBVIOUS
  <1>1. ASSUME NEW b \in Block, NEW v \in Word, PrepareBlock(b, v) PROVE Anchored'
    <2>1. mem' \in [Addr -> Dcb]
      BY <1>1 DEF Anchored, TypeOK, PrepareBlock, EmptyDcb, Dcb, Addr
    <2>2. TypeOK'
      BY <1>1, <2>1 DEF Anchored, TypeOK, PrepareBlock, Object
    <2> QED BY <1>1, <2>2
            DEF Anchored, RegistryAnchored, RealAddresses, PrepareBlock, Object
  <1>2. ASSUME NEW v \in Word, WriteTrapVector(v) PROVE Anchored'
    <2>1. mem' \in [Addr -> Dcb]
      BY <1>2 DEF Anchored, TypeOK, WriteTrapVector, Dcb, Domain
    <2>2. TypeOK'
      BY <1>2, <2>1 DEF Anchored, TypeOK, WriteTrapVector, Object
    <2> QED BY <1>2, <2>2
            DEF Anchored, RegistryAnchored, RealAddresses, WriteTrapVector, Object
  <1>3. ASSUME NEW b \in Addr, DescendReturn(b) PROVE Anchored'
    <2>1. TypeOK'
      BY <1>3 DEF Anchored, TypeOK, DescendReturn, Object
    <2> QED BY <1>3, <2>1
            DEF Anchored, RegistryAnchored, RealAddresses, DescendReturn, Object
  <1>4. ASSUME NEW b \in Addr, DescendRebuild(b) PROVE Anchored'
    <2>1. b # Zero
      BY <1>4, NoneAssumption DEF Anchored, RegistryAnchored, DescendRebuild, Root
    <2>2. mem[b].id \in Nat /\ mem' \in [Addr -> Dcb] /\ nextId' \in Nat
      BY <1>4 DEF Anchored, TypeOK, DescendRebuild, Dcb
    <2> QED BY <1>4, <2>1, <2>2, GrowAnchored DEF DescendRebuild
  <1>5. ASSUME NEW b \in Addr, DescendFirst(b) PROVE Anchored'
    <2>1. nextId \in Nat /\ nextId' \in Nat
      BY <1>5 DEF Anchored, TypeOK, DescendFirst
    <2>2. mem' \in [Addr -> Dcb]
      BY <1>5, <2>1 DEF Anchored, TypeOK, DescendFirst, Dcb, Domain
    <2> QED BY <1>5, <2>1, <2>2, GrowAnchored DEF DescendFirst
  <1>6. ASSUME UNCHANGED vars PROVE Anchored'
    BY <1>6 DEF Anchored, TypeOK, RegistryAnchored, RealAddresses, Object, vars
  <1>7. ASSUME NEW b \in Addr \cup BadBlock, DescendRefused(b) PROVE Anchored'
    BY <1>6, <1>7 DEF DescendRefused
  <1>8. CASE Ascend
    BY <1>8, AscendAnchored
  <1>9. CASE Exit
    BY <1>9, ExitAnchored
  <1>10. CASE AscendAtRoot
    BY <1>6, <1>10 DEF AscendAtRoot
  <1>11. ASSUME NEW installed \in BOOLEAN, Fault(installed) PROVE Anchored'
    BY <1>6, <1>8, <1>10, <1>11 DEF Fault
  <1> QED BY <1>1, <1>2, <1>3, <1>4, <1>5, <1>6, <1>7, <1>8, <1>9, <1>10, <1>11 DEF Next

LEMMA AnchoredAlways == Spec => []Anchored
PROOF
  <1> QED BY InitAnchored, NextAnchored, PTL DEF Spec

\* Whatever the software does, the tree's tables keep their shape
\* (RPALogic.descend, ascend and fault, rpa_logic.py:532-739).
THEOREM TypeCorrect == Spec => []TypeOK
PROOF
  <1>1. Anchored => TypeOK
    BY DEF Anchored
  <1> QED BY <1>1, AnchoredAlways, PTL

\* Whatever the software does, the registry files every object under its own
\* address, the root is never lost, and the walks along the parent references
\* (get_depth, get_domain_path_to_root) end at the root.
THEOREM RegistryStaysAnchored == Spec => []RegistryAnchored
PROOF
  <1>1. Anchored => RegistryAnchored
    BY DEF Anchored
  <1> QED BY <1>1, AnchoredAlways, PTL
-----------------------------------------------------------------------------
(* The depth of a domain.                                                  *)

\* Induction on the natural numbers, as a fact about sets of them.
LEMMA CountingUp ==
  ASSUME NEW S, 0 \in S, \A n \in Nat : n \in S => n + 1 \in S
  PROVE  \A n \in Nat : n \in S
PROOF
  <1> DEFINE R == {ss \in Nat \X Nat : ss[1] < ss[2]}
             T == {n \in Nat : n \notin S}
  <1> SUFFICES ASSUME T # {} PROVE FALSE
    OBVIOUS
  <1>1. IsWellFoundedOn(R, Nat)
    BY NatLessThanWellFounded DEF OpToRel
  <1>2. T \subseteq Nat
    OBVIOUS
  <1> HIDE DEF R, T
  <1>3. PICK x \in T : \A y \in T : <<y, x>> \notin R
    BY <1>1, <1>2, WFMin
  <1>4. x \in Nat /\ x \notin S /\ x # 0
    BY <1>3 DEF T
  <1>5. x - 1 \in Nat /\ x - 1 < x /\ (x - 1) + 1 = x
    BY <1>4
  <1>6. x - 1 \notin S
    BY <1>4, <1>5
  <1>7. x - 1 \in T /\ <<x - 1, x>> \in R
    BY <1>4, <1>5, <1>6 DEF T, R
  <1> QED BY <1>3, <1>7

\* The rule get_depth follows, as the code states it: for the domains made so
\* far, up to the n-th.
DepthRule(n, g) ==
  g = [o \in 0 .. n - 1 |-> IF heap[o].parent = None THEN 0 ELSE 1 + g[heap[o].parent]]

\* One more domain: its parent's depth is already known.
LEMMA OneMoreDepth ==
  ASSUME RegistryAnchored, nObj \in Nat, NEW n \in Nat, n < nObj,
         NEW g, DepthRule(n, g), \A o \in 0 .. n - 1 : g[o] \in Nat
  PROVE  \E f : DepthRule(n + 1, f) /\ \A o \in 0 .. (n + 1) - 1 : f[o] \in Nat
PROOF
  <1> DEFINE d == IF heap[n].parent = None THEN 0 ELSE 1 + g[heap[n].parent]
             f == [o \in 0 .. n |-> IF o = n THEN d ELSE g[o]]
  <1>2. \A o \in 0 .. n - 1 : g[o] = IF heap[o].parent = None THEN 0 ELSE 1 + g[heap[o].parent]
    BY DEF DepthRule
  <1>3. \A o \in 0 .. n : o \in Object /\ (o = n \/ o \in 0 .. n - 1)
    BY DEF Object
  <1>4. \A o \in 0 .. n : heap[o].parent # None =>
          heap[o].parent \in 0 .. n - 1 /\ heap[o].parent # n /\ heap[o].parent \in 0 .. n
    <2> SUFFICES ASSUME NEW o \in 0 .. n, heap[o].parent # None
                 PROVE  heap[o].parent \in 0 .. n - 1
      OBVIOUS
    <2>1. heap[o].parent \in 0 .. o - 1
      BY <1>3 DEF RegistryAnchored
    <2> QED BY <2>1
  <1>5. d \in Nat
    BY <1>4
  <1> HIDE DEF d
  <1>6. \A o \in 0 .. n : f[o] = IF o = n THEN d ELSE g[o]
    OBVIOUS
  <1>7. \A o \in 0 .. n : f[o] \in Nat
    BY <1>3, <1>5, <1>6
  <1>8. \A o \in 0 .. n - 1 : f[o] = g[o]
    BY <1>6
  <1>9. \A o \in 0 .. n :
          f[o] = IF heap[o].parent = None THEN 0 ELSE 1 + f[heap[o].parent]
    BY <1>2, <1>3, <1>4, <1>6, <1>8 DEF d
  <1>10. f = [o \in 0 .. n |-> f[o]]
    OBVIOUS
  <1> HIDE DEF f
  <1>11. f = [o \in 0 .. n |-> IF heap[o].parent = None THEN 0 ELSE 1 + f[heap[o].parent]]
    BY <1>9, <1>10
  <1>12. (n + 1) - 1 = n
    OBVIOUS
  <1> QED BY <1>7, <1>11, <1>12 DEF DepthRule

\* The walk along the parent references ends, so get_depth is what its rule
\* says, for every domain the tree ever made.
LEMMA DepthFollowsParents ==
  ASSUME Anchored
  PROVE  \A o \in Object :
           /\ GetDepth[o] \in Nat
           /\ GetDepth[o] = IF heap[o].parent = None THEN 0 ELSE 1 + GetDepth[heap[o].parent]
PROOF
  <1> DEFINE S == {n \in Nat : n <= nObj =>
                     \E g : DepthRule(n, g) /\ \A o \in 0 .. n - 1 : g[o] \in Nat}
  <1>1. RegistryAnchored /\ nObj \in Nat
    BY DEF Anchored, TypeOK
  <1>2. 0 \in S
    <2> DEFINE g == [o \in {} |-> 0]
    <2>1. 0 .. 0 - 1 = {}
      OBVIOUS
    <2>2. DepthRule(0, g) /\ \A o \in 0 .. 0 - 1 : g[o] \in Nat
      BY <2>1 DEF DepthRule
    <2> QED BY <2>2
  <1>3. \A n \in Nat : n \in S => n + 1 \in S
    <2> SUFFICES ASSUME NEW n \in Nat, n \in S, n + 1 <= nObj
                 PROVE  \E g : DepthRule(n + 1, g) /\ \A o \in 0 .. (n + 1) - 1 : g[o] \in Nat
      OBVIOUS
    <2>1. n <= nObj /\ n < nObj
      BY <1>1
    <2>2. PICK g : DepthRule(n, g) /\ \A o \in 0 .. n - 1 : g[o] \in Nat
      BY <2>1
    <2> HIDE DEF S
    <2> QED BY <1>1, <2>1, <2>2, OneMoreDepth
  <1>4. nObj \in S
    <2> HIDE DEF S
    <2> QED BY <1>1, <1>2, <1>3, CountingUp
  <1>5. PICK g : DepthRule(nObj, g)
    BY <1>1, <1>4
  <1>6. DepthRule(nObj, GetDepth)
    <2>1. GetDepth = CHOOSE f : DepthRule(nObj, f)
      BY DEF GetDepth, DepthRule, Object
    <2> QED BY <1>5, <2>1
  <1>7. \A o \in Object :
          GetDepth[o] = IF heap[o].parent = None THEN 0 ELSE 1 + GetDepth[heap[o].parent]
    BY <1>6 DEF DepthRule, Object
  <1> DEFINE U == {n \in Nat : n <= nObj => \A o \in 0 .. n - 1 : GetDepth[o] \in Nat}
  <1>8. \A n \in Nat : n \in U => n + 1 \in U
    <2> SUFFICES ASSUME NEW n \in Nat, n \in U, n + 1 <= nObj,
                        NEW o \in 0 .. (n + 1) - 1
                 PROVE  GetDepth[o] \in Nat
      OBVIOUS
    <2>1. \A q \in 0 .. n - 1 : GetDepth[q] \in Nat
      BY <1>1
    <2> HIDE DEF U
    <2>2. o \in Object /\ o \in 0 .. n
      BY <1>1 DEF Object
    <2>3. heap[o].parent # None => heap[o].parent \in 0 .. n - 1
      <3>1. IF o = Root THEN heap[o].parent = None ELSE heap[o].parent \in 0 .. o - 1
        BY <1>1, <2>2 DEF RegistryAnchored
      <3> QED BY <2>2, <3>1
    <2> QED BY <1>7, <2>1, <2>2, <2>3
  <1>9. nObj \in U
    <2>1. 0 \in U
      OBVIOUS
    <2> HIDE DEF U
    <2> QED BY <1>1, <1>8, <2>1, CountingUp
  <1> QED BY <1>1, <1>7, <1>9 DEF Object

\* get_depth is defined, and follows the parent references, for every domain
\* ever made, released ones included.
DepthDefined ==
  \A o \in Object :
    /\ GetDepth[o] \in Nat
    /\ GetDepth[o] = IF heap[o].parent = None THEN 0 ELSE 1 + GetDepth[heap[o].parent]

\* Whatever the software does, get_depth ends: its loop up the parent
\* references cannot go round in a circle (rpa_logic.py:741-748).
THEOREM DepthStaysDefined == Spec => []DepthDefined
PROOF
  <1>1. Anchored => DepthDefined
    BY DepthFollowsParents DEF DepthDefined
  <1> QED BY <1>1, AnchoredAlways, PTL
=============================================================================
