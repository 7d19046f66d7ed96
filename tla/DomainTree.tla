----------------------------- MODULE DomainTree -----------------------------
(***************************************************************************)
(* The privilege-domain tree of RPALogic (src/rpa_sim/rpa_logic.py) with   *)
(* no security controller attached.                                        *)
(*                                                                         *)
(* The code keeps every fact about a domain twice: in the domain control   *)
(* block (DCB) in guest memory, and in a Python Domain object that caches  *)
(* the DCB as it was read at the first DESCEND.  A third view, the         *)
(* registry, maps a DCB address to the object that currently stands for it.*)
(* The objects are modelled as a heap indexed by creation order, because   *)
(* an object that EXIT took out of the registry can still be reached       *)
(* through the parent reference of a descendant.                           *)
(***************************************************************************)
EXTENDS Integers

CONSTANTS
  Block,        \* DCB addresses the software uses: aligned, size field >= 8
  BadBlock,     \* addresses _validate_ctrlblock refuses
  Vector,       \* non-zero trap vectors
  RootVector,   \* 0x8004, the trap vector the root domain is built with
  Zero,         \* the word 0: no block, no vector, and the address of DCB 0
  None,         \* Python's None
  MaxDomains,   \* bound: Domain objects created over a run
  Conventions   \* which of the conventions below the software follows

ASSUME AddressAssumption == Zero \notin Block \cup Vector /\ BadBlock \cap Block = {}
ASSUME RootVectorAssumption == RootVector \in Vector
ASSUME NoneAssumption == None \notin Nat
ASSUME BoundAssumption == MaxDomains \in Nat
ASSUME ConventionsAssumption == Conventions \subseteq {"fresh block", "leaf exit"}

VARIABLES
  heap,         \* object -> Domain, with the DomainBlock it caches inlined
  nObj,         \* number of objects created; the next object's index
  registry,     \* _domain_registry: address -> object, None where absent
  mem,          \* the DCB fields in guest memory the tree depends on
  current,      \* current_domain
  nextId        \* _next_domain_id

vars == <<heap, nObj, registry, mem, current, nextId>>

-----------------------------------------------------------------------------
Root == 0
Object == 0 .. nObj - 1
Addr == Block \cup {Zero}
Word == Vector \cup {Zero}

\* `id` is Domain.domain_id, `bid` is Domain.block.domain_id: EXIT clears
\* only the second.
Domain == [id : Nat, bid : Nat, parent : Nat \cup {None},
           addr : Addr, child : Addr, trap : Word]
Dcb == [id : Nat, child : Addr, trap : Word]

EmptyDcb == [id |-> 0, child |-> Zero, trap |-> Zero]

Registered(o) == registry[heap[o].addr] = o

Init ==
  /\ heap = [o \in {Root} |-> [id |-> 0, bid |-> 0, parent |-> None,
                               addr |-> Zero, child |-> Zero, trap |-> RootVector]]
  /\ nObj = 1
  /\ registry = [a \in Addr |-> IF a = Zero THEN Root ELSE None]
  /\ mem = [a \in Addr |-> EmptyDcb]
  /\ current = Root
  /\ nextId = 1

-----------------------------------------------------------------------------
(* The conventions of careful software.  Fresh block: a parent sets up, and *)
(* makes a first DESCEND to, only a block that no live domain occupies (so  *)
(* never DCB 0).  Leaf exit: a domain exits after its own child has exited  *)
(* (notes.md:217).  The code checks neither.                                *)

FreshBlock(b) == "fresh block" \in Conventions => registry[b] = None
RealBlock(b)  == "fresh block" \in Conventions => b # Zero
LeafExit      == "leaf exit" \in Conventions => heap[current].child = Zero
Disciplined   == {"fresh block", "leaf exit"} \subseteq Conventions

\* _read_domain_block: a new Domain object caching DCB b under the current one.
ReadBlock(b, id) ==
  [id |-> id, bid |-> id, parent |-> current, addr |-> b,
   child |-> mem[b].child, trap |-> mem[b].trap]

\* Mutant of Grow: the parent's object is not told of its child.
GrowUnlinked(child, new) == [o \in 0 .. nObj |-> IF o = nObj THEN new ELSE heap[o]]

\* The heap with the current domain's child_block set and the new object added.
Grow(child, new) ==
  [o \in 0 .. nObj |-> IF o = nObj THEN new
                       ELSE IF o = current THEN [heap[o] EXCEPT !.child = child]
                       ELSE heap[o]]

\* The parent software sets up DCB b in memory before a first DESCEND.
PrepareBlock(b, v) ==
  /\ FreshBlock(b)
  /\ mem' = [mem EXCEPT ![b] = [EmptyDcb EXCEPT !.trap = v]]
  /\ UNCHANGED <<heap, nObj, registry, current, nextId>>

\* The running domain stores a trap vector in its own DCB.
WriteTrapVector(v) ==
  /\ mem' = [mem EXCEPT ![heap[current].addr].trap = v]
  /\ UNCHANGED <<heap, nObj, registry, current, nextId>>

\* descend(b), child_block names b and the registry knows it: resume.
DescendReturn(b) ==
  /\ RealBlock(b)
  /\ heap[current].child = b
  /\ registry[b] # None
  /\ current' = registry[b]
  /\ UNCHANGED <<heap, nObj, registry, mem, nextId>>

\* descend(b), child_block names b but the registry lost it: rebuild the object.
DescendRebuild(b) ==
  /\ heap[current].child = b
  /\ registry[b] = None
  /\ nObj < MaxDomains
  /\ heap' = Grow(b, ReadBlock(b, mem[b].id))
  /\ nObj' = nObj + 1
  /\ registry' = [registry EXCEPT ![b] = nObj]
  /\ current' = nObj
  /\ UNCHANGED <<mem, nextId>>

\* Mutants of DescendFirst: the one-child test is missing; the id counter
\* stands still; address 0 is taken for a block like any other.
SecondChild(b) ==
  /\ FreshBlock(b)
  /\ b # Zero
  /\ nObj < MaxDomains
  /\ heap' = Grow(b, ReadBlock(b, nextId))
  /\ nObj' = nObj + 1
  /\ mem' = [mem EXCEPT ![b].id = nextId, ![heap[current].addr].child = b]
  /\ registry' = [registry EXCEPT ![b] = nObj]
  /\ current' = nObj
  /\ nextId' = nextId + 1

SameId(b) ==
  /\ FreshBlock(b)
  /\ b # Zero
  /\ heap[current].child = Zero
  /\ nObj < MaxDomains
  /\ heap' = Grow(b, ReadBlock(b, nextId))
  /\ nObj' = nObj + 1
  /\ mem' = [mem EXCEPT ![b].id = nextId, ![heap[current].addr].child = b]
  /\ registry' = [registry EXCEPT ![b] = nObj]
  /\ current' = nObj
  /\ UNCHANGED nextId

BlockZero(b) ==
  /\ FreshBlock(b)
  /\ heap[current].child = Zero
  /\ nObj < MaxDomains
  /\ heap' = Grow(b, ReadBlock(b, nextId))
  /\ nObj' = nObj + 1
  /\ mem' = [mem EXCEPT ![b].id = nextId, ![heap[current].addr].child = b]
  /\ registry' = [registry EXCEPT ![b] = nObj]
  /\ current' = nObj
  /\ nextId' = nextId + 1

\* descend(b) of a domain that has no child: create one.
DescendFirst(b) ==
  /\ FreshBlock(b)
  /\ b # Zero
  /\ heap[current].child = Zero
  /\ nObj < MaxDomains
  /\ heap' = Grow(b, ReadBlock(b, nextId))
  /\ nObj' = nObj + 1
  /\ mem' = [mem EXCEPT ![b].id = nextId, ![heap[current].addr].child = b]
  /\ registry' = [registry EXCEPT ![b] = nObj]
  /\ current' = nObj
  /\ nextId' = nextId + 1

\* descend(b) raises DomainBlockError: bad block, or another child in the way.
DescendRefused(b) ==
  /\ b \in BadBlock \/ heap[current].child \notin {Zero, b}
  /\ UNCHANGED vars

\* Mutant of Ascend: control goes to the root instead of the parent.
AscendToRoot ==
  /\ heap[current].parent # None
  /\ current' = Root
  /\ UNCHANGED <<heap, nObj, registry, mem, nextId>>

\* ascend(release=False): the child object stays registered, to be resumed.
Ascend ==
  /\ heap[current].parent # None
  /\ current' = heap[current].parent
  /\ UNCHANGED <<heap, nObj, registry, mem, nextId>>

\* Mutants of Exit: the parent's child_block in memory survives; it is set to
\* None instead of 0; the registry loses the parent instead of the child.
ExitKeepsLink ==
  /\ heap[current].parent # None
  /\ LeafExit
  /\ LET p == heap[current].parent
         b == heap[current].addr
     IN  /\ heap' = [heap EXCEPT ![p].child = Zero, ![current].bid = 0]
         /\ mem' = [mem EXCEPT ![b].id = 0]
         /\ registry' = [registry EXCEPT ![b] = None]
         /\ current' = p
  /\ UNCHANGED <<nObj, nextId>>

ExitSetsNone ==
  /\ heap[current].parent # None
  /\ LeafExit
  /\ LET p == heap[current].parent
         b == heap[current].addr
     IN  /\ heap' = [heap EXCEPT ![p].child = None, ![current].bid = 0]
         /\ mem' = [mem EXCEPT ![heap[p].addr].child = Zero, ![b].id = 0]
         /\ registry' = [registry EXCEPT ![b] = None]
         /\ current' = p
  /\ UNCHANGED <<nObj, nextId>>

ExitDropsParent ==
  /\ heap[current].parent # None
  /\ LeafExit
  /\ LET p == heap[current].parent
         b == heap[current].addr
     IN  /\ heap' = [heap EXCEPT ![p].child = Zero, ![current].bid = 0]
         /\ mem' = [mem EXCEPT ![heap[p].addr].child = Zero, ![b].id = 0]
         /\ registry' = [registry EXCEPT ![heap[p].addr] = None]
         /\ current' = p
  /\ UNCHANGED <<nObj, nextId>>

\* ascend(release=True): EXIT unlinks the child and forgets its object.
Exit ==
  /\ heap[current].parent # None
  /\ LeafExit
  /\ LET p == heap[current].parent
         b == heap[current].addr
     IN  /\ heap' = [heap EXCEPT ![p].child = Zero, ![current].bid = 0]
         /\ mem' = [mem EXCEPT ![heap[p].addr].child = Zero, ![b].id = 0]
         /\ registry' = [registry EXCEPT ![b] = None]
         /\ current' = p
  /\ UNCHANGED <<nObj, nextId>>

\* ascend() at the root raises RuntimeError.
AscendAtRoot ==
  /\ heap[current].parent = None
  /\ UNCHANGED vars

\* fault(): a domain with a vector runs the handler installed for the fault
\* type, if any; every other fault is propagated, by a plain ascend.
Fault(installed) ==
  \/ /\ heap[current].trap # Zero /\ installed
     /\ UNCHANGED vars
  \/ /\ heap[current].trap = Zero \/ ~installed
     /\ Ascend \/ AscendAtRoot

Next ==
  \/ \E b \in Block, v \in Word : PrepareBlock(b, v)
  \/ \E v \in Word : WriteTrapVector(v)
  \/ \E b \in Addr : DescendReturn(b)
  \/ \E b \in Addr : DescendRebuild(b)
  \/ \E b \in Addr : DescendFirst(b)
  \/ \E b \in Addr \cup BadBlock : DescendRefused(b)
  \/ Ascend
  \/ Exit
  \/ AscendAtRoot
  \/ \E installed \in BOOLEAN : Fault(installed)

Spec == Init /\ [][Next]_vars

-----------------------------------------------------------------------------
(* The queries the security subsystem makes.                               *)

\* get_depth: steps from a domain to the root along the parent references.
GetDepth[o \in Object] ==
  IF heap[o].parent = None THEN 0 ELSE 1 + GetDepth[heap[o].parent]

\* get_domain_by_id: a registered object with that id (the code takes the
\* first in dictionary order, where the root is first).
GetDomainById(id) ==
  LET found == {o \in Object : Registered(o) /\ heap[o].id = id}
  IN  IF found = {} THEN None
      ELSE IF Root \in found THEN Root ELSE CHOOSE o \in found : TRUE

\* Mutant of VerifyParentChild: any live child will do.
VerifyAnyParent(parentId, childId) ==
  \/ parentId = 0
  \/ LET child == GetDomainById(childId)
     IN  child # None /\ heap[child].parent # None

VerifyParentChild(parentId, childId) ==
  \/ parentId = 0
  \/ LET child == GetDomainById(childId)
     IN  /\ child # None
         /\ heap[child].parent # None
         /\ heap[heap[child].parent].id = parentId

-----------------------------------------------------------------------------
(* Properties.                                                             *)

\* The type invariant: the objects form one dense heap, the registry and the
\* DCBs hold only objects, addresses and vectors.
TypeOK ==
  /\ nObj \in Nat /\ Root \in Object
  /\ heap \in [Object -> Domain]
  /\ registry \in [Addr -> Object \cup {None}]
  /\ mem \in [Addr -> Dcb]
  /\ current \in Object
  /\ nextId \in Nat

\* Whatever the software does, the root stays registered under address 0, the
\* registry never files an object under another object's address, and every
\* parent reference leads to an older object, so get_depth and the walks to
\* the root in get_domain_path_to_root end (rpa_logic.py:570-580, 663, 713).
RegistryAnchored ==
  /\ registry[Zero] = Root
  /\ \A a \in Addr : registry[a] # None => heap[registry[a]].addr = a
  /\ \A o \in Object : IF o = Root THEN heap[o].parent = None
                        ELSE heap[o].parent \in 0 .. o - 1

\* Under the conventions the running domain is registered, and every
\* registered domain hangs below a registered parent whose child_block names
\* it: no ascend can land in an object EXIT has thrown away.
ChainLinked ==
  Disciplined =>
    /\ Registered(current)
    /\ \A o \in Object \ {Root} : Registered(o) =>
         /\ Registered(heap[o].parent)
         /\ heap[heap[o].parent].child = heap[o].addr

\* Under the conventions the DCB in memory and the object caching it agree on
\* the fields the hardware maintains, and a child_block that is set names a
\* registered child of that very domain, so RETURN never has to rebuild one.
ViewsAgree ==
  Disciplined =>
    \A o \in Object : Registered(o) =>
      /\ mem[heap[o].addr].child = heap[o].child
      /\ mem[heap[o].addr].id = heap[o].id
      /\ heap[o].child # Zero => /\ registry[heap[o].child] # None
                                 /\ heap[registry[heap[o].child]].parent = o

\* The live domains have distinct ids, all below the next one to be given.
DistinctIds ==
  Disciplined =>
    \A o \in Object : Registered(o) =>
      /\ heap[o].id < nextId
      /\ \A q \in Object : Registered(q) /\ heap[q].id = heap[o].id => q = o

\* verify_parent_child, asked about two live domains other than the root,
\* answers by the parent references and nothing else (rpa_logic.py:783-810).
HierarchyExact ==
  Disciplined =>
    \A p, c \in Object \ {Root} : Registered(p) /\ Registered(c) =>
      (VerifyParentChild(heap[p].id, heap[c].id) <=> heap[c].parent = p)

\* At every privilege level there is at most one live domain
\* (rpa_logic.py:426, 454: one DomainBlock per core and privilege level).
OnePerLevel ==
  Disciplined =>
    \A o, q \in Object :
      Registered(o) /\ Registered(q) /\ GetDepth[o] = GetDepth[q] => o = q

\* A domain leaves the registry only by its own EXIT: no other domain's
\* DESCEND or EXIT replaces or drops it while it is suspended.
OnlyOwnExit ==
  [][Disciplined =>
       \A a \in Addr : registry[a] # None /\ registry'[a] # registry[a] =>
         registry[a] = current /\ current' = heap[current].parent]_vars

Chain == INSTANCE DomainChain WITH
  live <- {a \in Addr : registry[a] # None},
  up   <- [b \in Block |-> IF registry[b] = None THEN Zero
                           ELSE heap[heap[registry[b]].parent].addr],
  at   <- heap[current].addr

\* Under the conventions every step of the tree is a step of the chain.
ImplementsChain == Chain!ChainSpec
=============================================================================
