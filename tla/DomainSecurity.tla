--------------------------- MODULE DomainSecurity ---------------------------
(***************************************************************************)
(* RPALogic with a security controller attached (set_security_controller): *)
(* the domain tree and the security groups as one system.  DESCEND binds   *)
(* the new domain to the group its DCB names, EXIT unbinds it, and the     *)
(* running domain manages groups through sysop secgroup.                   *)
(*                                                                         *)
(* Left to the component modules: trap vectors (every DCB has one here),   *)
(* DMA accessors and encryption, because the two halves do not meet there; *)
(* and explicit sysop bind and unbind, which exist to put a domain in a    *)
(* group other than the one DESCEND chose.                                 *)
(***************************************************************************)
EXTENDS Integers, FiniteSets

CONSTANTS
  Block, BadBlock, Vector, RootVector, Zero, None, MaxDomains,  \* DomainTree
  Attested, Start, MaxHandle, MaxRef                            \* SecurityGroups

VARIABLES
  heap, nObj, registry, mem, current, nextId,     \* see DomainTree
  inst, secMap, idMap, regions, nextHandle,       \* see SecurityGroups
  memSg,        \* DCB address -> security_group word in memory (0 = none)
  objSg         \* object -> the security_group its DomainBlock caches

\* The software is a careful one (see DomainTree), so a DESCEND never has to
\* rebuild a lost object (DomainTree!ViewsAgree).
Conventions == {"fresh block", "leaf exit"}

DomainId == 0 .. MaxDomains

T == INSTANCE DomainTree
G == INSTANCE SecurityGroups WITH Domain <- DomainId

\* What the tree and the groups assume of their constants.
ASSUME TreeAssumption ==
  /\ Zero \notin Block \cup Vector /\ BadBlock \cap Block = {}
  /\ RootVector \in Vector
  /\ None \notin Nat
  /\ MaxDomains \in Nat

ASSUME GroupAssumption ==
  /\ Attested \subseteq DomainId
  /\ MaxHandle \in Nat \ {0} /\ MaxRef \in Nat \ {0}
  /\ None \notin G!Group

treeVars == <<heap, nObj, registry, mem, current, nextId>>
groupVars == <<inst, secMap, idMap, regions, nextHandle>>
sysVars == <<treeVars, groupVars, memSg, objSg>>

NoHandle == 0
HandleWord == {NoHandle} \cup G!Handle

SysInit ==
  /\ T!Init
  /\ G!GroupsInit
  /\ memSg = [a \in T!Addr |-> NoHandle]
  /\ objSg = [o \in {T!Root} |-> G!RootHandle]

-----------------------------------------------------------------------------
\* The parent writes into the DCB a handle it has been given, or none.
PrepareBlock(b, h) ==
  /\ h < nextHandle
  /\ T!PrepareBlock(b, RootVector)
  /\ memSg' = [memSg EXCEPT ![b] = h]
  /\ UNCHANGED <<groupVars, objSg>>

\* The group a new domain goes to: its DCB's, else its parent's, else the root's.
GroupFor(b) ==
  IF memSg[b] # NoHandle THEN memSg[b]
  ELSE IF objSg[current] # NoHandle THEN objSg[current]
  ELSE G!RootHandle

\* Mutants of DescendFirst: the second bind comes after the id counter has
\* moved on; the new object does not cache its group.
BindsNextId(b) ==
  /\ T!DescendFirst(b)
  /\ LET h == GroupFor(b)
     IN  /\ inst' = G!InstBound(inst, h, nextId + 1)
         /\ secMap' = G!MapBound(h, nextId + 1)
         /\ memSg' = [memSg EXCEPT ![b] = h]
         /\ objSg' = [o \in 0 .. nObj |-> IF o = nObj THEN h ELSE objSg[o]]
  /\ UNCHANGED <<idMap, regions, nextHandle>>

CachesNoGroup(b) ==
  /\ T!DescendFirst(b)
  /\ LET h == GroupFor(b)
     IN  /\ inst' = G!InstBound(G!InstBound(inst, h, nextId), h, nextId)
         /\ secMap' = G!MapBound(h, nextId)
         /\ memSg' = [memSg EXCEPT ![b] = h]
  /\ UNCHANGED <<idMap, regions, nextHandle, objSg>>

\* First DESCEND.  bind_domain is called before the id is assigned and again
\* after the DCB is written (rpa_logic.py:626 and 648).
DescendFirst(b) ==
  /\ T!DescendFirst(b)
  /\ LET h == GroupFor(b)
     IN  /\ inst' = G!InstBound(G!InstBound(inst, h, nextId), h, nextId)
         /\ secMap' = G!MapBound(h, nextId)
         /\ memSg' = [memSg EXCEPT ![b] = h]
         /\ objSg' = [o \in 0 .. nObj |-> IF o = nObj THEN h ELSE objSg[o]]
  /\ UNCHANGED <<idMap, regions, nextHandle>>

\* Mutant of Exit: the id to unbind is read from the DomainBlock, after EXIT
\* has cleared it there.
UnbindsClearedId ==
  /\ T!Exit
  /\ LET h == objSg[current]
         d == heap'[current].bid
     IN  IF h = NoHandle THEN UNCHANGED <<inst, secMap>>
         ELSE /\ inst' = G!InstUnbound(h, d)
              /\ secMap' = G!MapUnbound(h, d)
  /\ UNCHANGED <<idMap, regions, nextHandle, memSg, objSg>>

\* EXIT unbinds the domain from the group its object remembers.
Exit ==
  /\ T!Exit
  /\ LET h == objSg[current]
         d == heap[current].id
     IN  IF h = NoHandle THEN UNCHANGED <<inst, secMap>>
         ELSE /\ inst' = G!InstUnbound(h, d)
              /\ secMap' = G!MapUnbound(h, d)
  /\ UNCHANGED <<idMap, regions, nextHandle, memSg, objSg>>

\* Control transfers that involve no group.
Transfer ==
  /\ (\E b \in T!Addr : T!DescendReturn(b)) \/ T!Ascend
  /\ UNCHANGED <<groupVars, memSg, objSg>>

Caller == heap[current].id

\* sysop secgroup create, destroy and force_destroy, issued by the running
\* domain under its own id.
Sysop ==
  /\ \/ \E conf \in BOOLEAN : G!Create(Caller, conf, FALSE)
     \/ \E h \in G!Handle : G!Destroy(h, Caller)
     \/ \E h \in G!Handle : G!DestroyForce(h, Caller)
  /\ UNCHANGED <<treeVars, memSg, objSg>>

\* The security subsystem's own entry point: the claimed caller must be the
\* parent of the domain that created the group, or the root.
RequestDestroyConfidential(h, caller) ==
  /\ G!DestroyConfidential(h)
  /\ T!VerifyParentChild(caller, inst[h].owner)
  /\ UNCHANGED <<treeVars, memSg, objSg>>

SysNext ==
  \/ \E b \in Block, h \in HandleWord : PrepareBlock(b, h)
  \/ \E b \in Block : DescendFirst(b)
  \/ Exit
  \/ Transfer
  \/ Sysop
  \/ \E h \in G!Handle, d \in DomainId : RequestDestroyConfidential(h, d)

SysSpec == SysInit /\ [][SysNext]_sysVars

-----------------------------------------------------------------------------
(* Properties.                                                             *)

\* The type invariant: both halves keep their shapes, and every DCB and every
\* cached DomainBlock holds a handle or none.
SysTypeOK ==
  /\ T!TypeOK /\ G!GroupsTypeOK
  /\ memSg \in [T!Addr -> HandleWord]
  /\ objSg \in [T!Object -> HandleWord]

\* A live domain is in the group its DCB names, in the group's own list as in
\* the controller's map, or, once that group is gone, in none: however groups
\* are created and destroyed while domains come and go, no domain drifts into
\* another group.
GroupFollowsDomain ==
  \A o \in T!Object : T!Registered(o) =>
    LET d == heap[o].id
        h == objSg[o]
    IN  IF h # NoHandle /\ G!Live(h)
        THEN secMap[d] = h /\ d \in inst[h].bound
        ELSE secMap[d] = None

\* EXIT leaves no trace of the domain: every id that is mapped, or bound to
\* some group, is that of a live domain.
ExitForgets ==
  \A d \in DomainId :
    secMap[d] # None \/ (\E h \in G!Handle : G!Live(h) /\ d \in inst[h].bound) =>
      \E o \in T!Object : T!Registered(o) /\ heap[o].id = d

\* security_group.py:72: ref_count is the number of associated domains.
RefCountsBound ==
  \A h \in G!Handle : G!Live(h) => inst[h].ref = Cardinality(inst[h].bound)
=============================================================================
