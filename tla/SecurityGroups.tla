--------------------------- MODULE SecurityGroups ---------------------------
(***************************************************************************)
(* SecurityGroupController (src/rpa_sim/security_group.py): security       *)
(* groups named by handles, the domains bound to them, the DMA accessors   *)
(* and the encrypted memory regions a group owns.                          *)
(*                                                                         *)
(* Group membership is kept twice, as bound_domains and ref_count in the   *)
(* group and as domain_security_map in the controller, and every operation *)
(* maintains the two by hand.  Handles and group ids are allocated in lock *)
(* step (0x2000, 0x2001, ... and 0x100, 0x101, ...), so one number stands  *)
(* for both.  A call that returns False changes nothing: it is a           *)
(* stuttering step.                                                        *)
(***************************************************************************)
EXTENDS Integers, FiniteSets

CONSTANTS
  Domain,       \* domain ids the software passes around, 0 among them
  Attested,     \* EXPECTED_ATTESTATION_IDS
  Start,        \* start addresses of encrypted regions
  None,         \* an absent dictionary entry
  MaxHandle,    \* bound: groups created over a run
  MaxRef        \* bound: ref_count up to which software keeps binding

ASSUME DomainAssumption == Domain \subseteq Nat /\ 0 \in Domain /\ Attested \subseteq Domain
ASSUME NoHandleAssumption == None \notin Nat
ASSUME GroupBoundAssumption == MaxHandle \in Nat \ {0} /\ MaxRef \in Nat \ {0}

VARIABLES
  inst,         \* instances: handle -> group, None where there is none
  secMap,       \* domain_security_map: domain id -> handle
  idMap,        \* keys of domain_id_to_handle, named by their handle
  regions,      \* Memory's encrypted regions: start -> owning handle
  nextHandle    \* _next_handle

groupVars == <<inst, secMap, idMap, regions, nextHandle>>

RootHandle == 1
Handle == 1 .. MaxHandle

Group == [owner : Domain, confidential : BOOLEAN, encrypted : BOOLEAN,
          accessors : SUBSET Domain, bound : SUBSET Domain, ref : Nat]

ASSUME NoGroupAssumption == None \notin Group

NewGroup(owner, conf, enc) ==
  [owner |-> owner, confidential |-> conf, encrypted |-> enc,
   accessors |-> {}, bound |-> {}, ref |-> 0]

Live(h) == inst[h] # None

GroupsInit ==
  /\ inst = [h \in Handle |->
               IF h = RootHandle
               THEN [NewGroup(0, FALSE, FALSE) EXCEPT !.bound = {0}, !.ref = 1]
               ELSE None]
  /\ secMap = [d \in Domain |-> IF d = 0 THEN RootHandle ELSE None]
  /\ idMap = {RootHandle}
  /\ regions = [s \in Start |-> None]
  /\ nextHandle = RootHandle + 1

-----------------------------------------------------------------------------
\* Mutant of Create: the handle is the number of live groups plus one.
ReusesHandle(owner, conf, enc) ==
  LET n == Cardinality({h \in Handle : Live(h)}) + 1
  IN  /\ owner \in Attested
      /\ nextHandle <= MaxHandle
      /\ inst' = [inst EXCEPT ![n] = NewGroup(owner, conf, enc)]
      /\ idMap' = idMap \cup {n}
      /\ nextHandle' = nextHandle + 1
      /\ UNCHANGED <<secMap, regions>>

\* create with create_new: only attested owners get a group; it starts empty.
Create(owner, conf, enc) ==
  /\ owner \in Attested
  /\ nextHandle <= MaxHandle
  /\ inst' = [inst EXCEPT ![nextHandle] = NewGroup(owner, conf, enc)]
  /\ idMap' = idMap \cup {nextHandle}
  /\ nextHandle' = nextHandle + 1
  /\ UNCHANGED <<secMap, regions>>

\* Mutant of RegionsWithout: the regions are left in memory.
KeepsRegions(h) == regions

\* _clear_encrypted_regions, called when the group is an encrypted one.
RegionsWithout(h) ==
  [s \in Start |-> IF inst[h].encrypted /\ regions[s] = h THEN None ELSE regions[s]]

\* Mutant of Destroy: the reference count is not looked at.
DestroysInUse(h, caller) ==
  /\ Live(h)
  /\ inst[h].owner = caller
  /\ h # RootHandle
  /\ regions' = RegionsWithout(h)
  /\ inst' = [inst EXCEPT ![h] = None]
  /\ idMap' = idMap \ {h}
  /\ UNCHANGED <<secMap, nextHandle>>

\* destroy: the owner dissolves a group nobody references any more.
Destroy(h, caller) ==
  /\ Live(h)
  /\ inst[h].owner = caller
  /\ inst[h].ref = 0
  /\ h # RootHandle
  /\ regions' = RegionsWithout(h)
  /\ inst' = [inst EXCEPT ![h] = None]
  /\ idMap' = idMap \ {h}
  /\ UNCHANGED <<secMap, nextHandle>>

\* The map entries of every domain a forced destruction finds bound.
MapWithout(h) ==
  [d \in Domain |-> IF d \in inst[h].bound THEN None ELSE secMap[d]]

\* Mutant of DestroyForce: the root group is not exempt.
ForcesAnyGroup(h, caller) ==
  /\ Live(h)
  /\ caller = 0
  /\ secMap' = MapWithout(h)
  /\ regions' = RegionsWithout(h)
  /\ inst' = [inst EXCEPT ![h] = None]
  /\ idMap' = idMap \ {h}
  /\ UNCHANGED nextHandle

\* destroy_force: the root domain dissolves a group in use.
DestroyForce(h, caller) ==
  /\ Live(h)
  /\ caller = 0
  /\ h # RootHandle
  /\ secMap' = MapWithout(h)
  /\ regions' = RegionsWithout(h)
  /\ inst' = [inst EXCEPT ![h] = None]
  /\ idMap' = idMap \ {h}
  /\ UNCHANGED nextHandle

\* request_destroy_confidential, once verify_parent_child has agreed.  The id
\* it drops from domain_id_to_handle is the owner's domain id, which is never
\* a group id: idMap stays as it was (security_group.py:423-425).
DestroyConfidential(h) ==
  /\ Live(h)
  /\ inst[h].confidential
  /\ secMap' = MapWithout(h)
  /\ regions' = RegionsWithout(h)
  /\ inst' = [inst EXCEPT ![h] = None]
  /\ UNCHANGED <<idMap, nextHandle>>

\* bind_domain as functions of the two tables it updates: no effect on a dead
\* handle; otherwise the reference count goes up whether or not d was bound.
InstBound(i, h, d) ==
  IF i[h] = None THEN i
  ELSE [i EXCEPT ![h].bound = @ \cup {d}, ![h].ref = @ + 1]

MapBound(h, d) == IF Live(h) THEN [secMap EXCEPT ![d] = h] ELSE secMap

Bind(h, d) ==
  /\ Live(h)
  /\ inst[h].ref < MaxRef
  /\ inst' = InstBound(inst, h, d)
  /\ secMap' = MapBound(h, d)
  /\ UNCHANGED <<idMap, regions, nextHandle>>

\* Mutants: the count goes down for any domain; the map entry stays, or is
\* overwritten with 0 instead of deleted.
CountsAnyUnbind(h, d) ==
  IF Live(h)
  THEN [inst EXCEPT ![h].bound = @ \ {d}, ![h].ref = IF @ = 0 THEN 0 ELSE @ - 1]
  ELSE inst

KeepsMapEntry(h, d) == secMap

ZeroesMapEntry(h, d) == IF Live(h) THEN [secMap EXCEPT ![d] = 0] ELSE secMap

\* unbind_domain: the count goes down only for a bound domain, the map entry
\* goes whatever group it names.
InstUnbound(h, d) ==
  IF Live(h) /\ d \in inst[h].bound
  THEN [inst EXCEPT ![h].bound = @ \ {d}, ![h].ref = IF @ = 0 THEN 0 ELSE @ - 1]
  ELSE inst

MapUnbound(h, d) == IF Live(h) THEN [secMap EXCEPT ![d] = None] ELSE secMap

Unbind(h, d) ==
  /\ Live(h)
  /\ inst' = InstUnbound(h, d)
  /\ secMap' = MapUnbound(h, d)
  /\ UNCHANGED <<idMap, regions, nextHandle>>

\* add_dma_accessor: a confidential group admits no outside accessor.
AddAccessor(h, d) ==
  /\ Live(h)
  /\ ~inst[h].confidential
  /\ inst' = [inst EXCEPT ![h].accessors = @ \cup {d}]
  /\ UNCHANGED <<secMap, idMap, regions, nextHandle>>

RemoveAccessor(h, d) ==
  /\ Live(h)
  /\ inst' = [inst EXCEPT ![h].accessors = @ \ {d}]
  /\ UNCHANGED <<secMap, idMap, regions, nextHandle>>

\* set_encryption: the region table is keyed by start address, so a region
\* registered twice belongs to the last group.
SetEncryption(h, s) ==
  /\ Live(h)
  /\ inst[h].encrypted
  /\ regions' = [regions EXCEPT ![s] = h]
  /\ UNCHANGED <<inst, secMap, idMap, nextHandle>>

GroupsNext ==
  \/ \E d \in Domain, conf, enc \in BOOLEAN : Create(d, conf, enc)
  \/ \E h \in Handle, d \in Domain : Destroy(h, d)
  \/ \E h \in Handle, d \in Domain : DestroyForce(h, d)
  \/ \E h \in Handle : DestroyConfidential(h)
  \/ \E h \in Handle, d \in Domain : Bind(h, d)
  \/ \E h \in Handle, d \in Domain : Unbind(h, d)
  \/ \E h \in Handle, d \in Domain : AddAccessor(h, d)
  \/ \E h \in Handle, d \in Domain : RemoveAccessor(h, d)
  \/ \E h \in Handle, s \in Start : SetEncryption(h, s)

GroupsSpec == GroupsInit /\ [][GroupsNext]_groupVars

-----------------------------------------------------------------------------
\* get_domain_security_handle: a domain in no group counts as the root group's.
GroupOf(d) == IF secMap[d] = None THEN RootHandle ELSE secMap[d]

\* check_dma_access.
CheckDma(h, d) ==
  /\ Live(h)
  /\ \/ GroupOf(d) = h
     \/ ~inst[h].confidential /\ d \in inst[h].accessors

-----------------------------------------------------------------------------
(* Properties.                                                             *)

\* The type invariant: groups are records or absent, and the tables hold
\* handles or nothing.
GroupsTypeOK ==
  /\ inst \in [Handle -> Group \cup {None}]
  /\ secMap \in [Domain -> Handle \cup {None}]
  /\ idMap \subseteq Handle
  /\ regions \in [Start -> Handle \cup {None}]
  /\ nextHandle \in 2 .. MaxHandle + 1

\* ref_count never falls below the number of bound domains, so ref_count = 0,
\* which destroy takes as its licence, means that nobody is bound.
RefCoversBound ==
  \A h \in Handle : Live(h) => Cardinality(inst[h].bound) <= inst[h].ref

\* A domain is only ever mapped to a live group, and that group lists it as
\* bound: no destruction, unbinding or rebinding leaves a map entry behind
\* that check_dma_access would take for membership of a dead group.
MembershipSound ==
  \A d \in Domain : secMap[d] # None =>
    Live(secMap[d]) /\ d \in inst[secMap[d]].bound

\* Only members reach a confidential group's memory by DMA: an accessor list,
\* an earlier membership or the root-group default never opens it.
ConfidentialSealed ==
  \A h \in Handle : Live(h) /\ inst[h].confidential =>
    \A d \in Domain : CheckDma(h, d) => d \in inst[h].bound

\* Every encrypted region in memory belongs to a live group that may encrypt:
\* no destruction leaves a region under a key nobody owns.
RegionsOwned ==
  \A s \in Start : regions[s] # None => Live(regions[s]) /\ inst[regions[s]].encrypted

\* The root group outlives everything, so the default group exists.
RootGroupLives == Live(RootHandle) /\ ~inst[RootHandle].confidential

\* A handle a DCB still names after its group is gone never comes back to
\* life as another group.
HandlesNotReused ==
  [][\A h \in Handle : h < nextHandle /\ ~Live(h) => inst'[h] = None]_groupVars
=============================================================================
