------------------------ MODULE SecurityGroups_proofs ------------------------
(***************************************************************************)
(* Proofs about SecurityGroups, for any domains, attested owners, regions  *)
(* and bounds.  The invariant is proved whole, because its parts need each *)
(* other: destroy may drop a group only because its zero count implies     *)
(* that no domain is mapped to it.                                         *)
(***************************************************************************)
EXTENDS SecurityGroups, FiniteSetTheorems, TLAPS

\* Handles not yet given out name no group, so create replaces none.
FreshHandles == \A h \in Handle : h >= nextHandle => ~Live(h)

BoundFinite == \A h \in Handle : Live(h) => IsFiniteSet(inst[h].bound)

GroupsInv ==
  /\ GroupsTypeOK
  /\ FreshHandles
  /\ BoundFinite
  /\ RefCoversBound
  /\ MembershipSound
  /\ RegionsOwned
  /\ RootGroupLives

LEMMA GroupFields ==
  ASSUME NEW g \in Group
  PROVE  /\ g.accessors \in SUBSET Domain /\ g.bound \in SUBSET Domain /\ g.ref \in Nat
         /\ g.confidential \in BOOLEAN /\ g.encrypted \in BOOLEAN
PROOF
  BY DEF Group

\* A group whose members and count are replaced; it is no less a group.
WithMembers(g, members, count) == [g EXCEPT !.bound = members, !.ref = count]

LEMMA WithMembersFields ==
  ASSUME NEW g \in Group, NEW members \in SUBSET Domain, NEW count \in Nat
  PROVE  /\ WithMembers(g, members, count) \in Group
         /\ WithMembers(g, members, count) # None
         /\ WithMembers(g, members, count).bound = members
         /\ WithMembers(g, members, count).ref = count
         /\ WithMembers(g, members, count).encrypted = g.encrypted
         /\ WithMembers(g, members, count).confidential = g.confidential
PROOF
  <1>1. WithMembers(g, members, count) \in Group
    BY DEF Group, WithMembers
  <1> QED BY <1>1, NoGroupAssumption DEF Group, WithMembers

LEMMA NewGroupIsGroup ==
  ASSUME NEW owner \in Domain, NEW conf \in BOOLEAN, NEW enc \in BOOLEAN
  PROVE  NewGroup(owner, conf, enc) \in Group
PROOF
  BY DEF NewGroup, Group

LEMMA InitGroups == GroupsInit => GroupsInv
PROOF
  <1> SUFFICES ASSUME GroupsInit PROVE GroupsInv
    OBVIOUS
  <1> DEFINE root == [NewGroup(0, FALSE, FALSE) EXCEPT !.bound = {0}, !.ref = 1]
  <1>1. root \in Group /\ root # None /\ root.bound = {0} /\ root.ref = 1
        /\ root.confidential = FALSE
    <2>1. 0 \in Domain /\ {0} \in SUBSET Domain
      BY DomainAssumption
    <2>2. PICK g, m : g = NewGroup(0, FALSE, FALSE) /\ m = {0}
      OBVIOUS
    <2>3. g \in Group /\ m \in SUBSET Domain /\ 1 \in Nat
      BY <2>1, <2>2, NewGroupIsGroup
    <2>4. root = WithMembers(g, m, 1)
      BY <2>2 DEF WithMembers
    <2>5. NewGroup(0, FALSE, FALSE).confidential = FALSE
      BY Zenon DEF NewGroup
    <2> HIDE DEF root
    <2>6. /\ WithMembers(g, m, 1) \in Group /\ WithMembers(g, m, 1) # None
          /\ WithMembers(g, m, 1).bound = m
          /\ WithMembers(g, m, 1).ref = 1
          /\ WithMembers(g, m, 1).confidential = g.confidential
      BY <2>3, WithMembersFields
    <2>7. root \in Group /\ root # None /\ root.bound = {0} /\ root.ref = 1
      BY <2>2, <2>4, <2>6
    <2>8. root.confidential = g.confidential
      BY <2>4, <2>6
    <2>9. root.confidential = FALSE
      BY <2>2, <2>5, <2>8, Zenon
    <2> QED BY <2>6, <2>7, <2>9
  <1>2. /\ RootHandle \in Handle /\ nextHandle = 2 /\ nextHandle \in 2 .. MaxHandle + 1
        /\ inst = [h \in Handle |-> IF h = RootHandle THEN root ELSE None]
        /\ secMap = [d \in Domain |-> IF d = 0 THEN RootHandle ELSE None]
        /\ idMap = {RootHandle} /\ regions = [s \in Start |-> None]
    BY GroupBoundAssumption DEF GroupsInit, RootHandle, Handle
  <1> HIDE DEF root
  <1>3. GroupsTypeOK
    BY <1>1, <1>2 DEF GroupsTypeOK
  <1>4. FreshHandles
    BY <1>2 DEF FreshHandles, Live, RootHandle
  <1>5. BoundFinite /\ RefCoversBound
    <2>1. IsFiniteSet({0}) /\ Cardinality({0}) = 1
      BY FS_Singleton
    <2> QED BY <1>1, <1>2, <2>1 DEF BoundFinite, RefCoversBound, Live
  <1>6. MembershipSound
    BY <1>1, <1>2 DEF MembershipSound, Live
  <1>7. RegionsOwned /\ RootGroupLives
    BY <1>1, <1>2 DEF RegionsOwned, RootGroupLives, Live
  <1> QED BY <1>3, <1>4, <1>5, <1>6, <1>7 DEF GroupsInv

LEMMA CreateKeeps ==
  ASSUME GroupsInv, NEW owner \in Domain, NEW conf \in BOOLEAN, NEW enc \in BOOLEAN,
         Create(owner, conf, enc)
  PROVE  GroupsInv'
PROOF
  <1> USE NoGroupAssumption, NoHandleAssumption
  <1>1. PICK new, g : new = nextHandle /\ g = NewGroup(owner, conf, enc)
    OBVIOUS
  <1>2. /\ new \in Handle /\ new \in Nat /\ ~Live(new) /\ new # RootHandle
        /\ nextHandle' = new + 1 /\ nextHandle' \in 2 .. MaxHandle + 1
        /\ inst' = [inst EXCEPT ![new] = g] /\ idMap' = idMap \cup {new}
        /\ UNCHANGED <<secMap, regions>>
    BY <1>1, GroupBoundAssumption
       DEF GroupsInv, GroupsTypeOK, FreshHandles, Create, Handle, RootHandle
  <1>3. g \in Group /\ g.bound = {} /\ g.ref = 0
    BY <1>1, NewGroupIsGroup DEF NewGroup
  <1>4. GroupsTypeOK'
    BY <1>2, <1>3 DEF GroupsInv, GroupsTypeOK
  <1>5. \A h \in Handle : inst'[h] = IF h = new THEN g ELSE inst[h]
    BY <1>2 DEF GroupsInv, GroupsTypeOK
  <1>6. FreshHandles'
    BY <1>1, <1>2, <1>5 DEF GroupsInv, FreshHandles, Live, Handle
  <1>7. BoundFinite' /\ RefCoversBound'
    <2>1. IsFiniteSet({}) /\ Cardinality({}) = 0
      BY FS_EmptySet
    <2>2. ASSUME NEW h \in Handle, Live(h)'
          PROVE  IsFiniteSet(inst'[h].bound) /\ Cardinality(inst'[h].bound) <= inst'[h].ref
      <3>1. CASE h = new
        <4>1. inst'[h].bound = {} /\ inst'[h].ref = 0
          BY <3>1, <1>3, <1>5
        <4> QED BY <4>1, <2>1
      <3>2. CASE h # new
        BY <2>2, <3>2, <1>5 DEF GroupsInv, BoundFinite, RefCoversBound, Live
      <3> QED BY <3>1, <3>2
    <2> QED BY <2>2 DEF BoundFinite, RefCoversBound
  <1>8. MembershipSound'
    BY <1>2, <1>5 DEF GroupsInv, GroupsTypeOK, MembershipSound, Live
  <1>9. RegionsOwned'
    BY <1>2, <1>5 DEF GroupsInv, GroupsTypeOK, RegionsOwned, Live
  <1>10. RootGroupLives'
    BY <1>2, <1>5, GroupBoundAssumption DEF GroupsInv, RootGroupLives, Live, Handle, RootHandle
  <1> QED BY <1>4, <1>6, <1>7, <1>8, <1>9, <1>10 DEF GroupsInv

\* What the three ways to dissolve a group have in common: the group's regions
\* go with it, and no map entry for it is left.
LEMMA DissolveKeeps ==
  ASSUME GroupsInv, NEW h \in Handle, Live(h), h # RootHandle,
         inst' = [inst EXCEPT ![h] = None],
         regions' = RegionsWithout(h),
         secMap' \in [Domain -> Handle \cup {None}],
         \A d \in Domain : /\ secMap'[d] # h
                           /\ secMap'[d] # None => secMap'[d] = secMap[d],
         idMap' \subseteq Handle,
         nextHandle' = nextHandle
  PROVE  GroupsInv'
PROOF
  <1> USE NoGroupAssumption, NoHandleAssumption
  <1>1. \A k \in Handle : inst'[k] = IF k = h THEN None ELSE inst[k]
    BY DEF GroupsInv, GroupsTypeOK
  <1>2. /\ regions' \in [Start -> Handle \cup {None}]
        /\ \A s \in Start : regions'[s] # None => regions'[s] = regions[s] /\ regions[s] # h
    BY DEF GroupsInv, GroupsTypeOK, RegionsOwned, RegionsWithout
  <1>3. GroupsTypeOK'
    BY <1>2 DEF GroupsInv, GroupsTypeOK
  <1>4. FreshHandles' /\ BoundFinite' /\ RefCoversBound'
    BY <1>1 DEF GroupsInv, FreshHandles, BoundFinite, RefCoversBound, Live
  <1>5. MembershipSound'
    BY <1>1 DEF GroupsInv, GroupsTypeOK, MembershipSound, Live
  <1>6. RegionsOwned'
    BY <1>1, <1>2 DEF GroupsInv, GroupsTypeOK, RegionsOwned, Live
  <1>7. RootGroupLives'
    BY <1>1, GroupBoundAssumption DEF GroupsInv, RootGroupLives, Live, Handle, RootHandle
  <1> QED BY <1>3, <1>4, <1>5, <1>6, <1>7 DEF GroupsInv

\* A count of 0 means that no domain is mapped to the group.
LEMMA UnreferencedUnmapped ==
  ASSUME GroupsInv, NEW h \in Handle, Live(h), inst[h].ref = 0
  PROVE  \A d \in Domain : secMap[d] # h
PROOF
  <1>1. IsFiniteSet(inst[h].bound) /\ Cardinality(inst[h].bound) <= 0
    BY DEF GroupsInv, BoundFinite, RefCoversBound
  <1>2. inst[h].bound = {}
    BY <1>1, FS_CardinalityType, FS_EmptySet
  <1> QED BY <1>2, NoHandleAssumption DEF GroupsInv, MembershipSound, Handle

\* A forced destruction clears the entry of every domain mapped to the group.
LEMMA MapWithoutClears ==
  ASSUME GroupsInv, NEW h \in Handle, Live(h)
  PROVE  /\ MapWithout(h) \in [Domain -> Handle \cup {None}]
         /\ \A d \in Domain : /\ MapWithout(h)[d] # h
                              /\ MapWithout(h)[d] # None => MapWithout(h)[d] = secMap[d]
PROOF
  BY NoHandleAssumption DEF GroupsInv, GroupsTypeOK, MembershipSound, MapWithout, Handle

\* A live group gains a member, and its count goes up at least by one.
LEMMA MemberAdded ==
  ASSUME GroupsInv, NEW h \in Handle, NEW d \in Domain, Live(h),
         NEW count \in Nat, count > inst[h].ref,
         inst' = [inst EXCEPT ![h] = WithMembers(inst[h], inst[h].bound \cup {d}, count)],
         secMap' = [secMap EXCEPT ![d] = h],
         UNCHANGED <<idMap, regions, nextHandle>>
  PROVE  GroupsInv'
PROOF
  <1> USE NoGroupAssumption, NoHandleAssumption
  <1>1. PICK g : g = WithMembers(inst[h], inst[h].bound \cup {d}, count)
    OBVIOUS
  <1>2. inst[h] \in Group /\ Live(h)
    BY DEF GroupsInv, GroupsTypeOK, Live
  <1>3. /\ g \in Group /\ g # None
        /\ g.bound = inst[h].bound \cup {d} /\ g.ref = count
        /\ g.encrypted = inst[h].encrypted /\ g.confidential = inst[h].confidential
    BY <1>1, <1>2, GroupFields, WithMembersFields
  <1>4. /\ inst' = [inst EXCEPT ![h] = g] /\ secMap' = [secMap EXCEPT ![d] = h]
        /\ UNCHANGED <<idMap, regions, nextHandle>>
    BY <1>1
  <1>5. /\ \A k \in Handle : inst'[k] = IF k = h THEN g ELSE inst[k]
        /\ \A k \in Handle : Live(k)' <=> Live(k)
    BY <1>2, <1>3, <1>4 DEF GroupsInv, GroupsTypeOK, Live
  <1>6. GroupsTypeOK'
    BY <1>3, <1>4 DEF GroupsInv, GroupsTypeOK
  <1>7. FreshHandles' /\ RegionsOwned' /\ RootGroupLives'
    <2>1. RootHandle \in Handle
      BY GroupBoundAssumption DEF RootHandle, Handle
    <2>2. FreshHandles'
      BY <1>4, <1>5 DEF GroupsInv, FreshHandles
    <2>3. RegionsOwned'
      BY <1>3, <1>4, <1>5 DEF GroupsInv, GroupsTypeOK, RegionsOwned
    <2>4. RootGroupLives'
      BY <2>1, <1>3, <1>5 DEF GroupsInv, RootGroupLives
    <2> QED BY <2>2, <2>3, <2>4
  <1>8. BoundFinite' /\ RefCoversBound'
    <2>1. IsFiniteSet(g.bound) /\ Cardinality(g.bound) <= g.ref
      <3>1. IsFiniteSet(inst[h].bound) /\ Cardinality(inst[h].bound) <= inst[h].ref
        BY <1>2 DEF GroupsInv, BoundFinite, RefCoversBound
      <3>2. inst[h].ref \in Nat /\ Cardinality(inst[h].bound) \in Nat
        BY <1>2, <3>1, FS_CardinalityType DEF Group
      <3>3. /\ IsFiniteSet(inst[h].bound \cup {d})
            /\ Cardinality(inst[h].bound \cup {d}) =
                 IF d \in inst[h].bound THEN Cardinality(inst[h].bound)
                 ELSE Cardinality(inst[h].bound) + 1
        BY <3>1, FS_AddElement
      <3> QED BY <1>3, <3>1, <3>2, <3>3
    <2> QED BY <2>1, <1>5 DEF GroupsInv, BoundFinite, RefCoversBound
  <1>9. MembershipSound'
    BY <1>2, <1>3, <1>4, <1>5 DEF GroupsInv, GroupsTypeOK, MembershipSound
  <1> QED BY <1>6, <1>7, <1>8, <1>9 DEF GroupsInv

LEMMA BindKeeps ==
  ASSUME GroupsInv, NEW h \in Handle, NEW d \in Domain, Bind(h, d)
  PROVE  GroupsInv'
PROOF
  <1>1. inst[h] \in Group /\ Live(h) /\ inst[h].ref \in Nat
    BY GroupFields DEF GroupsInv, GroupsTypeOK, Bind, Live
  <1>2. inst' = [inst EXCEPT ![h] =
                   WithMembers(inst[h], inst[h].bound \cup {d}, inst[h].ref + 1)]
    BY <1>1 DEF Bind, InstBound, Live, WithMembers
  <1>3. secMap' = [secMap EXCEPT ![d] = h] /\ UNCHANGED <<idMap, regions, nextHandle>>
    BY <1>1 DEF Bind, MapBound
  <1>4. inst[h].ref + 1 \in Nat /\ inst[h].ref + 1 > inst[h].ref
    BY <1>1
  <1> QED BY <1>1, <1>2, <1>3, <1>4, MemberAdded

LEMMA UnbindKeeps ==
  ASSUME GroupsInv, NEW h \in Handle, NEW d \in Domain, Unbind(h, d)
  PROVE  GroupsInv'
PROOF
  <1> USE NoGroupAssumption, NoHandleAssumption
  <1>1. PICK g : g = IF d \in inst[h].bound
                     THEN WithMembers(inst[h], inst[h].bound \ {d},
                                      IF inst[h].ref = 0 THEN 0 ELSE inst[h].ref - 1)
                     ELSE inst[h]
    OBVIOUS
  <1>2. inst[h] \in Group /\ Live(h) /\ inst[h].ref \in Nat
    BY GroupFields DEF GroupsInv, GroupsTypeOK, Unbind, Live
  <1>3. /\ g \in Group /\ g # None
        /\ g.bound = inst[h].bound \ {d}
        /\ g.ref = IF d \notin inst[h].bound \/ inst[h].ref = 0 THEN inst[h].ref
                   ELSE inst[h].ref - 1
        /\ g.encrypted = inst[h].encrypted /\ g.confidential = inst[h].confidential
    BY <1>1, <1>2, GroupFields, WithMembersFields, NoGroupAssumption
  <1>4. /\ inst' = [inst EXCEPT ![h] = g] /\ secMap' = [secMap EXCEPT ![d] = None]
        /\ UNCHANGED <<idMap, regions, nextHandle>>
    BY <1>1, <1>2 DEF Unbind, InstUnbound, MapUnbound, WithMembers, GroupsInv, GroupsTypeOK
  <1>5. /\ \A k \in Handle : inst'[k] = IF k = h THEN g ELSE inst[k]
        /\ \A k \in Handle : Live(k)' <=> Live(k)
    BY <1>2, <1>3, <1>4 DEF GroupsInv, GroupsTypeOK, Live
  <1>6. GroupsTypeOK'
    BY <1>3, <1>4 DEF GroupsInv, GroupsTypeOK
  <1>7. FreshHandles' /\ RegionsOwned' /\ RootGroupLives'
    <2>1. RootHandle \in Handle
      BY GroupBoundAssumption DEF RootHandle, Handle
    <2>2. FreshHandles'
      BY <1>4, <1>5 DEF GroupsInv, FreshHandles
    <2>3. RegionsOwned'
      BY <1>3, <1>4, <1>5 DEF GroupsInv, GroupsTypeOK, RegionsOwned
    <2>4. RootGroupLives'
      BY <2>1, <1>3, <1>5 DEF GroupsInv, RootGroupLives
    <2> QED BY <2>2, <2>3, <2>4
  <1>8. BoundFinite' /\ RefCoversBound'
    <2>1. IsFiniteSet(g.bound) /\ Cardinality(g.bound) <= g.ref
      <3>1. IsFiniteSet(inst[h].bound) /\ Cardinality(inst[h].bound) <= inst[h].ref
        BY <1>2 DEF GroupsInv, BoundFinite, RefCoversBound
      <3>2. Cardinality(inst[h].bound) \in Nat
        BY <3>1, FS_CardinalityType
      <3>3. /\ IsFiniteSet(inst[h].bound \ {d})
            /\ Cardinality(inst[h].bound \ {d}) =
                 IF d \in inst[h].bound THEN Cardinality(inst[h].bound) - 1
                 ELSE Cardinality(inst[h].bound)
        BY <3>1, FS_RemoveElement
      <3>4. Cardinality(inst[h].bound \ {d}) \in Nat
        BY <3>3, FS_CardinalityType
      <3> QED BY <1>2, <1>3, <3>1, <3>2, <3>3, <3>4
    <2> QED BY <2>1, <1>5 DEF GroupsInv, BoundFinite, RefCoversBound
  <1>9. MembershipSound'
    BY <1>2, <1>3, <1>4, <1>5 DEF GroupsInv, GroupsTypeOK, MembershipSound
  <1> QED BY <1>6, <1>7, <1>8, <1>9 DEF GroupsInv

\* The accessor list is no part of the membership tables.
LEMMA AccessorsKeep ==
  ASSUME GroupsInv, NEW h \in Handle, Live(h), NEW x \in SUBSET Domain,
         inst' = [inst EXCEPT ![h].accessors = x],
         UNCHANGED <<secMap, idMap, regions, nextHandle>>
  PROVE  GroupsInv'
PROOF
  <1> USE NoGroupAssumption, NoHandleAssumption
  <1>1. inst[h] \in Group
    BY DEF GroupsInv, GroupsTypeOK, Live
  <1>2. PICK g : g = [inst[h] EXCEPT !.accessors = x]
    OBVIOUS
  <1>3. /\ g \in Group /\ g # None /\ g.bound = inst[h].bound /\ g.ref = inst[h].ref
        /\ g.encrypted = inst[h].encrypted /\ g.confidential = inst[h].confidential
    BY <1>1, <1>2 DEF Group
  <1>4. /\ \A k \in Handle : inst'[k] = IF k = h THEN g ELSE inst[k]
        /\ \A k \in Handle : Live(k)' <=> Live(k)
    BY <1>2, <1>3 DEF GroupsInv, GroupsTypeOK, Live
  <1>5. GroupsTypeOK'
    BY <1>2, <1>3 DEF GroupsInv, GroupsTypeOK
  <1> QED BY <1>3, <1>4, <1>5, GroupBoundAssumption
          DEF GroupsInv, GroupsTypeOK, FreshHandles, BoundFinite, RefCoversBound,
              MembershipSound, RegionsOwned, RootGroupLives, RootHandle, Handle

LEMMA NextKeeps == GroupsInv /\ [GroupsNext]_groupVars => GroupsInv'
PROOF
  <1> SUFFICES ASSUME GroupsInv, [GroupsNext]_groupVars PROVE GroupsInv'
    OBVIOUS
  <1> USE DEF GroupsInv
  <1>1. ASSUME NEW d \in Domain, NEW conf \in BOOLEAN, NEW enc \in BOOLEAN,
               Create(d, conf, enc)
        PROVE  GroupsInv'
    BY <1>1, CreateKeeps
  <1>2. ASSUME NEW h \in Handle, NEW d \in Domain, Destroy(h, d) PROVE GroupsInv'
    BY <1>2, UnreferencedUnmapped, DissolveKeeps DEF Destroy, GroupsTypeOK
  <1>3. ASSUME NEW h \in Handle, NEW d \in Domain, DestroyForce(h, d) PROVE GroupsInv'
    BY <1>3, MapWithoutClears, DissolveKeeps DEF DestroyForce, GroupsTypeOK
  <1>4. ASSUME NEW h \in Handle, DestroyConfidential(h) PROVE GroupsInv'
    <2>1. h # RootHandle
      BY <1>4 DEF DestroyConfidential, RootGroupLives
    <2> QED BY <1>4, <2>1, MapWithoutClears, DissolveKeeps DEF DestroyConfidential, GroupsTypeOK
  <1>5. ASSUME NEW h \in Handle, NEW d \in Domain, Bind(h, d) PROVE GroupsInv'
    BY <1>5, BindKeeps
  <1>6. ASSUME NEW h \in Handle, NEW d \in Domain, Unbind(h, d) PROVE GroupsInv'
    BY <1>6, UnbindKeeps
  <1>7. ASSUME NEW h \in Handle, NEW d \in Domain,
               AddAccessor(h, d) \/ RemoveAccessor(h, d)
        PROVE  GroupsInv'
    <2>1. inst[h] \in Group /\ inst[h].accessors \in SUBSET Domain
      BY <1>7, GroupFields DEF AddAccessor, RemoveAccessor, GroupsTypeOK, Live
    <2>2. PICK x \in SUBSET Domain : inst' = [inst EXCEPT ![h].accessors = x]
      BY <1>7, <2>1 DEF AddAccessor, RemoveAccessor
    <2> QED BY <1>7, <2>2, AccessorsKeep DEF AddAccessor, RemoveAccessor
  <1>8. ASSUME NEW h \in Handle, NEW s \in Start, SetEncryption(h, s) PROVE GroupsInv'
    <2>1. UNCHANGED <<inst, secMap, idMap, nextHandle>> /\ Live(h) /\ inst[h].encrypted
          /\ regions' = [regions EXCEPT ![s] = h]
      BY <1>8 DEF SetEncryption
    <2>2. GroupsTypeOK' /\ RegionsOwned'
      BY <2>1 DEF GroupsTypeOK, RegionsOwned, Live
    <2> QED BY <2>1, <2>2 DEF FreshHandles, BoundFinite, RefCoversBound,
                              MembershipSound, RootGroupLives, Live
  <1>9. CASE UNCHANGED groupVars
    BY <1>9 DEF groupVars, GroupsTypeOK, FreshHandles, BoundFinite, RefCoversBound,
                MembershipSound, RegionsOwned, RootGroupLives, Live
  <1> QED BY <1>1, <1>2, <1>3, <1>4, <1>5, <1>6, <1>7, <1>8, <1>9 DEF GroupsNext

LEMMA GroupsInvAlways == GroupsSpec => []GroupsInv
PROOF
  BY InitGroups, NextKeeps, PTL DEF GroupsSpec

-----------------------------------------------------------------------------
\* The controller's tables keep their shape (security_group.py:119-617).
THEOREM GroupsTypeCorrect == GroupsSpec => []GroupsTypeOK
PROOF
  <1>1. GroupsInv => GroupsTypeOK
    BY DEF GroupsInv
  <1> QED BY <1>1, GroupsInvAlways, PTL

\* The count destroy looks at never falls below the number of bound domains,
\* however bind and unbind are repeated or misdirected
\* (security_group.py:295, 455, 478).
THEOREM CountNeverTooLow == GroupsSpec => []RefCoversBound
PROOF
  <1>1. GroupsInv => RefCoversBound
    BY DEF GroupsInv
  <1> QED BY <1>1, GroupsInvAlways, PTL

\* A domain is mapped only to a live group that lists it
\* (security_group.py:439-484, 269-428).
THEOREM MembershipStaysSound == GroupsSpec => []MembershipSound
PROOF
  <1>1. GroupsInv => MembershipSound
    BY DEF GroupsInv
  <1> QED BY <1>1, GroupsInvAlways, PTL

\* No encrypted region survives its group (security_group.py:597-647).
THEOREM RegionsStayOwned == GroupsSpec => []RegionsOwned
PROOF
  <1>1. GroupsInv => RegionsOwned
    BY DEF GroupsInv
  <1> QED BY <1>1, GroupsInvAlways, PTL

\* The default group cannot be dissolved (security_group.py:143-172, 299, 338).
THEOREM RootGroupStays == GroupsSpec => []RootGroupLives
PROOF
  <1>1. GroupsInv => RootGroupLives
    BY DEF GroupsInv
  <1> QED BY <1>1, GroupsInvAlways, PTL

\* Only members of a confidential group pass check_dma_access for it
\* (security_group.py:517-575).
THEOREM ConfidentialStaysSealed == GroupsSpec => []ConfidentialSealed
PROOF
  <1>1. ASSUME GroupsInv, NEW h \in Handle, Live(h), inst[h].confidential,
               NEW d \in Domain, CheckDma(h, d)
        PROVE  d \in inst[h].bound
    <2>1. GroupOf(d) = h
      BY <1>1 DEF CheckDma
    <2>2. h # RootHandle
      BY <1>1 DEF GroupsInv, RootGroupLives
    <2>3. secMap[d] = h /\ secMap[d] # None
      BY <2>1, <2>2 DEF GroupOf
    <2> QED BY <1>1, <2>3 DEF GroupsInv, MembershipSound
  <1>2. GroupsInv => ConfidentialSealed
    BY <1>1 DEF ConfidentialSealed
  <1> QED BY <1>2, GroupsInvAlways, PTL

\* A handle whose group is gone never names a group again
\* (security_group.py:236-238).
THEOREM HandlesStayDead == GroupsSpec => HandlesNotReused
PROOF
  <1> DEFINE Same == \A h \in Handle : h < nextHandle /\ ~Live(h) => inst'[h] = None
  <1>1. ASSUME GroupsInv, [GroupsNext]_groupVars PROVE Same
    <2> SUFFICES ASSUME NEW h \in Handle, h < nextHandle, ~Live(h) PROVE inst'[h] = None
      OBVIOUS
    <2>1. inst \in [Handle -> Group \cup {None}] /\ inst[h] = None /\ nextHandle \in Nat /\ h # nextHandle
      BY <1>1 DEF GroupsInv, GroupsTypeOK, Live, Handle
    <2>2. CASE \E d \in Domain, conf, enc \in BOOLEAN : Create(d, conf, enc)
      BY <2>1, <2>2 DEF Create
    <2>3. CASE UNCHANGED inst
      BY <2>1, <2>3
    <2>4. CASE \E k \in Handle : Live(k) /\ inst' = [inst EXCEPT ![k] = None]
      BY <2>1, <2>4
    <2>5. CASE \E k \in Handle, d \in Domain : Bind(k, d)
      <3>1. PICK k \in Handle, d \in Domain : Bind(k, d)
        BY <2>5
      <3>2. h # k
        BY <2>1, <3>1 DEF Bind, Live
      <3> QED BY <2>1, <3>1, <3>2 DEF Bind, InstBound
    <2>6. CASE \E k \in Handle, d \in Domain : Unbind(k, d)
      <3>1. PICK k \in Handle, d \in Domain : Unbind(k, d)
        BY <2>6
      <3>2. h # k
        BY <2>1, <3>1 DEF Unbind, Live
      <3> QED BY <2>1, <3>1, <3>2 DEF Unbind, InstUnbound
    <2>7. CASE \E k \in Handle, d \in Domain : AddAccessor(k, d) \/ RemoveAccessor(k, d)
      <3>1. PICK k \in Handle, d \in Domain : AddAccessor(k, d) \/ RemoveAccessor(k, d)
        BY <2>7
      <3>2. h # k
        BY <2>1, <3>1 DEF AddAccessor, RemoveAccessor, Live
      <3> QED BY <2>1, <3>1, <3>2 DEF AddAccessor, RemoveAccessor
    <2> QED BY <1>1, <2>2, <2>3, <2>4, <2>5, <2>6, <2>7
            DEF GroupsNext, groupVars, Destroy, DestroyForce, DestroyConfidential, SetEncryption
  <1>2. GroupsInv /\ [GroupsNext]_groupVars => [Same]_groupVars
    BY <1>1
  <1> QED BY <1>2, GroupsInvAlways, PTL DEF GroupsSpec, HandlesNotReused
=============================================================================
