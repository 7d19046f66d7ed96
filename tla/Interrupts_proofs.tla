-------------------------- MODULE Interrupts_proofs --------------------------
(***************************************************************************)
(* Proofs about Interrupts, for any number of domains, instances and IRQs. *)
(*                                                                         *)
(* The invariant is stated of a controller c, and the lemmas are about the *)
(* operations as functions on c, so that a core that combines several of   *)
(* them in one step can cite them.                                         *)
(***************************************************************************)
EXTENDS Interrupts, SequenceTheorems, WellFoundedInduction, TLAPS

Controller ==
  [inst : [Instance -> InstanceRecord \cup {NoInstance}],
   lists : [Owner -> Seq(Instance)],
   next : 1 .. MaxInstance + 1,
   pending : BOOLEAN]

\* A strictly increasing sequence.
Ascending(s) == \A j, k \in DOMAIN s : j < k => s[j] < s[k]

\* Parent handles are older, and no handle from the counter on is in use.
Aged(c) ==
  \A h \in Instance : c.inst[h] # NoInstance => h < c.next /\ c.inst[h].parent < h

Unhidden(c) ==
  (\E h \in Instance : Exists(c, h) /\ c.inst[h].pending # {}) => c.pending

Listed(c) ==
  \A d \in Owner :
    /\ ToSet(c.lists[d]) = {h \in Instance : Exists(c, h) /\ c.inst[h].owner = d}
    /\ Ascending(c.lists[d])

Linked(c) ==
  \A h \in Instance : Exists(c, h) /\ c.inst[h].child # NoInstanceHandle =>
    /\ Exists(c, c.inst[h].child)
    /\ c.inst[c.inst[h].child].parent = h

Sound(c) == c \in Controller /\ Aged(c) /\ Unhidden(c) /\ Listed(c) /\ Linked(c)

\* The first of several positions exists.
LEMMA MinIsFirst ==
  ASSUME NEW S \in SUBSET Nat, S # {}
  PROVE  Min(S) \in S /\ \A y \in S : Min(S) <= y
PROOF
  <1> DEFINE R == {ss \in Nat \X Nat : ss[1] < ss[2]}
  <1>1. IsWellFoundedOn(R, Nat)
    BY NatLessThanWellFounded DEF OpToRel
  <1>2. PICK x \in S : \A y \in S : <<y, x>> \notin R
    BY <1>1, WFMin
  <1>3. ASSUME NEW y \in S PROVE x <= y
    <2>1. x \in Nat /\ y \in Nat
      OBVIOUS
    <2>2. y < x => <<y, x>> \in R
      BY <2>1
    <2> HIDE DEF R
    <2> QED BY <1>2, <2>1, <2>2
  <1> QED BY <1>3 DEF Min

\* list.remove on an ascending list takes out the element and nothing else.
LEMMA RemoveFirstExact ==
  ASSUME NEW S, S \subseteq Nat, NEW s \in Seq(S), Ascending(s), NEW h
  PROVE  /\ RemoveFirst(s, h) \in Seq(S)
         /\ ToSet(RemoveFirst(s, h)) = ToSet(s) \ {h}
         /\ Ascending(RemoveFirst(s, h))
PROOF
  <1> DEFINE r == RemoveFirst(s, h)
             I == {i \in 1 .. Len(s) : s[i] = h}
  <1>1. Len(s) \in Nat /\ DOMAIN s = 1 .. Len(s) /\ \A i \in 1 .. Len(s) : s[i] \in S /\ s[i] \in Nat
    <2>1. Len(s) \in Nat /\ DOMAIN s = 1 .. Len(s) /\ \A i \in 1 .. Len(s) : s[i] \in S
      BY ElementOfSeq, LenProperties
    <2> QED BY <2>1
  <1>2. CASE I = {}
    <2>1. r = s
      BY <1>2 DEF RemoveFirst
    <2>2. h \notin ToSet(s)
      BY <1>1, <1>2 DEF ToSet
    <2> QED BY <2>1, <2>2
  <1>3. CASE I # {}
    <2>1. PICK i \in 1 .. Len(s) : s[i] = h
      BY <1>3
    <2>2. \A j \in 1 .. Len(s) : j # i => s[j] # h
      BY <1>1, <2>1 DEF Ascending
    <2>3. I = {i}
      BY <2>1, <2>2
    <2>4. Min(I) = i
      <3>1. I \in SUBSET Nat /\ I # {}
        BY <2>1, <2>3
      <3> HIDE DEF I
      <3>2. Min(I) \in I
        BY <3>1, MinIsFirst
      <3> QED BY <2>3, <3>2
    <2>5. r = SubSeq(s, 1, i - 1) \o SubSeq(s, i + 1, Len(s))
      <3>1. \E j \in 1 .. Len(s) : s[j] = h
        BY <2>1
      <3>2. SelectInSeq(s, LAMBDA v : v = h) = i
        BY <1>3, <2>4 DEF SelectInSeq
      <3> QED BY <3>1, <3>2 DEF RemoveFirst, RemoveAt
    <2> HIDE DEF I, r
    <2>6. /\ r \in Seq(S) /\ Len(r) = Len(s) - 1
          /\ \A k \in 1 .. Len(s) - 1 : r[k] = IF k < i THEN s[k] ELSE s[k + 1]
      <3> DEFINE u == SubSeq(s, 1, i - 1)
                 w == SubSeq(s, i + 1, Len(s))
      <3>1. /\ u \in Seq(S) /\ Len(u) = i - 1
            /\ \A k \in 1 .. i - 1 : u[k] = s[k]
        <4>1. /\ u \in Seq(S) /\ Len(u) = IF 1 <= i - 1 THEN (i - 1) - 1 + 1 ELSE 0
              /\ \A k \in 1 .. (i - 1) - 1 + 1 : u[k] = s[1 + k - 1]
          BY <1>1, <2>1, SubSeqProperties
        <4> HIDE DEF u
        <4>2. \A k \in 1 .. i - 1 : u[k] = s[1 + k - 1] /\ 1 + k - 1 = k
          BY <4>1
        <4> QED BY <4>1, <4>2
      <3>2. /\ w \in Seq(S) /\ Len(w) = Len(s) - i
            /\ \A k \in 1 .. Len(s) - i : w[k] = s[k + i]
        <4>1. /\ w \in Seq(S)
              /\ Len(w) = IF i + 1 <= Len(s) THEN Len(s) - (i + 1) + 1 ELSE 0
              /\ \A k \in 1 .. Len(s) - (i + 1) + 1 : w[k] = s[(i + 1) + k - 1]
          BY <1>1, <2>1, SubSeqProperties
        <4> HIDE DEF w
        <4>2. i \in Nat /\ i >= 1 /\ i <= Len(s) /\ Len(s) \in Nat
          BY <1>1, <2>1
        <4>3. Len(s) - (i + 1) + 1 = Len(s) - i
          BY <4>2
        <4>4. Len(w) = Len(s) - i
          BY <4>1, <4>2
        <4>5. \A k \in 1 .. Len(s) - i : w[k] = s[k + i]
          <5> SUFFICES ASSUME NEW k \in 1 .. Len(s) - i PROVE w[k] = s[k + i]
            OBVIOUS
          <5>1. w[k] = s[(i + 1) + k - 1]
            BY <4>1, <4>3
          <5>2. (i + 1) + k - 1 = k + i
            BY <4>2
          <5> QED BY <5>1, <5>2
        <4> QED BY <4>1, <4>4, <4>5
      <3> HIDE DEF u, w
      <3>3. /\ r \in Seq(S) /\ Len(r) = Len(u) + Len(w)
            /\ \A k \in 1 .. Len(u) + Len(w) :
                 r[k] = IF k <= Len(u) THEN u[k] ELSE w[k - Len(u)]
        BY <2>5, <3>1, <3>2, ConcatProperties DEF u, w
      <3>4. Len(r) = Len(s) - 1
        BY <1>1, <3>1, <3>2, <3>3
      <3>5. ASSUME NEW k \in 1 .. Len(s) - 1
            PROVE  r[k] = IF k < i THEN s[k] ELSE s[k + 1]
        <4>1. k \in 1 .. Len(u) + Len(w)
          BY <1>1, <3>1, <3>2
        <4>2. CASE k < i
          BY <1>1, <3>1, <3>3, <4>1, <4>2
        <4>3. CASE ~(k < i)
          <5>1. r[k] = w[k - (i - 1)]
            BY <1>1, <3>1, <3>3, <4>1, <4>3
          <5>2. k - (i - 1) \in 1 .. Len(s) - i /\ (k - (i - 1)) + i = k + 1
            BY <1>1, <4>3
          <5> QED BY <3>2, <4>3, <5>1, <5>2
        <4> QED BY <4>2, <4>3
      <3> QED BY <3>3, <3>4, <3>5
    <2>7. DOMAIN r = 1 .. Len(s) - 1
      BY <2>6
    <2>8. Ascending(r)
      <3> SUFFICES ASSUME NEW j \in 1 .. Len(s) - 1, NEW k \in 1 .. Len(s) - 1, j < k
                   PROVE  r[j] < r[k]
        BY <2>7 DEF Ascending
      <3>1. j \in 1 .. Len(s) /\ j + 1 \in 1 .. Len(s) /\ k \in 1 .. Len(s)
            /\ k + 1 \in 1 .. Len(s) /\ j < k + 1 /\ j + 1 < k + 1
        BY <1>1
      <3>2. s[j] < s[k] /\ s[j] < s[k + 1] /\ s[j + 1] < s[k + 1]
        BY <1>1, <3>1 DEF Ascending
      <3> QED BY <2>6, <3>2
    <2>9. \A x \in ToSet(r) : x \in ToSet(s) /\ x # h
      <3> SUFFICES ASSUME NEW k \in 1 .. Len(s) - 1
                   PROVE  r[k] \in ToSet(s) /\ r[k] # h
        BY <2>7 DEF ToSet
      <3>1. CASE k < i
        <4>1. k \in 1 .. Len(s) /\ k # i /\ r[k] = s[k]
          BY <1>1, <2>1, <2>6, <3>1
        <4> QED BY <1>1, <2>2, <4>1 DEF ToSet
      <3>2. CASE ~(k < i)
        <4>1. k + 1 \in 1 .. Len(s) /\ k + 1 # i /\ r[k] = s[k + 1]
          BY <1>1, <2>1, <2>6, <3>2
        <4> QED BY <1>1, <2>2, <4>1 DEF ToSet
      <3> QED BY <3>1, <3>2
    <2>10. \A x \in ToSet(s) \ {h} : x \in ToSet(r)
      <3> SUFFICES ASSUME NEW j \in 1 .. Len(s), s[j] # h PROVE s[j] \in ToSet(r)
        BY <1>1 DEF ToSet
      <3>1. CASE j < i
        <4>1. j \in 1 .. Len(s) - 1 /\ r[j] = s[j]
          BY <1>1, <2>1, <2>6, <3>1
        <4> QED BY <2>7, <4>1 DEF ToSet
      <3>2. CASE j > i
        <4>1. j - 1 \in 1 .. Len(s) - 1 /\ r[j - 1] = s[j]
          BY <1>1, <2>1, <2>6, <3>2
        <4> QED BY <2>7, <4>1 DEF ToSet
      <3> QED BY <1>1, <2>1, <3>1, <3>2
    <2> QED BY <2>6, <2>8, <2>9, <2>10 DEF r
  <1> QED BY <1>2, <1>3

-----------------------------------------------------------------------------
(* The operations keep a controller sound.                                 *)

LEMMA InitSound == Sound(ControllerInit)
PROOF
  <1> DEFINE c == ControllerInit
  <1>1. /\ c.inst = [h \in Instance |-> NoInstance] /\ c.lists = [d \in Owner |-> <<>>]
        /\ c.next = 1 /\ c.pending = FALSE
    BY DEF ControllerInit
  <1>2. c \in Controller
    <2>1. c.lists \in [Owner -> Seq(Instance)]
      BY <1>1
    <2>2. 1 \in 1 .. MaxInstance + 1
      BY InstanceBoundAssumption
    <2> QED BY <1>1, <2>1, <2>2 DEF ControllerInit, Controller
  <1> HIDE DEF c
  <1>3. \A h : ~Exists(c, h)
    BY <1>1 DEF Exists
  <1>4. Aged(c) /\ Unhidden(c) /\ Linked(c)
    BY <1>1, <1>3 DEF Aged, Unhidden, Linked
  <1>5. Listed(c)
    <2>1. \A d \in Owner : c.lists[d] = <<>>
      BY <1>1
    <2> QED BY <1>3, <2>1 DEF Listed, ToSet, Ascending
  <1> QED BY <1>2, <1>4, <1>5 DEF Sound, c

\* An operation that leaves the lists, the handles and the links alone, and
\* hides no interrupt, keeps a controller sound.
LEMMA FieldsSound ==
  ASSUME NEW c, Sound(c), NEW k \in Controller, k.lists = c.lists, k.next = c.next,
         \A h \in Instance :
           /\ k.inst[h] = NoInstance <=> c.inst[h] = NoInstance
           /\ c.inst[h] # NoInstance => /\ k.inst[h].owner = c.inst[h].owner
                                        /\ k.inst[h].parent = c.inst[h].parent
                                        /\ k.inst[h].child = c.inst[h].child,
         Unhidden(k)
  PROVE  Sound(k)
PROOF
  <1>1. \A h : Exists(k, h) <=> Exists(c, h)
    BY DEF Exists
  <1>2. Aged(k)
    BY DEF Aged, Sound
  <1>3. Listed(k)
    <2> SUFFICES ASSUME NEW d \in Owner
                 PROVE  {h \in Instance : Exists(k, h) /\ k.inst[h].owner = d}
                          = {h \in Instance : Exists(c, h) /\ c.inst[h].owner = d}
      BY DEF Listed, Sound
    <2> QED BY <1>1 DEF Exists
  <1>4. Linked(k)
    <2> SUFFICES ASSUME NEW h \in Instance, Exists(k, h), k.inst[h].child # NoInstanceHandle
                 PROVE  /\ Exists(k, k.inst[h].child)
                        /\ k.inst[k.inst[h].child].parent = h
      BY DEF Linked
    <2>1. Exists(c, h) /\ k.inst[h].child = c.inst[h].child
      BY <1>1 DEF Exists
    <2>2. Exists(c, c.inst[h].child) /\ c.inst[c.inst[h].child].parent = h
      BY <2>1 DEF Linked, Sound
    <2>3. c.inst[h].child \in Instance /\ c.inst[c.inst[h].child] # NoInstance
      BY <2>2 DEF Exists
    <2> QED BY <1>1, <2>1, <2>2, <2>3
  <1> QED BY <1>2, <1>3, <1>4 DEF Sound

LEMMA RequestedSound ==
  ASSUME NEW c, Sound(c), NEW d \in Owner, NEW rights \in Grant,
         NEW p \in 0 .. MaxInstance, c.next <= MaxInstance, p < c.next
  PROVE  Sound(Requested(c, d, rights, p))
PROOF
  <1> DEFINE h == c.next
             new == NewInstance(d, rights, p)
             k == Requested(c, d, rights, p)
  <1>1. /\ c \in Controller /\ c.inst \in [Instance -> InstanceRecord \cup {NoInstance}]
        /\ c.lists \in [Owner -> Seq(Instance)] /\ h \in 1 .. MaxInstance + 1
    BY DEF Sound, Controller
  <1>2. h \in Instance /\ h \in Nat /\ c.inst[h] = NoInstance /\ 0 \notin Instance
    BY <1>1, InstanceBoundAssumption DEF Sound, Aged, Instance
  <1>3. new \in InstanceRecord /\ new # NoInstance
    <2>1. new \in InstanceRecord
      BY InstanceBoundAssumption DEF NewInstance, InstanceRecord, NoInstanceHandle
    <2> QED BY <2>1, NoInstanceAssumption
  <1>4. /\ new.owner = d /\ new.parent = p /\ new.child = NoInstanceHandle
        /\ new.pending = {}
    BY DEF NewInstance
  <1> HIDE DEF new
  <1> DEFINE added == [c.inst EXCEPT ![h] = new]
             inst == IF Exists(c, p) THEN [added EXCEPT ![p].child = h] ELSE added
  <1>5. k = [c EXCEPT !.next = h + 1, !.lists[d] = Append(@, h), !.inst = inst]
    BY DEF Requested, new
  <1>6. \A g \in Instance \ {h} : c.inst[g] # NoInstance =>
          c.inst[g] \in InstanceRecord /\ [c.inst[g] EXCEPT !.child = h] \in InstanceRecord
    <2>1. h \in 0 .. MaxInstance
      BY <1>2, InstanceBoundAssumption DEF Instance
    <2> HIDE DEF h
    <2>2. \A x \in InstanceRecord : [x EXCEPT !.child = h] \in InstanceRecord
      BY <2>1 DEF InstanceRecord
    <2> QED BY <1>1, <2>2
  <1>7. /\ inst \in [Instance -> InstanceRecord \cup {NoInstance}]
        /\ inst[h] = new
        /\ \A g \in Instance \ {h} :
             inst[g] = IF g = p /\ c.inst[g] # NoInstance
                       THEN [c.inst[g] EXCEPT !.child = h] ELSE c.inst[g]
    <2>1. p # h
      BY <1>2
    <2>2. /\ added \in [Instance -> InstanceRecord \cup {NoInstance}] /\ added[h] = new
          /\ \A g \in Instance \ {h} : added[g] = c.inst[g]
      BY <1>1, <1>2, <1>3
    <2>3. CASE Exists(c, p)
      <3>1. p \in Instance \ {h} /\ c.inst[p] # NoInstance
        BY <2>1, <2>3 DEF Exists
      <3>2. inst = [added EXCEPT ![p] = [c.inst[p] EXCEPT !.child = h]]
        BY <2>2, <2>3, <3>1
      <3> QED BY <1>6, <2>2, <3>1, <3>2
    <2>4. CASE ~Exists(c, p)
      <3>1. inst = added
        BY <2>4
      <3> QED BY <2>2, <2>4, <3>1 DEF Exists
    <2> QED BY <2>3, <2>4
  <1> HIDE DEF inst, added
  <1>8. /\ k \in Controller /\ k.inst = inst /\ k.next = h + 1 /\ k.pending = c.pending
        /\ k.lists = [c.lists EXCEPT ![d] = Append(@, h)]
    <2>1. [c.lists EXCEPT ![d] = Append(@, h)] \in [Owner -> Seq(Instance)]
      BY <1>1, <1>2
    <2>2. h + 1 \in 1 .. MaxInstance + 1
      BY <1>2, InstanceBoundAssumption
    <2> QED BY <1>1, <1>5, <1>7, <2>1, <2>2 DEF Controller
  <1> HIDE DEF k
  <1>9. \A g \in Instance \ {h} :
          /\ inst[g] = NoInstance <=> c.inst[g] = NoInstance
          /\ c.inst[g] # NoInstance =>
               /\ inst[g].owner = c.inst[g].owner /\ inst[g].parent = c.inst[g].parent
               /\ inst[g].pending = c.inst[g].pending
               /\ inst[g].child = IF g = p THEN h ELSE c.inst[g].child
    <2> SUFFICES ASSUME NEW g \in Instance \ {h}, c.inst[g] # NoInstance
                 PROVE  /\ inst[g] # NoInstance
                        /\ inst[g].owner = c.inst[g].owner
                        /\ inst[g].parent = c.inst[g].parent
                        /\ inst[g].pending = c.inst[g].pending
                        /\ inst[g].child = IF g = p THEN h ELSE c.inst[g].child
      BY <1>7
    <2>1. CASE g = p
      <3>1. inst[g] = [c.inst[g] EXCEPT !.child = h]
        BY <1>7, <2>1
      <3> QED BY <1>6, <2>1, <3>1, NoInstanceAssumption DEF InstanceRecord
    <2>2. CASE g # p
      BY <1>7, <2>2
    <2> QED BY <2>1, <2>2
  <1>10. \A g \in Instance : Exists(k, g) <=> g = h \/ Exists(c, g)
    BY <1>2, <1>3, <1>7, <1>8, <1>9 DEF Exists
  <1>11. Aged(k)
    <2> SUFFICES ASSUME NEW g \in Instance, inst[g] # NoInstance
                 PROVE  g < h + 1 /\ inst[g].parent < g
      BY <1>8 DEF Aged
    <2>1. CASE g = h
      BY <1>2, <1>4, <1>7, <2>1
    <2>2. CASE g # h
      <3>1. c.inst[g] # NoInstance /\ inst[g].parent = c.inst[g].parent
        BY <1>9, <2>2
      <3>2. g < h /\ c.inst[g].parent < g
        BY <3>1 DEF Sound, Aged
      <3> QED BY <1>2, <3>1, <3>2 DEF Instance
    <2> QED BY <2>1, <2>2
  <1>12. Unhidden(k)
    <2> SUFFICES ASSUME NEW g \in Instance, Exists(k, g), inst[g].pending # {}
                 PROVE  c.pending
      BY <1>8 DEF Unhidden
    <2>1. g # h
      BY <1>4, <1>7
    <2>2. Exists(c, g) /\ c.inst[g].pending # {}
      BY <1>9, <1>10, <2>1 DEF Exists
    <2> QED BY <2>2 DEF Sound, Unhidden
  <1>13. Listed(k)
    <2> SUFFICES ASSUME NEW e \in Owner
                 PROVE  /\ ToSet(k.lists[e]) = {g \in Instance : Exists(k, g) /\ inst[g].owner = e}
                        /\ Ascending(k.lists[e])
      BY <1>8 DEF Listed
    <2>1. /\ ToSet(c.lists[e]) = {g \in Instance : Exists(c, g) /\ c.inst[g].owner = e}
          /\ Ascending(c.lists[e]) /\ c.lists[e] \in Seq(Instance)
      BY <1>1 DEF Sound, Listed
    <2>2. \A g \in Instance \ {h} :
            Exists(k, g) /\ inst[g].owner = e <=> Exists(c, g) /\ c.inst[g].owner = e
      BY <1>9, <1>10 DEF Exists
    <2>3. ~Exists(c, h) /\ Exists(k, h) /\ inst[h].owner = d
      BY <1>2, <1>4, <1>7, <1>10 DEF Exists
    <2>4. CASE e # d
      <3>1. k.lists[e] = c.lists[e]
        BY <1>8, <2>4
      <3>2. {g \in Instance : Exists(k, g) /\ inst[g].owner = e}
              = {g \in Instance : Exists(c, g) /\ c.inst[g].owner = e}
        BY <2>2, <2>3, <2>4
      <3> QED BY <2>1, <3>1, <3>2
    <2>5. CASE e = d
      <3> DEFINE s == c.lists[d]
                 r == Append(s, h)
      <3>1. k.lists[e] = r
        BY <1>1, <1>8, <2>5
      <3>2. s \in Seq(Instance) /\ Len(s) \in Nat /\ DOMAIN s = 1 .. Len(s)
        BY <2>1, <2>5, LenProperties
      <3> HIDE DEF s
      <3>3. /\ DOMAIN r = 1 .. Len(s) + 1 /\ r[Len(s) + 1] = h
            /\ \A j \in 1 .. Len(s) : r[j] = s[j]
        BY <1>2, <3>2
      <3> HIDE DEF r
      <3>4. ToSet(r) = ToSet(s) \cup {h}
        BY <3>2, <3>3 DEF ToSet
      <3>5. \A j \in 1 .. Len(s) : s[j] < h
        <4> SUFFICES ASSUME NEW j \in 1 .. Len(s) PROVE s[j] < h
          OBVIOUS
        <4>1. s[j] \in ToSet(s)
          BY <3>2 DEF ToSet
        <4>2. s[j] \in Instance /\ c.inst[s[j]] # NoInstance
          BY <2>1, <2>5, <4>1 DEF s, Exists
        <4> QED BY <4>2 DEF Sound, Aged
      <3>6. Ascending(s)
        BY <2>1, <2>5 DEF s
      <3>7. Ascending(r)
        BY <3>2, <3>3, <3>5, <3>6 DEF Ascending
      <3>8. {g \in Instance : Exists(k, g) /\ inst[g].owner = e}
              = {g \in Instance : Exists(c, g) /\ c.inst[g].owner = e} \cup {h}
        BY <1>2, <2>2, <2>3, <2>5
      <3> QED BY <2>1, <2>5, <3>1, <3>4, <3>7, <3>8 DEF s
    <2> QED BY <2>4, <2>5
  <1>14. Linked(k)
    <2> SUFFICES ASSUME NEW g \in Instance, Exists(k, g), inst[g].child # NoInstanceHandle
                 PROVE  Exists(k, inst[g].child) /\ inst[inst[g].child].parent = g
      BY <1>8 DEF Linked
    <2>1. g # h /\ Exists(c, g) /\ c.inst[g] # NoInstance
      BY <1>4, <1>7, <1>10 DEF Exists
    <2>2. CASE g = p
      <3>1. inst[g].child = h
        BY <1>9, <2>1, <2>2
      <3> QED BY <1>2, <1>4, <1>7, <1>10, <2>2, <3>1
    <2>3. CASE g # p
      <3>1. inst[g].child = c.inst[g].child
        BY <1>9, <2>1, <2>3
      <3>2. Exists(c, c.inst[g].child) /\ c.inst[c.inst[g].child].parent = g
        BY <2>1, <3>1 DEF Sound, Linked
      <3>3. c.inst[g].child \in Instance \ {h} /\ c.inst[c.inst[g].child] # NoInstance
        BY <1>2, <3>2 DEF Exists
      <3> QED BY <1>9, <1>10, <3>1, <3>2, <3>3
    <2> QED BY <2>2, <2>3
  <1> QED BY <1>8, <1>11, <1>12, <1>13, <1>14 DEF Sound, k

LEMMA ReleasedSound ==
  ASSUME NEW c, Sound(c), NEW h, Exists(c, h)
  PROVE  Sound(Released(c, h))
PROOF
  <1> DEFINE p == c.inst[h].parent
             d == c.inst[h].owner
             gone == [c.inst EXCEPT ![h] = NoInstance]
             inst == IF Exists(c, p) THEN [gone EXCEPT ![p].child = NoInstanceHandle]
                     ELSE gone
             k == Released(c, h)
  <1>1. /\ c \in Controller /\ c.inst \in [Instance -> InstanceRecord \cup {NoInstance}]
        /\ c.lists \in [Owner -> Seq(Instance)]
        /\ h \in Instance /\ c.inst[h] # NoInstance
    BY DEF Sound, Controller, Exists
  <1>2. p < h /\ d \in Owner /\ p # h
    <2>1. c.inst[h] \in InstanceRecord
      BY <1>1
    <2>2. p \in 0 .. MaxInstance /\ d \in Owner
      BY <2>1 DEF InstanceRecord
    <2>3. p < h
      BY <1>1 DEF Sound, Aged
    <2> QED BY <1>1, <2>2, <2>3, InstanceBoundAssumption DEF Instance
  <1>3. k = [c EXCEPT !.lists[d] = RemoveFirst(@, h), !.inst = inst]
    BY DEF Released
  <1> HIDE DEF p, d
  <1>4. \A x \in InstanceRecord : [x EXCEPT !.child = NoInstanceHandle] \in InstanceRecord
    BY InstanceBoundAssumption DEF InstanceRecord, NoInstanceHandle
  <1>5. /\ inst \in [Instance -> InstanceRecord \cup {NoInstance}]
        /\ inst[h] = NoInstance
        /\ \A g \in Instance \ {h} :
             inst[g] = IF g = p /\ c.inst[g] # NoInstance
                       THEN [c.inst[g] EXCEPT !.child = NoInstanceHandle] ELSE c.inst[g]
    <2>1. /\ gone \in [Instance -> InstanceRecord \cup {NoInstance}] /\ gone[h] = NoInstance
          /\ \A g \in Instance \ {h} : gone[g] = c.inst[g]
      BY <1>1
    <2>2. CASE Exists(c, p)
      <3>1. p \in Instance \ {h} /\ c.inst[p] # NoInstance /\ c.inst[p] \in InstanceRecord
        BY <1>1, <1>2, <2>2 DEF Exists
      <3>2. inst = [gone EXCEPT ![p] = [c.inst[p] EXCEPT !.child = NoInstanceHandle]]
        BY <2>1, <2>2, <3>1
      <3> QED BY <1>4, <2>1, <3>1, <3>2
    <2>3. CASE ~Exists(c, p)
      <3>1. inst = gone
        BY <2>3
      <3> QED BY <2>1, <2>3, <3>1 DEF Exists
    <2> QED BY <2>2, <2>3
  <1> HIDE DEF inst, gone
  <1>6. /\ c.lists[d] \in Seq(Instance) /\ Ascending(c.lists[d]) /\ Instance \subseteq Nat
    BY <1>1, <1>2, InstanceBoundAssumption DEF Sound, Listed, Instance
  <1>7. /\ RemoveFirst(c.lists[d], h) \in Seq(Instance)
        /\ ToSet(RemoveFirst(c.lists[d], h)) = ToSet(c.lists[d]) \ {h}
        /\ Ascending(RemoveFirst(c.lists[d], h))
    BY <1>6, RemoveFirstExact
  <1>8. /\ k \in Controller /\ k.inst = inst /\ k.next = c.next /\ k.pending = c.pending
        /\ k.lists = [c.lists EXCEPT ![d] = RemoveFirst(@, h)]
    <2>1. [c.lists EXCEPT ![d] = RemoveFirst(@, h)] \in [Owner -> Seq(Instance)]
      BY <1>1, <1>7
    <2> QED BY <1>1, <1>3, <1>5, <2>1 DEF Controller
  <1> HIDE DEF k
  <1>9. \A g \in Instance \ {h} :
          /\ inst[g] = NoInstance <=> c.inst[g] = NoInstance
          /\ c.inst[g] # NoInstance =>
               /\ inst[g].owner = c.inst[g].owner /\ inst[g].parent = c.inst[g].parent
               /\ inst[g].pending = c.inst[g].pending
               /\ inst[g].child = IF g = p THEN NoInstanceHandle ELSE c.inst[g].child
    <2> SUFFICES ASSUME NEW g \in Instance \ {h}, c.inst[g] # NoInstance
                 PROVE  /\ inst[g] # NoInstance
                        /\ inst[g].owner = c.inst[g].owner
                        /\ inst[g].parent = c.inst[g].parent
                        /\ inst[g].pending = c.inst[g].pending
                        /\ inst[g].child = IF g = p THEN NoInstanceHandle ELSE c.inst[g].child
      BY <1>5
    <2>1. CASE g = p
      <3>1. inst[g] = [c.inst[g] EXCEPT !.child = NoInstanceHandle]
        BY <1>5, <2>1
      <3>2. c.inst[g] \in InstanceRecord /\ inst[g] \in InstanceRecord
        BY <1>1, <1>4, <3>1
      <3> QED BY <2>1, <3>1, <3>2, NoInstanceAssumption DEF InstanceRecord
    <2>2. CASE g # p
      BY <1>5, <2>2
    <2> QED BY <2>1, <2>2
  <1>10. \A g \in Instance : Exists(k, g) <=> g # h /\ Exists(c, g)
    BY <1>5, <1>8, <1>9 DEF Exists
  <1>11. Aged(k)
    <2> SUFFICES ASSUME NEW g \in Instance, inst[g] # NoInstance
                 PROVE  g < c.next /\ inst[g].parent < g
      BY <1>8 DEF Aged
    <2>1. g # h /\ c.inst[g] # NoInstance /\ inst[g].parent = c.inst[g].parent
      BY <1>5, <1>9
    <2> QED BY <2>1 DEF Sound, Aged
  <1>12. Unhidden(k)
    <2> SUFFICES ASSUME NEW g \in Instance, Exists(k, g), inst[g].pending # {}
                 PROVE  c.pending
      BY <1>8 DEF Unhidden
    <2>1. Exists(c, g) /\ c.inst[g].pending # {}
      BY <1>9, <1>10 DEF Exists
    <2> QED BY <2>1 DEF Sound, Unhidden
  <1>13. Listed(k)
    <2> SUFFICES ASSUME NEW e \in Owner
                 PROVE  /\ ToSet(k.lists[e]) = {g \in Instance : Exists(k, g) /\ inst[g].owner = e}
                        /\ Ascending(k.lists[e])
      BY <1>8 DEF Listed
    <2>1. /\ ToSet(c.lists[e]) = {g \in Instance : Exists(c, g) /\ c.inst[g].owner = e}
          /\ Ascending(c.lists[e])
      BY DEF Sound, Listed
    <2>2. {g \in Instance : Exists(k, g) /\ inst[g].owner = e}
            = {g \in Instance : Exists(c, g) /\ c.inst[g].owner = e} \ {h}
      BY <1>9, <1>10 DEF Exists
    <2>3. CASE e = d
      <3>1. k.lists[e] = RemoveFirst(c.lists[d], h)
        BY <1>1, <1>8, <2>3
      <3> QED BY <1>7, <2>1, <2>2, <2>3, <3>1
    <2>4. CASE e # d
      <3>1. k.lists[e] = c.lists[e]
        BY <1>1, <1>8, <2>4
      <3>2. h \notin {g \in Instance : Exists(c, g) /\ c.inst[g].owner = e}
        BY <2>4 DEF d
      <3> QED BY <2>1, <2>2, <3>1, <3>2
    <2> QED BY <2>3, <2>4
  <1>14. Linked(k)
    <2> SUFFICES ASSUME NEW g \in Instance, Exists(k, g), inst[g].child # NoInstanceHandle
                 PROVE  Exists(k, inst[g].child) /\ inst[inst[g].child].parent = g
      BY <1>8 DEF Linked
    <2>1. g # h /\ Exists(c, g) /\ c.inst[g] # NoInstance
      BY <1>10 DEF Exists
    <2>2. g # p /\ inst[g].child = c.inst[g].child
      BY <1>9, <2>1
    <2>3. Exists(c, c.inst[g].child) /\ c.inst[c.inst[g].child].parent = g
      BY <2>1, <2>2 DEF Sound, Linked
    \* Its child is not the one released, whose parent is p.
    <2>4. c.inst[g].child \in Instance \ {h} /\ c.inst[c.inst[g].child] # NoInstance
      BY <2>2, <2>3 DEF Exists, p
    <2> QED BY <1>9, <1>10, <2>2, <2>3, <2>4
  <1> QED BY <1>8, <1>11, <1>12, <1>13, <1>14 DEF Sound, k

\* What changes one field of an instance: enable and disable, set_vector,
\* set_permission_mask, trigger_irq and clear_pending.
LEMMA RecordKept ==
  ASSUME NEW c, Sound(c), NEW h, Exists(c, h), NEW x \in InstanceRecord,
         x.owner = c.inst[h].owner, x.parent = c.inst[h].parent,
         x.child = c.inst[h].child,
         NEW k, k.inst = [c.inst EXCEPT ![h] = x], k.lists = c.lists,
         k.next = c.next, k \in Controller, Unhidden(k)
  PROVE  Sound(k)
PROOF
  <1>1. /\ c \in Controller /\ c.inst \in [Instance -> InstanceRecord \cup {NoInstance}]
        /\ h \in Instance /\ c.inst[h] # NoInstance
    BY DEF Sound, Controller, Exists
  <1>2. \A g \in Instance :
          /\ k.inst[g] = NoInstance <=> c.inst[g] = NoInstance
          /\ c.inst[g] # NoInstance => /\ k.inst[g].owner = c.inst[g].owner
                                       /\ k.inst[g].parent = c.inst[g].parent
                                       /\ k.inst[g].child = c.inst[g].child
    <2> SUFFICES ASSUME NEW g \in Instance
                 PROVE  /\ k.inst[g] = NoInstance <=> c.inst[g] = NoInstance
                        /\ c.inst[g] # NoInstance => /\ k.inst[g].owner = c.inst[g].owner
                                                     /\ k.inst[g].parent = c.inst[g].parent
                                                     /\ k.inst[g].child = c.inst[g].child
      OBVIOUS
    <2>1. CASE g = h
      <3>1. k.inst[g] = x /\ x # NoInstance
        BY <1>1, <2>1, NoInstanceAssumption
      <3> QED BY <1>1, <2>1, <3>1
    <2>2. CASE g # h
      BY <1>1, <2>2
    <2> QED BY <2>1, <2>2
  <1> QED BY <1>2, FieldsSound

\* In particular what leaves the pending set alone.
LEMMA SettingKept ==
  ASSUME NEW c, Sound(c), NEW h, Exists(c, h), NEW x \in InstanceRecord,
         x.owner = c.inst[h].owner, x.parent = c.inst[h].parent,
         x.child = c.inst[h].child, x.pending = c.inst[h].pending
  PROVE  Sound([c EXCEPT !.inst[h] = x])
PROOF
  <1> DEFINE k == [c EXCEPT !.inst[h] = x]
  <1>1. /\ c \in Controller /\ h \in Instance
        /\ c.inst \in [Instance -> InstanceRecord \cup {NoInstance}]
    BY DEF Sound, Controller, Exists
  <1>2. [c.inst EXCEPT ![h] = x] \in [Instance -> InstanceRecord \cup {NoInstance}]
    BY <1>1
  <1>3. /\ k.inst = [c.inst EXCEPT ![h] = x] /\ k.pending = c.pending
        /\ k.lists = c.lists /\ k.next = c.next /\ k \in Controller
    BY <1>1, <1>2 DEF Controller
  <1> HIDE DEF k
  <1>4. Unhidden(k)
    <2> SUFFICES ASSUME NEW g \in Instance, Exists(k, g), k.inst[g].pending # {}
                 PROVE  c.pending
      BY <1>3 DEF Unhidden
    <2>1. Exists(c, g) /\ c.inst[g].pending # {}
      BY <1>1, <1>3 DEF Exists
    <2> QED BY <2>1 DEF Sound, Unhidden
  <1>5. Sound(k)
    BY <1>3, <1>4, RecordKept
  <1> QED BY <1>5 DEF k

LEMMA SwitchedSound ==
  ASSUME NEW c, Sound(c), NEW h, Exists(c, h), NEW on \in BOOLEAN
  PROVE  Sound(Switched(c, h, on))
PROOF
  <1> DEFINE x == [c.inst[h] EXCEPT !.on = on]
             k == Switched(c, h, on)
  <1>1. c.inst[h] \in InstanceRecord
    BY DEF Sound, Controller, Exists
  <1>2. /\ x \in InstanceRecord /\ x.owner = c.inst[h].owner
        /\ x.parent = c.inst[h].parent /\ x.child = c.inst[h].child
        /\ x.pending = c.inst[h].pending
    BY <1>1 DEF InstanceRecord
  <1>3. k = [c EXCEPT !.inst[h] = x]
    BY DEF Switched
  <1> HIDE DEF x, k
  <1>4. Sound(k)
    BY <1>2, <1>3, SettingKept
  <1> QED BY <1>4 DEF k

LEMMA VectoredSound ==
  ASSUME NEW c, Sound(c), NEW h, Exists(c, h), NEW v \in Handler \cup {0}
  PROVE  Sound(Vectored(c, h, v))
PROOF
  <1> DEFINE x == [c.inst[h] EXCEPT !.vector = v]
             k == Vectored(c, h, v)
  <1>1. c.inst[h] \in InstanceRecord
    BY DEF Sound, Controller, Exists
  <1>2. /\ x \in InstanceRecord /\ x.owner = c.inst[h].owner
        /\ x.parent = c.inst[h].parent /\ x.child = c.inst[h].child
        /\ x.pending = c.inst[h].pending
    BY <1>1 DEF InstanceRecord
  <1>3. k = [c EXCEPT !.inst[h] = x]
    BY DEF Vectored
  <1> HIDE DEF x, k
  <1>4. Sound(k)
    BY <1>2, <1>3, SettingKept
  <1> QED BY <1>4 DEF k

LEMMA MaskedSound ==
  ASSUME NEW c, Sound(c), NEW h, Exists(c, h), NEW m \in SUBSET Irq
  PROVE  Sound([c EXCEPT !.inst[h].mask = m])
PROOF
  <1> DEFINE x == [c.inst[h] EXCEPT !.mask = m]
             k == [c EXCEPT !.inst[h].mask = m]
  <1>1. c.inst[h] \in InstanceRecord
    BY DEF Sound, Controller, Exists
  <1>2. /\ x \in InstanceRecord /\ x.owner = c.inst[h].owner
        /\ x.parent = c.inst[h].parent /\ x.child = c.inst[h].child
        /\ x.pending = c.inst[h].pending
    BY <1>1 DEF InstanceRecord
  <1>3. k = [c EXCEPT !.inst[h] = x]
    OBVIOUS
  <1> HIDE DEF x, k
  <1>4. Sound(k)
    BY <1>2, <1>3, SettingKept
  <1> QED BY <1>4 DEF k

LEMMA TriggeredSound ==
  ASSUME NEW c, Sound(c), NEW h, Exists(c, h), NEW i \in Irq
  PROVE  Sound(Triggered(c, h, i))
PROOF
  <1> DEFINE x == [c.inst[h] EXCEPT !.pending = @ \cup {i}]
             k == Triggered(c, h, i)
  <1>1. c.inst[h] \in InstanceRecord /\ c \in Controller
    BY DEF Sound, Controller, Exists
  <1>2. /\ x \in InstanceRecord /\ x.owner = c.inst[h].owner
        /\ x.parent = c.inst[h].parent /\ x.child = c.inst[h].child
    BY <1>1 DEF InstanceRecord
  <1>3. k = [c EXCEPT !.inst[h] = x, !.pending = TRUE]
    BY DEF Triggered
  <1> HIDE DEF x, k
  <1>4. /\ c.inst \in [Instance -> InstanceRecord \cup {NoInstance}] /\ h \in Instance
        /\ [c.inst EXCEPT ![h] = x] \in [Instance -> InstanceRecord \cup {NoInstance}]
    BY <1>1, <1>2 DEF Controller, Exists
  <1>5. /\ k.inst = [c.inst EXCEPT ![h] = x] /\ k.pending = TRUE
        /\ k.lists = c.lists /\ k.next = c.next /\ k \in Controller
    BY <1>1, <1>3, <1>4 DEF Controller
  <1>6. Unhidden(k)
    BY <1>5 DEF Unhidden
  <1>7. Sound(k)
    BY <1>2, <1>5, <1>6, RecordKept
  <1> QED BY <1>7 DEF k

\* clear_pending recomputes the flag from every instance.
LEMMA ClearedSound ==
  ASSUME NEW c, Sound(c), NEW h, Exists(c, h), NEW i
  PROVE  Sound(Cleared(c, h, i))
PROOF
  <1> DEFINE x == [c.inst[h] EXCEPT !.pending = @ \ {i}]
             inst == [c.inst EXCEPT ![h] = x]
             flag == \E g \in Instance : inst[g] # NoInstance /\ inst[g].pending # {}
             k == Cleared(c, h, i)
  <1>1. c.inst[h] \in InstanceRecord /\ c \in Controller
    BY DEF Sound, Controller, Exists
  <1>2. /\ x \in InstanceRecord /\ x.owner = c.inst[h].owner
        /\ x.parent = c.inst[h].parent /\ x.child = c.inst[h].child
    BY <1>1 DEF InstanceRecord
  <1>3. k = [c EXCEPT !.inst = inst, !.pending = flag]
    BY DEF Cleared
  <1> HIDE DEF x, k, flag
  <1>4. /\ c.inst \in [Instance -> InstanceRecord \cup {NoInstance}] /\ h \in Instance
        /\ inst \in [Instance -> InstanceRecord \cup {NoInstance}]
    BY <1>1, <1>2 DEF Controller, Exists
  <1>5. flag \in BOOLEAN
    BY DEF flag
  <1>6. /\ k.inst = inst /\ k.pending = flag
        /\ k.lists = c.lists /\ k.next = c.next /\ k \in Controller
    BY <1>1, <1>3, <1>4, <1>5 DEF Controller
  <1>7. Unhidden(k)
    BY <1>6 DEF Unhidden, Exists, flag
  <1>8. Sound(k)
    BY <1>2, <1>6, <1>7, RecordKept
  <1> QED BY <1>8 DEF k

\* The interrupt that is delivered is one of a live instance of the domain.
LEMMA FirstReadyExists ==
  ASSUME NEW c, Sound(c), NEW d \in Owner, FirstReady(c, d) # NoInstanceHandle
  PROVE  Exists(c, FirstReady(c, d)) /\ c.inst[FirstReady(c, d)].owner = d
PROOF
  <1> DEFINE ready == {i \in DOMAIN c.lists[d] :
                         LET h == c.lists[d][i] IN c.inst[h].on /\ c.inst[h].pending # {}}
  <1>1. ready # {} /\ FirstReady(c, d) = c.lists[d][Min(ready)]
    BY DEF FirstReady
  <1>2. c.lists[d] \in Seq(Instance)
    BY DEF Sound, Controller
  <1>3. ready \in SUBSET Nat
    BY <1>2, LenProperties
  <1>4. Min(ready) \in DOMAIN c.lists[d]
    <2>1. ready \subseteq DOMAIN c.lists[d]
      OBVIOUS
    <2> HIDE DEF ready
    <2>2. Min(ready) \in ready
      BY <1>1, <1>3, MinIsFirst
    <2> QED BY <2>1, <2>2
  <1> HIDE DEF ready
  <1>5. FirstReady(c, d) \in ToSet(c.lists[d])
    BY <1>1, <1>4 DEF ToSet
  <1> QED BY <1>5 DEF Sound, Listed

-----------------------------------------------------------------------------
(* The specification.                                                      *)

ControllerSound == Sound(ic)

LEMMA NextSound == ControllerSound /\ [IrqNext]_ic => ControllerSound'
PROOF
  <1> SUFFICES ASSUME Sound(ic), [IrqNext]_ic PROVE Sound(ic')
    BY DEF ControllerSound
  <1>1. ASSUME NEW d \in Owner, NEW rights \in Grant, NEW p \in 0 .. MaxInstance,
               Request(d, rights, p)
        PROVE  Sound(ic')
    BY <1>1, RequestedSound DEF Request
  <1>2. ASSUME NEW h \in Instance, Release(h) PROVE Sound(ic')
    BY <1>2, ReleasedSound DEF Release
  <1>3. ASSUME NEW h \in Instance, Enable(h) \/ Disable(h) PROVE Sound(ic')
    BY <1>3, SwitchedSound DEF Enable, Disable, Has
  <1>4. ASSUME NEW h \in Instance, NEW v \in Handler \cup {0}, SetVector(h, v)
        PROVE  Sound(ic')
    BY <1>4, VectoredSound DEF SetVector, Has
  <1>5. ASSUME NEW h \in Instance, NEW m \in SUBSET Irq, SetPermissionMask(h, m)
        PROVE  Sound(ic')
    BY <1>5, MaskedSound DEF SetPermissionMask
  <1>6. ASSUME NEW h \in Instance, NEW i \in Irq, TriggerIrq(h, i) PROVE Sound(ic')
    BY <1>6, TriggeredSound DEF TriggerIrq
  <1>7. ASSUME NEW h \in Instance, NEW i \in Irq, ClearPending(h, i) PROVE Sound(ic')
    BY <1>7, ClearedSound DEF ClearPending
  <1>8. ASSUME NEW f \in Instance, NEW t \in Instance, NEW i \in Irq, Sgi(f, t, i)
        PROVE  Sound(ic')
    BY <1>8, TriggeredSound DEF Sgi
  <1>9. ASSUME NEW d \in Owner, Deliver(d) PROVE Sound(ic')
    BY <1>9, FirstReadyExists, ClearedSound DEF Deliver
  <1>10. CASE UNCHANGED ic
    BY <1>10
  <1> QED BY <1>1, <1>2, <1>3, <1>4, <1>5, <1>6, <1>7, <1>8, <1>9, <1>10 DEF IrqNext

LEMMA ControllerStaysSound == IrqSpec => []ControllerSound
PROOF
  <1>1. IrqInit => ControllerSound
    BY InitSound DEF IrqInit, ControllerSound
  <1> QED BY <1>1, NextSound, PTL DEF IrqSpec

\* The tables of the controller keep their types (interrupt.py:204-238).
THEOREM IrqTypeCorrect == IrqSpec => []IrqTypeOK
PROOF
  <1>1. ControllerSound => IrqTypeOK
    BY DEF ControllerSound, Sound, Controller, IrqTypeOK
  <1> QED BY <1>1, ControllerStaysSound, PTL

\* No operation of any domain lowers global_pending while an interrupt is
\* pending anywhere (interrupt.py:495).
THEOREM NothingHidden == IrqSpec => []NoneHidden
PROOF
  <1>1. ControllerSound => NoneHidden
    BY DEF ControllerSound, Sound, Unhidden, NoneHidden
  <1> QED BY <1>1, ControllerStaysSound, PTL

\* The list that is searched for a domain is its live instances in the order
\* of their request, through all releases (interrupt.py:345, 503).
THEOREM ListsStayExact == IrqSpec => []ListsExact
PROOF
  <1>1. ControllerSound => ListsExact
    BY DEF ControllerSound, Sound, Listed, Ascending, ListsExact
  <1> QED BY <1>1, ControllerStaysSound, PTL

\* No child_handle ever leads to a released instance or to another parent's
\* child (interrupt.py:318, 339).
THEOREM ChildLinksStaySound == IrqSpec => []ChildLinkSound
PROOF
  <1>1. ControllerSound => ChildLinkSound
    BY DEF ControllerSound, Sound, Linked, ChildLinkSound
  <1> QED BY <1>1, ControllerStaysSound, PTL

-----------------------------------------------------------------------------
(* Delegation.                                                             *)

\* Induction on the natural numbers, as a fact about sets of them.
LEMMA CountingUp ==
  ASSUME NEW S, 0 \in S, \A n \in Nat : n \in S => n + 1 \in S
  PROVE  \A n \in Nat : n \in S
PROOF
  <1> SUFFICES ASSUME NEW m \in Nat, m \notin S PROVE FALSE
    OBVIOUS
  <1> DEFINE T == {n \in Nat : n \notin S}
  <1>1. T \in SUBSET Nat /\ T # {}
    OBVIOUS
  <1> HIDE DEF T
  <1>2. Min(T) \in T /\ \A y \in T : Min(T) <= y
    BY <1>1, MinIsFirst
  <1>3. PICK x : x = Min(T)
    OBVIOUS
  <1>4. x \in Nat /\ x \notin S /\ x # 0
    BY <1>2, <1>3 DEF T
  <1>5. x - 1 \in Nat /\ ~(x <= x - 1) /\ (x - 1) + 1 = x
    BY <1>4
  <1>6. x - 1 \notin T
    BY <1>2, <1>3, <1>5
  <1> QED BY <1>4, <1>5, <1>6 DEF T

\* The rule of the walk in can_delegate_irq, for the handles up to n: the walk
\* that starts at h gets through to the delegator, or to the end.
OpenRule(c, from, i, n, g) ==
  g = [h \in 0 .. n |-> \/ ~Exists(c, h)
                        \/ h = from
                        \/ i \in c.inst[h].mask /\ g[c.inst[h].parent]]

Open(c, from, i) == CHOOSE g : OpenRule(c, from, i, MaxInstance, g)

\* One more handle: where the walk goes from it is already known.
LEMMA OneMoreLink ==
  ASSUME NEW c, Sound(c), NEW from, NEW i,
         NEW n \in Nat, n < MaxInstance, NEW g, OpenRule(c, from, i, n, g)
  PROVE  \E f : OpenRule(c, from, i, n + 1, f)
PROOF
  <1> USE InstanceBoundAssumption
  <1>1. PICK m : m = n + 1 /\ m \in Nat /\ m \in Instance
    BY DEF Instance
  <1> DEFINE d == \/ ~Exists(c, m)
                  \/ m = from
                  \/ i \in c.inst[m].mask /\ g[c.inst[m].parent]
             f == [h \in 0 .. m |-> IF h = m THEN d ELSE g[h]]
  <1>2. \A h \in 0 .. m : Exists(c, h) => c.inst[h].parent \in 0 .. m /\ c.inst[h].parent # m
    <2> SUFFICES ASSUME NEW h \in 0 .. m, Exists(c, h)
                 PROVE  c.inst[h].parent \in 0 .. m /\ c.inst[h].parent # m
      OBVIOUS
    <2>1. h \in Instance /\ c.inst[h] # NoInstance /\ c.inst[h] \in InstanceRecord
      BY DEF Exists, Sound, Controller
    <2>2. c.inst[h].parent \in 0 .. MaxInstance /\ c.inst[h].parent < h
      BY <2>1 DEF Sound, Aged, InstanceRecord
    <2> QED BY <1>1, <2>2
  <1>3. \A h \in 0 .. m : f[h] = IF h = m THEN d ELSE g[h]
    OBVIOUS
  <1>4. \A h \in 0 .. n :
          g[h] = (\/ ~Exists(c, h)
                  \/ h = from
                  \/ i \in c.inst[h].mask /\ g[c.inst[h].parent])
    BY DEF OpenRule
  <1>5. ASSUME NEW h \in 0 .. m, h # m PROVE h \in 0 .. n
    BY <1>1, <1>5
  <1> HIDE DEF f
  <1>6. ASSUME NEW h \in 0 .. m
        PROVE  f[h] = (\/ ~Exists(c, h)
                       \/ h = from
                       \/ i \in c.inst[h].mask /\ f[c.inst[h].parent])
    <2>1. Exists(c, h) => f[c.inst[h].parent] = g[c.inst[h].parent]
      BY <1>2, <1>3
    <2>2. CASE h = m
      BY <1>3, <2>1, <2>2
    <2>3. CASE h # m
      BY <1>3, <1>4, <1>5, <2>1, <2>3
    <2> QED BY <2>2, <2>3
  <1>7. f = [h \in 0 .. m |-> f[h]]
    BY DEF f
  <1>8. f = [h \in 0 .. m |-> \/ ~Exists(c, h)
                              \/ h = from
                              \/ i \in c.inst[h].mask /\ f[c.inst[h].parent]]
    BY <1>6, <1>7, Zenon
  <1> QED BY <1>1, <1>8 DEF OpenRule

\* The walk ends, so can_delegate_irq answers by the rule.
LEMMA WalkEnds ==
  ASSUME NEW c, Sound(c), NEW from, NEW i
  PROVE  OpenRule(c, from, i, MaxInstance, Open(c, from, i))
PROOF
  <1> USE InstanceBoundAssumption
  <1> DEFINE S == {n \in Nat : n <= MaxInstance => \E g : OpenRule(c, from, i, n, g)}
  <1>1. 0 \in S
    <2> DEFINE g == [h \in 0 .. 0 |-> TRUE]
    <2>1. \A h \in 0 .. 0 : ~Exists(c, h)
      BY DEF Exists, Instance
    <2>2. OpenRule(c, from, i, 0, g)
      BY <2>1, Zenon DEF OpenRule
    <2> QED BY <2>2
  <1>2. \A n \in Nat : n \in S => n + 1 \in S
    <2> SUFFICES ASSUME NEW n \in Nat, n \in S, n + 1 <= MaxInstance
                 PROVE  \E g : OpenRule(c, from, i, n + 1, g)
      OBVIOUS
    <2>1. n <= MaxInstance /\ n < MaxInstance
      OBVIOUS
    <2>2. PICK g : OpenRule(c, from, i, n, g)
      BY <2>1
    <2> HIDE DEF S
    <2> QED BY <2>1, <2>2, OneMoreLink
  <1>3. MaxInstance \in S
    <2> HIDE DEF S
    <2> QED BY <1>1, <1>2, CountingUp
  <1>4. \E g : OpenRule(c, from, i, MaxInstance, g)
    BY <1>3
  <1> QED BY <1>4 DEF Open

LEMMA OpenFollowsParents ==
  ASSUME NEW c, Sound(c), NEW from, NEW i, NEW h \in 0 .. MaxInstance
  PROVE  Open(c, from, i)[h] <=> \/ ~Exists(c, h)
                                 \/ h = from
                                 \/ i \in c.inst[h].mask /\ Open(c, from, i)[c.inst[h].parent]
PROOF
  <1>1. PICK g : g = Open(c, from, i)
    OBVIOUS
  <1>2. g = [k \in 0 .. MaxInstance |-> \/ ~Exists(c, k)
                                        \/ k = from
                                        \/ i \in c.inst[k].mask /\ g[c.inst[k].parent]]
    BY <1>1, WalkEnds DEF OpenRule
  <1> QED BY <1>1, <1>2

LEMMA DelegatesAlongWalk ==
  ASSUME NEW c, NEW from, NEW to, NEW i
  PROVE  CanDelegate(c, from, to, i) <=> Exists(c, to) /\ Open(c, from, i)[to]
PROOF
  BY DEF CanDelegate, Open, OpenRule

\* A walk that gets through to b, from where the walk to a gets through, gets
\* through to a: it is the same walk, past b.
LEMMA WalksCompose ==
  ASSUME NEW c, Sound(c), NEW i, NEW a \in Instance, NEW b \in Instance,
         Open(c, a, i)[b]
  PROVE  \A h \in 0 .. MaxInstance : Open(c, b, i)[h] => Open(c, a, i)[h]
PROOF
  <1> USE InstanceBoundAssumption
  <1> DEFINE S == {n \in Nat : \A h \in 0 .. n : h <= MaxInstance =>
                     (Open(c, b, i)[h] => Open(c, a, i)[h])}
  <1>1. ASSUME NEW h \in 0 .. MaxInstance, Open(c, b, i)[h],
               \A k \in 0 .. h - 1 : Open(c, b, i)[k] => Open(c, a, i)[k]
        PROVE  Open(c, a, i)[h]
    <2>1. CASE ~Exists(c, h)
      BY <2>1, OpenFollowsParents
    <2>2. CASE h = b
      BY <2>2
    <2>3. CASE Exists(c, h) /\ h # b
      <3>1. i \in c.inst[h].mask /\ Open(c, b, i)[c.inst[h].parent]
        BY <1>1, <2>3, OpenFollowsParents
      <3>2. h \in Instance /\ c.inst[h] # NoInstance /\ c.inst[h] \in InstanceRecord
        BY <2>3 DEF Exists, Sound, Controller
      <3>3. c.inst[h].parent \in 0 .. MaxInstance /\ c.inst[h].parent < h
        BY <3>2 DEF Sound, Aged, InstanceRecord
      <3>4. c.inst[h].parent \in 0 .. h - 1
        BY <3>3
      <3>5. Open(c, a, i)[c.inst[h].parent]
        BY <1>1, <3>1, <3>4
      <3> QED BY <3>1, <3>5, OpenFollowsParents
    <2> QED BY <2>1, <2>2, <2>3
  <1>2. 0 \in S
    <2>1. \A h \in 0 .. 0 : h \in 0 .. MaxInstance /\ ~Exists(c, h)
      BY DEF Exists, Instance
    <2>2. \A h \in 0 .. 0 : Open(c, a, i)[h]
      BY <2>1, OpenFollowsParents
    <2> QED BY <2>2
  <1>3. \A n \in Nat : n \in S => n + 1 \in S
    <2> SUFFICES ASSUME NEW n \in Nat, n \in S, NEW h \in 0 .. n + 1, h <= MaxInstance,
                        Open(c, b, i)[h]
                 PROVE  Open(c, a, i)[h]
      OBVIOUS
    <2>1. \A k \in 0 .. n : k <= MaxInstance => (Open(c, b, i)[k] => Open(c, a, i)[k])
      OBVIOUS
    <2> HIDE DEF S
    <2>2. h \in 0 .. MaxInstance /\ \A k \in 0 .. h - 1 : k \in 0 .. n /\ k <= MaxInstance
      OBVIOUS
    <2> QED BY <1>1, <2>1, <2>2
  <1>4. MaxInstance \in S
    <2> HIDE DEF S
    <2> QED BY <1>2, <1>3, CountingUp
  <1> QED BY <1>4

\* Delegation can be judged link by link, through all requests, releases and
\* mask changes: can_delegate_irq over a chain of instances follows from
\* can_delegate_irq over its parts (interrupt.py:231-267).
THEOREM DelegationStaysComposable == IrqSpec => []DelegationComposes
PROOF
  <1>1. ASSUME ControllerSound, NEW a \in Instance, NEW b \in Instance, NEW c \in Instance,
               NEW i \in Irq, CanDelegate(ic, a, b, i), CanDelegate(ic, b, c, i)
        PROVE  CanDelegate(ic, a, c, i)
    <2>1. Sound(ic) /\ c \in 0 .. MaxInstance
      BY <1>1 DEF ControllerSound, Instance
    <2>2. Exists(ic, c) /\ Open(ic, b, i)[c] /\ Open(ic, a, i)[b]
      BY <1>1, DelegatesAlongWalk
    <2>3. Open(ic, a, i)[c]
      BY <2>1, <2>2, WalksCompose
    <2> QED BY <2>2, <2>3, DelegatesAlongWalk
  <1>2. ControllerSound => DelegationComposes
    BY <1>1 DEF DelegationComposes
  <1> QED BY <1>2, ControllerStaysSound, PTL
=============================================================================
