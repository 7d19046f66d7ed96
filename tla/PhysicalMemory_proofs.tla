------------------------ MODULE PhysicalMemory_proofs ------------------------
(***************************************************************************)
(* Proofs about PhysicalMemory, for memories, keys and accesses of any     *)
(* size and any regions.                                                   *)
(***************************************************************************)
EXTENDS PhysicalMemory, SequenceTheorems, WellFoundedInduction, TLAPS

\* The bytes of an access, plain or encrypted.
LEMMA DataShape ==
  ASSUME NEW data \in Data
  PROVE  Len(data) \in Nat \ {0} /\ data \in [1 .. Len(data) -> SUBSET Datum]
PROOF
  <1>1. PICK n \in Width : data \in [1 .. n -> SUBSET Datum]
    BY DEF Data
  <1>2. n \in Nat \ {0}
    BY WidthAssumption
  <1>3. data \in Seq(SUBSET Datum) /\ Len(data) = n
    BY <1>1, <1>2
  <1> QED BY <1>1, <1>2, <1>3

LEMMA CryptShape ==
  ASSUME NEW data \in Data, NEW key
  PROVE  /\ Len(Crypt(key, data)) = Len(data)
         /\ \A i \in 1 .. Len(data) :
              Crypt(key, data)[i] = IF key = Clear THEN data[i]
                                    ELSE Xor(data[i], {<<key, (i - 1) % KeyBytes>>})
PROOF
  <1>1. Len(data) \in Nat \ {0} /\ DOMAIN data = 1 .. Len(data)
    BY DataShape
  <1>2. CASE key = Clear
    BY <1>2 DEF Crypt
  <1>3. CASE key # Clear
    <2>1. PICK c : c = [i \in 1 .. Len(data) |-> Xor(data[i], {<<key, (i - 1) % KeyBytes>>})]
      OBVIOUS
    <2>2. PICK n : n = Len(data)
      OBVIOUS
    <2>3. c = Crypt(key, data)
      BY <1>1, <1>3, <2>1 DEF Crypt
    <2>4. PICK S : S = {c[i] : i \in 1 .. n}
      OBVIOUS
    <2>5. c \in [1 .. n -> S] /\ n \in Nat
      BY <1>1, <2>1, <2>2, <2>4
    <2>6. c \in Seq(S) /\ Len(c) = n
      BY <2>5
    <2> QED BY <1>3, <2>1, <2>2, <2>3, <2>6
  <1> QED BY <1>2, <1>3

\* A byte changes under a key, and changes back under no other key.
LEMMA XorSymbols ==
  ASSUME NEW x, NEW s, NEW t
  PROVE  Xor(x, {s}) # x /\ (Xor(Xor(x, {s}), {t}) = x <=> s = t)
PROOF
  BY DEF Xor

\* What Stands says lies in memory, as a function.
Encrypted(key, data) == [i \in 1 .. Len(data) |-> Crypt(key, data)[i]]

\* Data encrypted under one key is recovered under that key alone; the first
\* byte is enough to tell, because no key has a zero byte.
LEMMA Recovers ==
  ASSUME NEW data \in Data, NEW key, NEW other, NEW c,
         c = Encrypted(key, data)
  PROVE  Crypt(other, c) = data <=> other = key
PROOF
  <1>1. Len(data) \in Nat \ {0} /\ data = [i \in 1 .. Len(data) |-> data[i]]
    BY DataShape
  <1>2. /\ DOMAIN c = 1 .. Len(data)
        /\ \A i \in 1 .. Len(data) :
             c[i] = IF key = Clear THEN data[i]
                    ELSE Xor(data[i], {<<key, (i - 1) % KeyBytes>>})
    BY CryptShape DEF Encrypted
  <1>3. Crypt(other, c) =
          [i \in 1 .. Len(data) |-> IF other = Clear THEN c[i]
                                    ELSE Xor(c[i], {<<other, (i - 1) % KeyBytes>>})]
    <2>1. CASE other = Clear
      <3>1. c = [i \in 1 .. Len(data) |-> c[i]]
        BY Zenon DEF Encrypted
      <3> QED BY <2>1, <3>1 DEF Crypt
    <2>2. CASE other # Clear
      BY <1>2, <2>2 DEF Crypt
    <2> QED BY <2>1, <2>2
  <1>4. ASSUME NEW i \in 1 .. Len(data)
        PROVE  Crypt(other, c)[i] = data[i] <=> other = key
    <2>1. PICK s, t, x : /\ s = <<key, (i - 1) % KeyBytes>>
                         /\ t = <<other, (i - 1) % KeyBytes>>
                         /\ x = data[i]
      OBVIOUS
    <2>2. s = t <=> key = other
      BY <2>1
    <2>3. c[i] = IF key = Clear THEN x ELSE Xor(x, {s})
      BY <1>2, <2>1
    <2>4. Crypt(other, c)[i] = IF other = Clear THEN c[i] ELSE Xor(c[i], {t})
      BY <1>3, <2>1
    <2>5. Xor(x, {s}) # x /\ Xor(x, {t}) # x /\ (Xor(Xor(x, {s}), {t}) = x <=> s = t)
      BY XorSymbols
    <2> QED BY <2>1, <2>2, <2>3, <2>4, <2>5
  <1>5. 1 \in 1 .. Len(data)
    BY <1>1
  <1>6. ASSUME Crypt(other, c) = data PROVE other = key
    BY <1>4, <1>5, <1>6
  <1>7. ASSUME other = key PROVE Crypt(other, c) = data
    <2>1. \A i \in 1 .. Len(data) : Crypt(other, c)[i] = data[i]
      BY <1>4, <1>7
    <2> QED BY <1>1, <1>3, <2>1
  <1> QED BY <1>6, <1>7

-----------------------------------------------------------------------------
\* An access that is remembered lies in memory, where its data still stands,
\* encrypted as it was stored.
Stands(w) ==
  /\ w.data \in Data
  /\ w.at \in Address
  /\ w.at + Len(w.data) <= Size
  /\ \A i \in 1 .. Len(w.data) : bytes[w.at + i - 1] = Crypt(w.key, w.data)[i]

\* The inductive invariant.  What regions there are has no part in it: they
\* decide how bytes are read and stored, not what stands in memory.
MemoryInv == \A w \in written : Stands(w)

\* Any store, whatever key it is made under, leaves the bytes of the accesses
\* it does not touch and is itself what stands in its place.
LEMMA StoreKeeps ==
  ASSUME MemoryInv, NEW a \in Address, NEW data \in Data, InBounds(a, Len(data)),
         NEW key, Store(a, Crypt(key, data)),
         NEW w \in written', w \in Untouched(a, Len(data))
                             \/ (w.at = a /\ w.data = data /\ w.key = key)
  PROVE  Stands(w)'
PROOF
  <1> USE SizeAssumption
  <1>1. a \in Nat /\ Len(data) \in Nat \ {0} /\ a + Len(data) <= Size
    BY DataShape DEF InBounds, Address
  <1>2. PICK c : c = Crypt(key, data) /\ Len(c) = Len(data)
    BY CryptShape
  <1>3. \A b \in Address :
          bytes'[b] = IF b \in a .. a + Len(data) - 1 THEN c[b - a + 1] ELSE bytes[b]
    BY <1>2 DEF Store, Span
  <1>4. CASE w \in Untouched(a, Len(data))
    <2>1. Stands(w) /\ Span(w.at, Len(w.data)) \cap Span(a, Len(data)) = {}
      BY <1>4 DEF MemoryInv, Untouched
    <2>2. PICK at, d, n : at = w.at /\ d = w.data /\ n = Len(w.data)
      OBVIOUS
    <2>3. n \in Nat \ {0} /\ at \in Nat /\ at + n <= Size /\ Size \in Nat
      BY <2>1, <2>2, DataShape DEF Stands, Address
    <2>4. ASSUME NEW i \in 1 .. n PROVE bytes'[at + i - 1] = bytes[at + i - 1]
      <3>1. at + i - 1 \in Address /\ at + i - 1 \in at .. at + n - 1
        BY <2>3 DEF Address
      <3>2. at + i - 1 \notin a .. a + Len(data) - 1
        BY <2>1, <2>2, <3>1 DEF Span
      <3> QED BY <1>3, <3>1, <3>2
    <2> QED BY <2>1, <2>2, <2>4 DEF Stands
  <1>5. CASE w.at = a /\ w.data = data /\ w.key = key
    <2>1. ASSUME NEW i \in 1 .. Len(data) PROVE bytes'[a + i - 1] = c[i]
      <3>1. a + i - 1 \in Address /\ a + i - 1 \in a .. a + Len(data) - 1
        BY <1>1 DEF Address
      <3>2. (a + i - 1) - a + 1 = i
        BY <1>1
      <3> QED BY <1>3, <3>1, <3>2
    <2> QED BY <1>1, <1>2, <1>5, <2>1 DEF Stands
  <1> QED BY <1>4, <1>5

LEMMA MemoryStep == MemoryInv /\ [MemoryNext]_memoryVars => MemoryInv'
PROOF
  <1> SUFFICES ASSUME MemoryInv, [MemoryNext]_memoryVars PROVE MemoryInv'
    OBVIOUS
  <1>1. ASSUME bytes' = bytes, written' = written PROVE MemoryInv'
    BY <1>1 DEF MemoryInv, Stands
  <1>2. ASSUME NEW a \in Address, NEW data \in Data, Write(a, data) PROVE MemoryInv'
    <2>1. ASSUME NEW w \in written' PROVE Stands(w)'
      <3>1. \/ w \in Untouched(a, Len(data))
            \/ w.at = a /\ w.data = data /\ w.key = KeyAt(regions, a)
        BY <1>2, <2>1 DEF Write
      <3> QED BY <1>2, <3>1, StoreKeeps DEF Write
    <2> QED BY <2>1 DEF MemoryInv
  <1>3. ASSUME NEW a \in Address, NEW data \in Data, WriteRaw(a, data) PROVE MemoryInv'
    <2>1. Crypt(Clear, data) = data
      BY DEF Crypt
    <2>2. ASSUME NEW w \in written' PROVE Stands(w)'
      <3>1. \/ w \in Untouched(a, Len(data))
            \/ w.at = a /\ w.data = data /\ w.key = Clear
        BY <1>3, <2>2 DEF WriteRaw
      <3>2. Store(a, Crypt(Clear, data)) /\ InBounds(a, Len(data))
        BY <1>3, <2>1 DEF WriteRaw
      <3> QED BY <3>1, <3>2, StoreKeeps
    <2> QED BY <2>2 DEF MemoryInv
  <1>4. ASSUME \/ \E r \in Region : SetEncryption(r)
               \/ \E s \in Start : ClearEncryption(s)
               \/ \E h \in Handle : ClearByHandle(h)
               \/ \E a \in Address, n \in Width : OutOfBounds(a, n)
               \/ UNCHANGED memoryVars
        PROVE  bytes' = bytes /\ written' = written
    BY <1>4 DEF SetEncryption, ClearEncryption, ClearByHandle, OutOfBounds, memoryVars
  <1> QED BY <1>1, <1>2, <1>3, <1>4 DEF MemoryNext

\* Through any regions set, set again, overlapped and cleared, what was
\* written reads back just while its key is in force (memory.py:82-88).
THEOREM ReadBackNeedsItsKey == MemorySpec => []ReadsBackUnderItsKey
PROOF
  <1>1. MemoryInit => MemoryInv
    BY DEF MemoryInit, MemoryInv
  <1>2. MemoryInv => ReadsBackUnderItsKey
    <2> SUFFICES ASSUME MemoryInv, NEW w \in written
                 PROVE  Read(w.at, Len(w.data)) = w.data <=> KeyAt(regions, w.at) = w.key
      BY DEF ReadsBackUnderItsKey
    <2>1. Stands(w)
      BY DEF MemoryInv
    <2>2. PICK c : c = Encrypted(w.key, w.data)
      OBVIOUS
    <2>3. c = [i \in 1 .. Len(w.data) |-> bytes[w.at + i - 1]]
      BY <2>1, <2>2 DEF Stands, Encrypted
    <2>4. Read(w.at, Len(w.data)) = Crypt(KeyAt(regions, w.at), c)
      BY <2>3 DEF Read
    <2>5. PICK data, key, other : /\ data = w.data /\ key = w.key
                                  /\ other = KeyAt(regions, w.at)
      OBVIOUS
    <2>6. data \in Data /\ c = Encrypted(key, data)
      BY <2>1, <2>2, <2>5 DEF Stands
    <2>7. Crypt(other, c) = data <=> other = key
      BY <2>6, Recovers
    <2> QED BY <2>4, <2>5, <2>7
  <1> QED BY <1>1, <1>2, MemoryStep, PTL DEF MemorySpec

-----------------------------------------------------------------------------
(* The regions are a dictionary.                                           *)

\* The least of several positions exists.
LEMMA LeastPosition ==
  ASSUME NEW I \in SUBSET Nat, I # {}
  PROVE  \E i \in I : \A j \in I : i <= j
PROOF
  <1> DEFINE R == {ss \in Nat \X Nat : ss[1] < ss[2]}
  <1>1. IsWellFoundedOn(R, Nat)
    BY NatLessThanWellFounded DEF OpToRel
  <1>2. PICK i \in I : \A j \in I : <<j, i>> \notin R
    BY <1>1, WFMin
  <1>3. ASSUME NEW j \in I PROVE i <= j
    <2>1. i \in Nat /\ j \in Nat /\ (j < i => <<j, i>> \in R)
      OBVIOUS
    <2> HIDE DEF R
    <2> QED BY <1>2, <2>1
  <1> QED BY <1>3

\* Induction on the natural numbers, as a fact about sets of them.
LEMMA CountingUp ==
  ASSUME NEW S, 0 \in S, \A n \in Nat : n \in S => n + 1 \in S
  PROVE  \A n \in Nat : n \in S
PROOF
  <1> SUFFICES ASSUME NEW m \in Nat, m \notin S PROVE FALSE
    OBVIOUS
  <1> DEFINE T == {n \in Nat : n \notin S}
  <1>1. T \in SUBSET Nat /\ T # {}
    OBVIOUS
  <1> HIDE DEF T
  <1>2. PICK x \in T : \A y \in T : x <= y
    BY <1>1, LeastPosition
  <1>3. x \in Nat /\ x \notin S /\ x # 0
    BY <1>2 DEF T
  <1>4. x - 1 \in Nat /\ ~(x <= x - 1) /\ (x - 1) + 1 = x
    BY <1>3
  <1>5. x - 1 \notin T
    BY <1>2, <1>4
  <1> QED BY <1>3, <1>4, <1>5 DEF T

\* One entry per start address.
Dictionary(rs) ==
  /\ rs \in Seq(Region)
  /\ \A i, j \in DOMAIN rs : rs[i].start = rs[j].start => i = j

\* Sequence k is made of entries of rs in their order, those among the first n
\* that are in S; e says where each of them is in rs.
Selects(k, rs, S, n, e) ==
  /\ k \in Seq(Region)
  /\ e \in [1 .. Len(k) -> 1 .. n]
  /\ \A i, j \in 1 .. Len(k) : i < j => e[i] < e[j]
  /\ \A i \in 1 .. Len(k) : k[i] = rs[e[i]]
  /\ \A j \in 1 .. n : rs[j] \in S <=> \E i \in 1 .. Len(k) : e[i] = j

\* The rule of Keep, for the first n entries.
KeptRule(rs, S, n, g) ==
  g = [m \in 0 .. n |-> IF m = 0 THEN <<>>
                        ELSE IF rs[m] \in S THEN Append(g[m - 1], rs[m])
                        ELSE g[m - 1]]

Kept(rs, S) == CHOOSE g : KeptRule(rs, S, Len(rs), g)

LEMMA OneMoreEntry ==
  ASSUME NEW rs, NEW S, NEW n \in Nat, NEW g, KeptRule(rs, S, n, g)
  PROVE  \E f : KeptRule(rs, S, n + 1, f)
PROOF
  <1>1. PICK m : m = n + 1 /\ m \in Nat /\ m # 0 /\ m - 1 = n
    OBVIOUS
  <1> DEFINE d == IF rs[m] \in S THEN Append(g[n], rs[m]) ELSE g[n]
             f == [q \in 0 .. m |-> IF q = m THEN d ELSE g[q]]
  <1>2. \A q \in 0 .. m : f[q] = IF q = m THEN d ELSE g[q]
    OBVIOUS
  <1>3. \A q \in 0 .. n :
          g[q] = IF q = 0 THEN <<>>
                 ELSE IF rs[q] \in S THEN Append(g[q - 1], rs[q])
                 ELSE g[q - 1]
    BY DEF KeptRule
  <1>4. \A q \in 0 .. m : (q # m => q \in 0 .. n) /\ (q # 0 => q - 1 \in 0 .. m /\ q - 1 # m)
    BY <1>1
  <1>5. f = [q \in 0 .. m |-> f[q]]
    OBVIOUS
  <1> HIDE DEF f, d
  <1>6. ASSUME NEW q \in 0 .. m
        PROVE  f[q] = IF q = 0 THEN <<>>
                      ELSE IF rs[q] \in S THEN Append(f[q - 1], rs[q])
                      ELSE f[q - 1]
    <2>1. q # 0 => f[q - 1] = g[q - 1]
      BY <1>2, <1>4
    <2>2. CASE q = m
      <3>1. f[q] = d /\ f[q - 1] = g[n]
        BY <1>1, <1>2, <2>1, <2>2
      <3> QED BY <1>1, <2>2, <3>1 DEF d
    <2>3. CASE q # m
      BY <1>2, <1>3, <1>4, <2>1, <2>3
    <2> QED BY <2>2, <2>3
  <1>7. f = [q \in 0 .. m |-> IF q = 0 THEN <<>>
                              ELSE IF rs[q] \in S THEN Append(f[q - 1], rs[q])
                              ELSE f[q - 1]]
    BY <1>5, <1>6
  <1> QED BY <1>1, <1>7 DEF KeptRule

\* Keep is what its rule says.
LEMMA KeptFollowsRule ==
  ASSUME NEW rs \in Seq(Region), NEW S
  PROVE  KeptRule(rs, S, Len(rs), Kept(rs, S)) /\ Keep(rs, S) = Kept(rs, S)[Len(rs)]
PROOF
  <1> DEFINE C == {n \in Nat : \E g : KeptRule(rs, S, n, g)}
  <1>1. 0 \in C
    <2> DEFINE g == [m \in 0 .. 0 |-> <<>>]
    <2>1. g = [m \in 0 .. 0 |-> IF m = 0 THEN <<>>
                        ELSE IF rs[m] \in S THEN Append(g[m - 1], rs[m])
                        ELSE g[m - 1]]
      OBVIOUS
    <2> HIDE DEF g
    <2> QED BY <2>1 DEF KeptRule
  <1>2. \A n \in Nat : n \in C => n + 1 \in C
    BY OneMoreEntry
  <1>3. Len(rs) \in C
    <2>1. Len(rs) \in Nat
      OBVIOUS
    <2> HIDE DEF C
    <2> QED BY <1>1, <1>2, <2>1, CountingUp
  <1>4. \E g : KeptRule(rs, S, Len(rs), g)
    BY <1>3
  <1>5. Keep(rs, S) = Kept(rs, S)[Len(rs)]
    BY Zenon DEF Keep, Kept, KeptRule
  <1> QED BY <1>4, <1>5 DEF Kept

\* One more entry of rs is passed over, or goes to the end of what is kept.
LEMMA SelectsOneMore ==
  ASSUME NEW rs \in Seq(Region), NEW S, NEW n \in Nat, n < Len(rs), NEW k, NEW e,
         Selects(k, rs, S, n, e)
  PROVE  \E f : Selects(IF rs[n + 1] \in S THEN Append(k, rs[n + 1]) ELSE k, rs, S, n + 1, f)
PROOF
  <1>1. PICK m, x : m = n + 1 /\ x = rs[n + 1]
    OBVIOUS
  <1>2. m \in Nat /\ m - 1 = n /\ m \in 1 .. Len(rs) /\ x = rs[m] /\ x \in Region
    BY <1>1
  <1>3. PICK l : l = Len(k)
    OBVIOUS
  <1>4. /\ k \in Seq(Region) /\ l \in Nat
        /\ e \in [1 .. l -> 1 .. n]
        /\ \A i, j \in 1 .. l : i < j => e[i] < e[j]
        /\ \A i \in 1 .. l : k[i] = rs[e[i]]
        /\ \A j \in 1 .. n : rs[j] \in S <=> \E i \in 1 .. l : e[i] = j
    BY <1>3 DEF Selects
  <1>5. \A j \in 1 .. m : j # m => j \in 1 .. n
    BY <1>2
  <1>6. \A i \in 1 .. l : e[i] \in 1 .. n /\ e[i] \in 1 .. m /\ e[i] # m /\ e[i] < m
    BY <1>2, <1>4
  <1>7. CASE x \notin S
    <2>1. \A j \in 1 .. m : rs[j] \in S <=> \E i \in 1 .. l : e[i] = j
      BY <1>2, <1>4, <1>5, <1>6, <1>7
    <2>2. e \in [1 .. l -> 1 .. m]
      BY <1>4, <1>6
    <2>3. Selects(k, rs, S, m, e)
      BY <1>3, <1>4, <2>1, <2>2 DEF Selects
    <2> QED BY <1>1, <1>7, <2>3
  <1>8. CASE x \in S
    <2> DEFINE f == [i \in 1 .. l + 1 |-> IF i = l + 1 THEN m ELSE e[i]]
    <2>1. PICK c : c = Append(k, x)
      OBVIOUS
    <2>2. /\ c \in Seq(Region) /\ Len(c) = l + 1 /\ c[l + 1] = x
          /\ \A i \in 1 .. l : c[i] = k[i]
      BY <1>2, <1>3, <1>4, <2>1
    <2>3. /\ l + 1 \in 1 .. l + 1
          /\ \A i \in 1 .. l : i \in 1 .. l + 1 /\ i # l + 1
          /\ \A i \in 1 .. l + 1 : i # l + 1 => i \in 1 .. l
      BY <1>4
    <2>4. f[l + 1] = m /\ \A i \in 1 .. l : f[i] = e[i]
      BY <2>3
    <2>5. m \in 1 .. m
      BY <1>2
    <2>6. f \in [1 .. l + 1 -> 1 .. m]
      BY <1>6, <2>3, <2>5
    <2> HIDE DEF f
    <2>7. \A i, j \in 1 .. l + 1 : i < j => f[i] < f[j]
      <3> SUFFICES ASSUME NEW i \in 1 .. l + 1, NEW j \in 1 .. l + 1, i < j
                   PROVE  f[i] < f[j]
        OBVIOUS
      <3>1. i \in 1 .. l
        BY <1>4
      <3> QED BY <1>4, <1>6, <2>3, <2>4, <3>1
    <2>8. \A i \in 1 .. l + 1 : c[i] = rs[f[i]]
      BY <1>2, <1>4, <2>2, <2>3, <2>4
    <2>9. \A j \in 1 .. m : rs[j] \in S <=> \E i \in 1 .. l + 1 : f[i] = j
      <3> SUFFICES ASSUME NEW j \in 1 .. m
                   PROVE  rs[j] \in S <=> \E i \in 1 .. l + 1 : f[i] = j
        OBVIOUS
      <3>1. CASE j = m
        BY <1>2, <1>8, <2>3, <2>4, <3>1
      <3>2. CASE j # m
        BY <1>4, <1>5, <2>3, <2>4, <3>2
      <3> QED BY <3>1, <3>2
    <2>10. Selects(c, rs, S, m, f)
      BY <2>2, <2>6, <2>7, <2>8, <2>9 DEF Selects
    <2> QED BY <1>1, <1>8, <2>1, <2>10
  <1> QED BY <1>7, <1>8

\* Keep takes the entries in S, each once and in their order.
LEMMA KeepSelects ==
  ASSUME NEW rs \in Seq(Region), NEW S
  PROVE  \E e : Selects(Keep(rs, S), rs, S, Len(rs), e)
PROOF
  <1>1. PICK g : g = Kept(rs, S)
    OBVIOUS
  <1>2. KeptRule(rs, S, Len(rs), g) /\ Keep(rs, S) = g[Len(rs)] /\ Len(rs) \in Nat
    BY <1>1, KeptFollowsRule
  <1>3. \A q \in 0 .. Len(rs) :
          g[q] = IF q = 0 THEN <<>>
                 ELSE IF rs[q] \in S THEN Append(g[q - 1], rs[q])
                 ELSE g[q - 1]
    BY <1>2 DEF KeptRule
  <1> DEFINE Here(n) == \E e : Selects(g[n], rs, S, n, e)
             C == {n \in Nat : n <= Len(rs) => Here(n)}
  <1>4. 0 \in C
    <2>1. g[0] = <<>>
      BY <1>2, <1>3
    <2>2. 1 .. 0 = {}
      OBVIOUS
    <2>3. PICK e : e = [i \in {} |-> 0]
      OBVIOUS
    <2>4. e \in [1 .. 0 -> 1 .. 0]
      BY <2>2, <2>3
    <2>5. <<>> \in Seq(Region) /\ Len(<<>>) = 0
      OBVIOUS
    <2>6. Selects(<<>>, rs, S, 0, e)
      BY <2>2, <2>4, <2>5 DEF Selects
    <2> QED BY <2>1, <2>6
  <1>5. \A n \in Nat : n \in C => n + 1 \in C
    <2> SUFFICES ASSUME NEW n \in Nat, n \in C, n + 1 <= Len(rs)
                 PROVE  Here(n + 1)
      <3> HIDE DEF Here
      <3> QED OBVIOUS
    <2>1. n <= Len(rs) /\ n < Len(rs)
      BY <1>2
    <2>2. PICK e : Selects(g[n], rs, S, n, e)
      BY <2>1
    <2> HIDE DEF C
    <2>3. g[n + 1] = IF rs[n + 1] \in S THEN Append(g[n], rs[n + 1]) ELSE g[n]
      <3>1. n + 1 \in 0 .. Len(rs) /\ n + 1 # 0 /\ (n + 1) - 1 = n
        BY <1>2, <2>1
      <3> QED BY <1>3, <3>1
    <2> QED BY <2>1, <2>2, <2>3, SelectsOneMore
  <1>6. Len(rs) \in C
    <2> HIDE DEF C
    <2> QED BY <1>2, <1>4, <1>5, CountingUp
  <1> QED BY <1>2, <1>6

\* Deleting entries leaves a dictionary.
LEMMA KeepIsDictionary ==
  ASSUME NEW rs, Dictionary(rs), NEW S
  PROVE  Dictionary(Keep(rs, S))
PROOF
  <1>1. PICK k : k = Keep(rs, S)
    OBVIOUS
  <1>2. rs \in Seq(Region) /\ \A i, j \in 1 .. Len(rs) : rs[i].start = rs[j].start => i = j
    BY DEF Dictionary
  <1>3. PICK e : Selects(k, rs, S, Len(rs), e)
    BY <1>1, <1>2, KeepSelects
  <1>4. k \in Seq(Region) /\ DOMAIN k = 1 .. Len(k)
    BY <1>3 DEF Selects
  <1>5. ASSUME NEW i \in 1 .. Len(k), NEW j \in 1 .. Len(k), k[i].start = k[j].start
        PROVE  i = j
    <2>1. e[i] = e[j]
      <3>1. e[i] \in 1 .. Len(rs) /\ e[j] \in 1 .. Len(rs)
        BY <1>3 DEF Selects
      <3>2. rs[e[i]].start = rs[e[j]].start
        <4>1. k[i] = rs[e[i]] /\ k[j] = rs[e[j]]
          BY <1>3 DEF Selects
        <4> QED BY <1>5, <4>1
      <3> QED BY <1>2, <3>1, <3>2
    <2>2. e[i] \in Nat /\ i \in Nat /\ j \in Nat
      BY <1>2, <1>3, <1>4 DEF Selects
    <2>3. ~(i < j) /\ ~(j < i)
      BY <1>3, <2>1, <2>2 DEF Selects
    <2> QED BY <2>2, <2>3
  <1> QED BY <1>1, <1>4, <1>5 DEF Dictionary

\* Setting an entry replaces the one of its start address, or is a new one.
LEMMA PutReplaces ==
  ASSUME NEW rs, Dictionary(rs), NEW r \in Region, NEW p \in DOMAIN rs,
         rs[p].start = r.start
  PROVE  /\ Put(rs, r) \in Seq(Region)
         /\ Len(Put(rs, r)) = Len(rs)
         /\ \A i \in 1 .. Len(rs) : Put(rs, r)[i] = IF i = p THEN r ELSE rs[i]
PROOF
  <1>1. rs \in Seq(Region) /\ \A i, j \in 1 .. Len(rs) : rs[i].start = rs[j].start => i = j
    BY DEF Dictionary
  <1>2. p \in 1 .. Len(rs) /\ Len(rs) \in Nat
    BY <1>1
  <1>3. PICK q : q = [i \in 1 .. Len(rs) |-> IF i = p THEN r ELSE rs[i]]
    OBVIOUS
  <1>4. \A i \in 1 .. Len(rs) : rs[i].start = r.start <=> i = p
    BY <1>1, <1>2
  <1>5. Put(rs, r) = [i \in 1 .. Len(rs) |-> IF rs[i].start = r.start THEN r ELSE rs[i]]
    BY <1>1 DEF Put
  <1>6. Put(rs, r) = q
    BY <1>3, <1>4, <1>5
  <1>7. q \in [1 .. Len(rs) -> Region]
    BY <1>1, <1>3
  <1>8. q \in Seq(Region) /\ Len(q) = Len(rs)
    BY <1>2, <1>7
  <1> QED BY <1>3, <1>6, <1>8

LEMMA PutAppends ==
  ASSUME NEW rs \in Seq(Region), NEW r \in Region,
         \A i \in DOMAIN rs : rs[i].start # r.start
  PROVE  Put(rs, r) = Append(rs, r)
PROOF
  BY DEF Put

LEMMA PutIsDictionary ==
  ASSUME NEW rs, Dictionary(rs), NEW r \in Region
  PROVE  Dictionary(Put(rs, r))
PROOF
  <1>1. PICK q : q = Put(rs, r)
    OBVIOUS
  <1>2. /\ rs \in Seq(Region) /\ Len(rs) \in Nat /\ DOMAIN rs = 1 .. Len(rs)
        /\ \A i, j \in 1 .. Len(rs) : rs[i].start = rs[j].start => i = j
    BY DEF Dictionary
  <1>3. CASE \E i \in DOMAIN rs : rs[i].start = r.start
    <2>1. PICK p \in 1 .. Len(rs) : rs[p].start = r.start
      BY <1>2, <1>3
    <2>2. /\ q \in Seq(Region) /\ Len(q) = Len(rs) /\ DOMAIN q = 1 .. Len(rs)
          /\ \A i \in 1 .. Len(rs) : q[i] = IF i = p THEN r ELSE rs[i]
      BY <1>1, <1>2, <2>1, PutReplaces
    <2>3. \A i \in 1 .. Len(rs) : q[i].start = rs[i].start
      BY <2>1, <2>2
    <2> QED BY <1>1, <1>2, <2>2, <2>3 DEF Dictionary
  <1>4. CASE \A i \in DOMAIN rs : rs[i].start # r.start
    <2>1. q = Append(rs, r)
      BY <1>1, <1>2, <1>4, PutAppends
    <2>2. /\ q \in Seq(Region) /\ DOMAIN q = 1 .. Len(rs) + 1 /\ q[Len(rs) + 1] = r
          /\ \A i \in 1 .. Len(rs) : q[i] = rs[i]
      BY <1>2, <2>1
    <2>3. \A i \in 1 .. Len(rs) + 1 : i \in 1 .. Len(rs) \/ i = Len(rs) + 1
      BY <1>2
    <2> QED BY <1>1, <1>2, <1>4, <2>2, <2>3 DEF Dictionary
  <1> QED BY <1>3, <1>4

-----------------------------------------------------------------------------
(* Which region decides.                                                   *)

\* RegionAt is the first that covers the address, and the only such one.
LEMMA FirstCovering ==
  ASSUME NEW rs \in Seq(Region), NEW a, Covering(rs, a) # {}
  PROVE  /\ RegionAt(rs, a) \in Covering(rs, a)
         /\ \A j \in Covering(rs, a) : RegionAt(rs, a) <= j
PROOF
  <1>1. Covering(rs, a) \in SUBSET Nat
    BY DEF Covering
  <1>2. \E i \in Covering(rs, a) : \A j \in Covering(rs, a) : i <= j
    BY <1>1, LeastPosition
  <1> QED BY <1>2, Zenon DEF RegionAt

LEMMA OnlyFirst ==
  ASSUME NEW rs \in Seq(Region), NEW a, NEW i \in Covering(rs, a),
         \A j \in Covering(rs, a) : i <= j
  PROVE  RegionAt(rs, a) = i /\ KeyAt(rs, a) = rs[i].handle
PROOF
  <1>1. Covering(rs, a) \in SUBSET Nat
    BY DEF Covering
  <1>2. RegionAt(rs, a) \in Covering(rs, a) /\ RegionAt(rs, a) <= i /\ i <= RegionAt(rs, a)
    BY FirstCovering
  <1>3. RegionAt(rs, a) = i
    BY <1>1, <1>2
  <1> QED BY <1>3 DEF KeyAt

\* A key is a handle or none.
LEMMA KeyShape ==
  ASSUME NEW rs \in Seq(Region), NEW a
  PROVE  KeyAt(rs, a) \in Handle \cup {Clear}
PROOF
  <1>1. CASE Covering(rs, a) = {}
    BY <1>1 DEF KeyAt
  <1>2. CASE Covering(rs, a) # {}
    <2>1. RegionAt(rs, a) \in Covering(rs, a)
      BY <1>2, FirstCovering
    <2>2. RegionAt(rs, a) \in 1 .. Len(rs)
      BY <2>1 DEF Covering
    <2>3. rs[RegionAt(rs, a)] \in Region
      BY <2>2
    <2> QED BY <1>2, <2>3 DEF KeyAt, Region
  <1> QED BY <1>1, <1>2

\* What comes after the region that decides is of no account.
LEMMA LaterIsIdle ==
  ASSUME NEW rs \in Seq(Region), NEW q \in Seq(Region), NEW a, Covering(rs, a) # {},
         RegionAt(rs, a) \in DOMAIN q,
         \A j \in 1 .. RegionAt(rs, a) : q[j] = rs[j]
  PROVE  KeyAt(q, a) = KeyAt(rs, a)
PROOF
  <1>1. PICK i : i = RegionAt(rs, a)
    OBVIOUS
  <1>2. i \in Covering(rs, a) /\ (\A j \in Covering(rs, a) : i <= j) /\ i \in 1 .. Len(rs)
    BY <1>1, FirstCovering DEF Covering
  <1>3. i \in Covering(q, a)
    BY <1>1, <1>2 DEF Covering
  <1>4. ASSUME NEW j \in Covering(q, a) PROVE i <= j
    <2>1. j \in 1 .. Len(q) /\ i \in Nat /\ j \in Nat /\ Len(rs) \in Nat
      BY <1>2, <1>4 DEF Covering
    <2>2. CASE j < i
      <3>1. j \in 1 .. i /\ j \in 1 .. Len(rs)
        BY <1>2, <2>1, <2>2
      <3>2. q[j] = rs[j]
        BY <1>1, <3>1
      <3>3. j \in Covering(rs, a)
        BY <1>4, <3>1, <3>2 DEF Covering
      <3> QED BY <1>2, <3>3
    <2> QED BY <2>1, <2>2
  <1>5. KeyAt(q, a) = q[i].handle /\ KeyAt(rs, a) = rs[i].handle
    BY <1>2, <1>3, <1>4, OnlyFirst
  <1>6. q[i] = rs[i]
    BY <1>1, <1>2
  <1> QED BY <1>5, <1>6

\* Deleting others leaves the key of the region that decides in force.
LEMMA KeepKeepsKey ==
  ASSUME NEW rs, Dictionary(rs), NEW S, NEW a, Covering(rs, a) # {},
         NEW j \in DOMAIN Keep(rs, S), Keep(rs, S)[j] = rs[RegionAt(rs, a)]
  PROVE  KeyAt(Keep(rs, S), a) = KeyAt(rs, a)
PROOF
  <1>1. PICK i, k : i = RegionAt(rs, a) /\ k = Keep(rs, S)
    OBVIOUS
  <1>2. rs \in Seq(Region) /\ \A x, y \in 1 .. Len(rs) : rs[x].start = rs[y].start => x = y
    BY DEF Dictionary
  <1>3. PICK e : Selects(k, rs, S, Len(rs), e)
    BY <1>1, <1>2, KeepSelects
  <1>4. /\ k \in Seq(Region) /\ DOMAIN k = 1 .. Len(k)
        /\ \A x \in 1 .. Len(k) : e[x] \in 1 .. Len(rs) /\ k[x] = rs[e[x]]
    BY <1>3 DEF Selects
  <1>5. i \in Covering(rs, a) /\ (\A x \in Covering(rs, a) : i <= x) /\ i \in 1 .. Len(rs)
    BY <1>1, <1>2, FirstCovering DEF Covering
  <1>6. j \in 1 .. Len(k) /\ e[j] = i /\ k[j] = rs[i]
    BY <1>1, <1>2, <1>4, <1>5
  <1>7. j \in Covering(k, a)
    BY <1>4, <1>5, <1>6 DEF Covering
  <1>8. ASSUME NEW x \in Covering(k, a) PROVE j <= x
    <2>1. x \in 1 .. Len(k) /\ e[x] \in Covering(rs, a)
      BY <1>2, <1>4, <1>8 DEF Covering
    <2>2. ~(x < j)
      <3>1. x < j => e[x] < e[j]
        BY <1>3, <1>6, <2>1 DEF Selects
      <3>2. i <= e[x] /\ i \in Nat /\ e[x] \in Nat
        BY <1>2, <1>4, <1>5, <2>1
      <3> QED BY <1>6, <3>1, <3>2
    <2> QED BY <1>4, <1>6, <2>1, <2>2
  <1>9. KeyAt(k, a) = k[j].handle
    BY <1>4, <1>7, <1>8, OnlyFirst
  <1>10. KeyAt(rs, a) = rs[i].handle
    BY <1>2, <1>5, OnlyFirst
  <1> QED BY <1>1, <1>6, <1>9, <1>10

-----------------------------------------------------------------------------
(* Types, and the key in force.                                            *)

\* What is stored is made of symbols, whatever key it is stored under.
LEMMA CryptSymbols ==
  ASSUME NEW data \in Data, NEW key \in Handle \cup {Clear}, NEW i \in 1 .. Len(data)
  PROVE  Crypt(key, data)[i] \in SUBSET Symbol
PROOF
  <1>1. Len(data) \in Nat \ {0} /\ data[i] \in SUBSET Datum
    BY DataShape
  <1>2. CASE key = Clear
    BY <1>1, <1>2, CryptShape DEF Symbol
  <1>3. CASE key # Clear
    <2>1. (i - 1) % KeyBytes \in 0 .. KeyBytes - 1
      BY <1>1, SizeAssumption
    <2>2. <<key, (i - 1) % KeyBytes>> \in Symbol
      BY <1>3, <2>1 DEF Symbol
    <2>3. Crypt(key, data)[i] = Xor(data[i], {<<key, (i - 1) % KeyBytes>>})
      BY <1>3, CryptShape
    <2> QED BY <1>1, <2>2, <2>3 DEF Xor, Symbol
  <1> QED BY <1>2, <1>3

\* The inductive invariant of the types: regions are a dictionary, and what is
\* remembered was stored under a key.
MemoryShape ==
  /\ bytes \in [Address -> SUBSET Symbol]
  /\ Dictionary(regions)
  /\ \A w \in written : w.key \in Handle \cup {Clear}

LEMMA StoreShape ==
  ASSUME MemoryShape, NEW a \in Address, NEW data \in Data,
         NEW key \in Handle \cup {Clear}, Store(a, Crypt(key, data))
  PROVE  bytes' \in [Address -> SUBSET Symbol]
PROOF
  <1>1. PICK c, n : c = Crypt(key, data) /\ n = Len(data)
    OBVIOUS
  <1>2. Len(c) = n /\ n \in Nat /\ \A i \in 1 .. n : c[i] \in SUBSET Symbol
    BY <1>1, CryptShape, CryptSymbols, DataShape
  <1>3. bytes' = [b \in Address |-> IF b \in a .. a + n - 1 THEN c[b - a + 1] ELSE bytes[b]]
    BY <1>1, <1>2 DEF Store, Span
  <1>4. ASSUME NEW b \in Address, b \in a .. a + n - 1 PROVE b - a + 1 \in 1 .. n
    BY <1>2, <1>4, SizeAssumption DEF Address
  <1>5. bytes \in [Address -> SUBSET Symbol]
    BY DEF MemoryShape
  <1> QED BY <1>2, <1>3, <1>4, <1>5

\* Every step leaves a dictionary: it sets an entry, deletes some, or neither.
LEMMA ShapeStep == MemoryShape /\ [MemoryNext]_memoryVars => MemoryShape'
PROOF
  <1> SUFFICES ASSUME MemoryShape, [MemoryNext]_memoryVars PROVE MemoryShape'
    OBVIOUS
  <1>1. Dictionary(regions) /\ regions \in Seq(Region)
    BY DEF MemoryShape, Dictionary
  <1>2. ASSUME Dictionary(regions'), bytes' = bytes, written' = written PROVE MemoryShape'
    BY <1>2 DEF MemoryShape, Dictionary
  <1>3. ASSUME NEW r \in Region, SetEncryption(r) PROVE MemoryShape'
    BY <1>1, <1>2, <1>3, PutIsDictionary DEF SetEncryption
  <1>4. ASSUME NEW s \in Start, ClearEncryption(s) PROVE MemoryShape'
    BY <1>1, <1>2, <1>4, KeepIsDictionary DEF ClearEncryption
  <1>5. ASSUME NEW h \in Handle, ClearByHandle(h) PROVE MemoryShape'
    BY <1>1, <1>2, <1>5, KeepIsDictionary DEF ClearByHandle
  <1>6. ASSUME NEW a \in Address, NEW data \in Data, Write(a, data) PROVE MemoryShape'
    <2>1. KeyAt(regions, a) \in Handle \cup {Clear}
      BY <1>1, KeyShape
    <2>2. bytes' \in [Address -> SUBSET Symbol]
      BY <1>6, <2>1, StoreShape DEF Write
    <2>3. \A w \in written' : w.key \in Handle \cup {Clear}
      BY <1>6, <2>1 DEF Write, Untouched, MemoryShape
    <2> QED BY <1>1, <1>6, <2>2, <2>3 DEF MemoryShape, Dictionary, Write
  <1>7. ASSUME NEW a \in Address, NEW data \in Data, WriteRaw(a, data) PROVE MemoryShape'
    <2>1. Crypt(Clear, data) = data
      BY DEF Crypt
    <2>2. bytes' \in [Address -> SUBSET Symbol]
      BY <1>7, <2>1, StoreShape DEF WriteRaw
    <2>3. \A w \in written' : w.key \in Handle \cup {Clear}
      BY <1>7 DEF WriteRaw, Untouched, MemoryShape
    <2> QED BY <1>1, <1>7, <2>2, <2>3 DEF MemoryShape, Dictionary, WriteRaw
  <1>8. ASSUME NEW a \in Address, NEW n \in Width, OutOfBounds(a, n) PROVE MemoryShape'
    BY <1>1, <1>2, <1>8 DEF OutOfBounds, memoryVars
  <1>9. CASE UNCHANGED memoryVars
    BY <1>1, <1>2, <1>9 DEF memoryVars
  <1> QED BY <1>3, <1>4, <1>5, <1>6, <1>7, <1>8, <1>9 DEF MemoryNext

LEMMA MemoryShaped == MemorySpec => []MemoryShape
PROOF
  <1>1. MemoryInit => MemoryShape
    <2> SUFFICES ASSUME MemoryInit PROVE MemoryShape
      OBVIOUS
    <2>1. regions \in Seq(Region) /\ DOMAIN regions = 1 .. 0
      BY DEF MemoryInit
    <2> QED BY <2>1 DEF MemoryInit, MemoryShape, Dictionary
  <1> QED BY <1>1, ShapeStep, PTL DEF MemorySpec

\* One entry per start address through every setting and clearing, and every
\* access remembered whole and in memory (memory.py:252, 271-285, 295-300).
THEOREM MemoryStaysTyped == MemorySpec => []MemoryTypeOK
PROOF
  <1>1. MemoryInit => MemoryInv
    BY DEF MemoryInit, MemoryInv
  <1>2. MemoryInv /\ MemoryShape => MemoryTypeOK
    <2> SUFFICES ASSUME MemoryInv, MemoryShape PROVE MemoryTypeOK
      OBVIOUS
    <2>1. ASSUME NEW w \in written PROVE Span(w.at, Len(w.data)) \subseteq Address
      <3>1. Stands(w)
        BY DEF MemoryInv
      <3>2. Len(w.data) \in Nat \ {0}
        BY <3>1, DataShape DEF Stands
      <3> QED BY <3>1, <3>2, SizeAssumption DEF Stands, Span, Address
    <2> QED BY <2>1 DEF MemoryTypeOK, MemoryShape, Dictionary
  <1> QED BY <1>1, <1>2, MemoryStep, MemoryShaped, PTL DEF MemorySpec

\* What EarlierRegionWins says of one address and a new dictionary q.
Earlier(rs, q, a) ==
  KeyAt(rs, a) # Clear /\ KeyAt(q, a) # KeyAt(rs, a) =>
    \/ \A j \in DOMAIN q : q[j] # rs[RegionAt(rs, a)]
    \/ \E i \in DOMAIN rs \cap DOMAIN q :
         i < RegionAt(rs, a) /\ q[i].start = rs[i].start /\ q[i] # rs[i]

LEMMA KeepIsFair ==
  ASSUME NEW rs, Dictionary(rs), NEW S, NEW a
  PROVE  Earlier(rs, Keep(rs, S), a)
PROOF
  <1> SUFFICES ASSUME KeyAt(rs, a) # Clear, NEW j \in DOMAIN Keep(rs, S),
                      Keep(rs, S)[j] = rs[RegionAt(rs, a)]
               PROVE  KeyAt(Keep(rs, S), a) = KeyAt(rs, a)
    BY DEF Earlier
  <1>1. Covering(rs, a) # {}
    BY DEF KeyAt
  <1> QED BY <1>1, KeepKeepsKey

LEMMA PutIsFair ==
  ASSUME NEW rs, Dictionary(rs), NEW r \in Region, NEW a
  PROVE  Earlier(rs, Put(rs, r), a)
PROOF
  <1> SUFFICES ASSUME KeyAt(rs, a) # Clear, KeyAt(Put(rs, r), a) # KeyAt(rs, a)
               PROVE  Earlier(rs, Put(rs, r), a)
    BY DEF Earlier
  <1>1. PICK q, i : q = Put(rs, r) /\ i = RegionAt(rs, a)
    OBVIOUS
  <1>2. /\ rs \in Seq(Region) /\ Len(rs) \in Nat /\ DOMAIN rs = 1 .. Len(rs)
        /\ \A x, y \in 1 .. Len(rs) : rs[x].start = rs[y].start => x = y
    BY DEF Dictionary
  <1>3. Covering(rs, a) # {}
    BY DEF KeyAt
  <1>4. i \in 1 .. Len(rs)
    BY <1>1, <1>2, <1>3, FirstCovering DEF Covering
  <1>5. q \in Seq(Region) /\ DOMAIN q = 1 .. Len(q) /\ Len(q) \in Nat
    BY <1>1, PutIsDictionary DEF Dictionary
  <1>6. CASE \E p \in DOMAIN rs : rs[p].start = r.start
    <2>1. PICK p \in 1 .. Len(rs) : rs[p].start = r.start
      BY <1>2, <1>6
    <2>2. /\ Len(q) = Len(rs) /\ DOMAIN q = 1 .. Len(rs)
          /\ \A x \in 1 .. Len(rs) : q[x] = IF x = p THEN r ELSE rs[x]
      <3>1. /\ Len(Put(rs, r)) = Len(rs)
            /\ \A x \in 1 .. Len(rs) : Put(rs, r)[x] = IF x = p THEN r ELSE rs[x]
        BY <1>2, <2>1, PutReplaces
      <3> QED BY <1>1, <1>5, <3>1
    <2>3. ~(\A x \in 1 .. i : q[x] = rs[x])
      BY <1>1, <1>2, <1>3, <1>4, <1>5, <2>2, LaterIsIdle
    <2>4. p \in 1 .. i /\ r # rs[p]
      <3>1. PICK x \in 1 .. i : q[x] # rs[x]
        BY <2>3
      <3>2. x \in 1 .. Len(rs)
        BY <1>2, <1>4
      <3> QED BY <2>2, <3>1, <3>2
    <2>5. CASE p = i
      <3>1. ASSUME NEW j \in 1 .. Len(rs) PROVE q[j] # rs[i]
        BY <1>2, <1>4, <2>1, <2>2, <2>4, <2>5
      <3> QED BY <1>1, <2>2, <3>1 DEF Earlier
    <2>6. CASE p # i
      <3>1. p < i /\ q[p].start = rs[p].start /\ q[p] # rs[p]
        BY <1>4, <2>1, <2>2, <2>4, <2>6
      <3> QED BY <1>1, <1>2, <2>1, <2>2, <3>1 DEF Earlier
    <2> QED BY <2>5, <2>6
  <1>7. CASE \A p \in DOMAIN rs : rs[p].start # r.start
    <2>1. q = Append(rs, r)
      BY <1>1, <1>2, <1>7, PutAppends
    <2>2. i \in DOMAIN q /\ \A x \in 1 .. i : q[x] = rs[x]
      BY <1>2, <1>4, <2>1
    <2>3. KeyAt(q, a) = KeyAt(rs, a)
      BY <1>1, <1>2, <1>3, <1>5, <2>2, LaterIsIdle
    <2> QED BY <1>1, <2>3
  <1> QED BY <1>6, <1>7

\* A later region never takes memory from an earlier one: the key in force
\* changes only with its own region, or with one that precedes it
\* (memory.py:252, 295-300).
THEOREM EarlierRegionStaysAhead == MemorySpec => EarlierRegionWins
PROOF
  <1> DEFINE Fair == \A a \in Address : Earlier(regions, regions', a)
  <1>1. MemoryShape /\ [MemoryNext]_memoryVars => [Fair]_memoryVars
    <2> SUFFICES ASSUME MemoryShape, MemoryNext, NEW a \in Address
                 PROVE  Earlier(regions, regions', a)
      OBVIOUS
    <2>1. Dictionary(regions)
      BY DEF MemoryShape
    <2>2. ASSUME NEW r \in Region, SetEncryption(r) PROVE Earlier(regions, regions', a)
      BY <2>1, <2>2, PutIsFair DEF SetEncryption
    <2>3. ASSUME NEW s \in Start, ClearEncryption(s) PROVE Earlier(regions, regions', a)
      BY <2>1, <2>3, KeepIsFair DEF ClearEncryption
    <2>4. ASSUME NEW h \in Handle, ClearByHandle(h) PROVE Earlier(regions, regions', a)
      BY <2>1, <2>4, KeepIsFair DEF ClearByHandle
    <2>5. ASSUME \/ \E x \in Address, data \in Data : Write(x, data)
                 \/ \E x \in Address, data \in Data : WriteRaw(x, data)
                 \/ \E x \in Address, n \in Width : OutOfBounds(x, n)
          PROVE  Earlier(regions, regions', a)
      <3>1. regions' = regions
        BY <2>5 DEF Write, WriteRaw, OutOfBounds, memoryVars
      <3> QED BY <3>1 DEF Earlier
    <2> QED BY <2>2, <2>3, <2>4, <2>5 DEF MemoryNext
  <1>2. [Fair]_memoryVars <=> [\A a \in Address :
       KeyAt(regions, a) # Clear /\ KeyAt(regions', a) # KeyAt(regions, a) =>
         \/ \A j \in DOMAIN regions' : regions'[j] # regions[RegionAt(regions, a)]
         \/ \E i \in DOMAIN regions \cap DOMAIN regions' :
              /\ i < RegionAt(regions, a)
              /\ regions'[i].start = regions[i].start /\ regions'[i] # regions[i]]_memoryVars
    BY DEF Earlier
  <1> QED BY <1>1, <1>2, MemoryShaped, PTL DEF MemorySpec, EarlierRegionWins
=============================================================================
