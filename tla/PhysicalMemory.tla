--------------------------- MODULE PhysicalMemory ---------------------------
(***************************************************************************)
(* Memory and its encrypted regions (src/rpa_sim/memory.py).               *)
(*                                                                         *)
(* A byte is the set of the symbols XORed into it: its plaintext is a set  *)
(* of data symbols, and encrypting with byte i of a key adds or removes    *)
(* the symbol <<key, i>>.  Every handle has one key (the controller draws  *)
(* it when it creates the group) and keys have no zero bytes.  Permissions *)
(* of regions are left out: no access of the program consults them.        *)
(***************************************************************************)
EXTENDS Integers, Sequences

CONSTANTS
  Size,         \* bytes of memory
  Handle,       \* handles of security groups
  KeyBytes,     \* bytes of a key (8)
  Datum,        \* symbols a plaintext byte is made of
  Start,        \* where regions start
  Length,       \* how long regions are
  Width,        \* how many bytes an access has
  Clear         \* the key in force outside every region: none

ASSUME SizeAssumption == Size \in Nat /\ KeyBytes \in Nat \ {0}
ASSUME WidthAssumption == Width \subseteq Nat \ {0} /\ Start \subseteq Nat /\ Length \subseteq Nat
ASSUME ClearAssumption == Clear \notin Handle

VARIABLES
  bytes,        \* memory
  regions,      \* encrypted_regions, in the dictionary's order
  written       \* history: the accesses no byte of which was stored to since

memoryVars == <<bytes, regions, written>>

Address == 0 .. Size - 1
Symbol == Datum \cup (Handle \X (0 .. KeyBytes - 1))
Data == UNION {[1 .. n -> SUBSET Datum] : n \in Width}
Region == [start : Start, size : Length, handle : Handle]

MemoryInit ==
  /\ bytes = [a \in Address |-> {}]
  /\ regions = <<>>
  /\ written = {}

Xor(x, y) == (x \ y) \cup (y \ x)

-----------------------------------------------------------------------------
(* Regions.                                                                *)

Covering(rs, a) == {i \in DOMAIN rs : rs[i].start <= a /\ a < rs[i].start + rs[i].size}

\* get_encryption_region: the first in the dictionary's order that covers a.
RegionAt(rs, a) == CHOOSE i \in Covering(rs, a) : \A j \in Covering(rs, a) : i <= j

\* Its handle stands for its key.
KeyAt(rs, a) == IF Covering(rs, a) = {} THEN Clear ELSE rs[RegionAt(rs, a)].handle

\* EncryptedRegion.encrypt and decrypt: the key starts again with every access.
Crypt(key, data) ==
  IF key = Clear THEN data
  ELSE [i \in DOMAIN data |-> Xor(data[i], {<<key, (i - 1) % KeyBytes>>})]

\* What is left of a dictionary when the entries outside S are deleted: those
\* in S, in their order.
Keep(rs, S) ==
  LET kept[n \in 0 .. Len(rs)] ==
        IF n = 0 THEN <<>>
        ELSE IF rs[n] \in S THEN Append(kept[n - 1], rs[n])
        ELSE kept[n - 1]
  IN  kept[Len(rs)]

\* Mutant of Put: a region set again goes to the end of the dictionary.
PutLast(rs, r) ==
  Append(Keep(rs, {q \in Region : q.start # r.start}), r)

\* Mutant of Put: every setting is an entry of its own.
PutTwice(rs, r) == Append(rs, r)

\* A dictionary keeps the place of a key whose value is replaced.
Put(rs, r) ==
  IF \E i \in DOMAIN rs : rs[i].start = r.start
  THEN [i \in DOMAIN rs |-> IF rs[i].start = r.start THEN r ELSE rs[i]]
  ELSE Append(rs, r)

\* set_encryption.
SetEncryption(r) ==
  /\ regions' = Put(regions, r)
  /\ UNCHANGED <<bytes, written>>

\* clear_encryption.
ClearEncryption(start) ==
  /\ regions' = Keep(regions, {r \in Region : r.start # start})
  /\ UNCHANGED <<bytes, written>>

\* Mutant of ClearByHandle: what the group had encrypted is decrypted.
ClearByHandleInPlain(h) ==
  /\ regions' = Keep(regions, {r \in Region : r.handle # h})
  /\ bytes' = [a \in Address |-> bytes[a] \ ({h} \X (0 .. KeyBytes - 1))]
  /\ UNCHANGED written

\* clear_encryption_by_handle, when the group h is destroyed: the bytes stay.
ClearByHandle(h) ==
  /\ regions' = Keep(regions, {r \in Region : r.handle # h})
  /\ UNCHANGED <<bytes, written>>

-----------------------------------------------------------------------------
(* Accesses.                                                               *)

\* _check_bounds.
InBounds(a, n) == a + n <= Size

Span(a, n) == a .. a + n - 1

\* read_byte, read_halfword, read_word and read_bytes.
Read(a, n) == Crypt(KeyAt(regions, a), [i \in 1 .. n |-> bytes[a + i - 1]])

\* Every write stores the data under the key in force at the first byte.
Store(a, data) ==
  bytes' = [b \in Address |->
              IF b \in Span(a, Len(data)) THEN data[b - a + 1] ELSE bytes[b]]

Untouched(a, n) == {w \in written : Span(w.at, Len(w.data)) \cap Span(a, n) = {}}

\* write_byte, write_halfword, write_word, write_bytes and load_binary.
Write(a, data) ==
  /\ InBounds(a, Len(data))
  /\ Store(a, Crypt(KeyAt(regions, a), data))
  /\ written' = Untouched(a, Len(data)) \cup
                  {[at |-> a, data |-> data, key |-> KeyAt(regions, a)]}
  /\ UNCHANGED regions

\* A write with encrypt=False, and fill, which never encrypts.
WriteRaw(a, data) ==
  /\ InBounds(a, Len(data))
  /\ Store(a, data)
  /\ written' = Untouched(a, Len(data)) \cup [at : {a}, data : {data}, key : {Clear}]
  /\ UNCHANGED regions

\* MemoryError: nothing has happened.
OutOfBounds(a, n) ==
  /\ ~InBounds(a, n)
  /\ UNCHANGED memoryVars

MemoryNext ==
  \/ \E r \in Region : SetEncryption(r)
  \/ \E s \in Start : ClearEncryption(s)
  \/ \E h \in Handle : ClearByHandle(h)
  \/ \E a \in Address, data \in Data : Write(a, data)
  \/ \E a \in Address, data \in Data : WriteRaw(a, data)
  \/ \E a \in Address, n \in Width : OutOfBounds(a, n)

MemorySpec == MemoryInit /\ [][MemoryNext]_memoryVars

-----------------------------------------------------------------------------
(* Properties.                                                             *)

\* The type invariant: regions keep one entry per start, as a dictionary
\* does, and the history holds whole accesses that lie in memory.
MemoryTypeOK ==
  /\ bytes \in [Address -> SUBSET Symbol]
  /\ regions \in Seq(Region)
  /\ \A i, j \in DOMAIN regions : regions[i].start = regions[j].start => i = j
  /\ \A w \in written : /\ Span(w.at, Len(w.data)) \subseteq Address
                        /\ w.key \in Handle \cup {Clear}

\* What was written reads back as it was, by an access of the same bytes,
\* just while the key it was written under is in force there again: through
\* any regions set, set again, overlapped and cleared in between, and never
\* after its group has been destroyed (memory.py:82-88, 302-314).
ReadsBackUnderItsKey ==
  \A w \in written :
    Read(w.at, Len(w.data)) = w.data <=> KeyAt(regions, w.at) = w.key

\* The key in force at an address changes only when the region it comes from
\* is replaced or cleared, or one that precedes it is set again and now reaches
\* the address: a later region never takes memory from an earlier one, however
\* often it is set (memory.py:252, 295-300).
EarlierRegionWins ==
  [][\A a \in Address :
       KeyAt(regions, a) # Clear /\ KeyAt(regions', a) # KeyAt(regions, a) =>
         \/ \A j \in DOMAIN regions' : regions'[j] # regions[RegionAt(regions, a)]
         \/ \E i \in DOMAIN regions \cap DOMAIN regions' :
              /\ i < RegionAt(regions, a)
              /\ regions'[i].start = regions[i].start /\ regions'[i] # regions[i]]_memoryVars
=============================================================================
