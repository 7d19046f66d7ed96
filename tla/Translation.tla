---------------------------- MODULE Translation ----------------------------
(***************************************************************************)
(* MemoryManager's page tables and translate_chain                         *)
(* (src/rpa_sim/memory.py).                                                *)
(*                                                                         *)
(* A domain's access goes through the page tables of its chain, its own    *)
(* first and the root's last.  The loop over the chain is one step per     *)
(* level, so that what holds at every level can be stated; nothing else    *)
(* happens until the access has ended, because a walk is one call of a     *)
(* single-threaded program.  Rights are the flags r, w and x as a set, and *)
(* an ipa_regions table is the set of regions it lists, read afresh by     *)
(* every access; the bytes themselves are in module PhysicalMemory.        *)
(***************************************************************************)
EXTENDS Integers, Sequences

CONSTANTS
  Base,         \* non-zero page-table addresses
  Inherit,      \* the word 0 in a chain: no page table at that level
  Domain,       \* domain ids
  Pages,        \* page numbers are 0 .. Pages - 1, virtual and physical
  PageSize,     \* in bytes, the same for every table (4096)
  MemorySize,   \* bytes of physical memory
  Offset,       \* the offsets in a page that are accessed
  Attribute,    \* the rights and control flags that are mapped
  Regions,      \* the contents of the ipa_regions tables that are in use
  NoRegions,    \* ipa_regions = 0
  MaxDepth,     \* bound: levels of a chain
  None          \* Python's None

ASSUME PageAssumption == Pages \in Nat /\ PageSize \in Nat \ {0} /\ MemorySize \in Nat
ASSUME OffsetAssumption == Offset \subseteq 0 .. PageSize - 1
ASSUME BaseAssumption == Inherit \notin Base
ASSUME AttributeAssumption ==
  Attribute \subseteq [rights : SUBSET {"r", "w", "x"}, control : BOOLEAN]
ASSUME RegionsAssumption ==
  Regions \subseteq SUBSET [base : Nat, size : Nat] /\ NoRegions \notin Regions
ASSUME TranslationNoneAssumption == None \notin Base \cup Domain
ASSUME DepthAssumption == MaxDepth \in Nat

VARIABLES
  tables,       \* page_tables: address -> PageTable, None where absent
  access,       \* the arguments of the access under way
  walk,         \* translate_chain's locals, and how the access ended
  ipa,          \* history: the address after the first level
  outer         \* history: the loop run from ipa for the parent (see Step)

translationVars == <<tables, access, walk, ipa, outer>>

WordSize == 4

Page == 0 .. Pages - 1
Full == {"r", "w", "x"}

Entry == [frame : Page, rights : SUBSET Full, control : BOOLEAN]
Table == [owner : Domain, entries : [Page -> Entry \cup {None}]]
Chain == UNION {[1 .. n -> Base \cup {Inherit}] : n \in 0 .. MaxDepth}

NewTable(d) == [owner |-> d, entries |-> [p \in Page |-> None]]

\* A walk that has reached address a with every right.
Start(a) == [pa |-> a, rights |-> Full, control |-> FALSE, fault |-> None]

NoAccess == [va |-> 0, kind |-> "r", chain |-> <<>>, regions |-> NoRegions,
             parentRegions |-> NoRegions, who |-> None]
NoWalk == [level |-> 0, at |-> Start(0), end |-> "idle"]

TranslationInit ==
  /\ tables = [b \in Base |-> None]
  /\ access = NoAccess
  /\ walk = NoWalk
  /\ ipa = 0
  /\ outer = Start(0)

-----------------------------------------------------------------------------
(* The tables.                                                             *)

Idle == walk.end = "idle"

\* create_page_table: a table already at that address is thrown away.
CreatePageTable(b, d) ==
  /\ Idle
  /\ tables' = [tables EXCEPT ![b] = NewTable(d)]
  /\ UNCHANGED <<access, walk, ipa, outer>>

\* Mutant of Map: the physical address is stored where its page number goes.
MapUndivided(b, p, f, attr) ==
  /\ Idle
  /\ tables[b] # None
  /\ tables' = [tables EXCEPT ![b].entries[p] =
                  [frame |-> f * PageSize, rights |-> attr.rights, control |-> attr.control]]
  /\ UNCHANGED <<access, walk, ipa, outer>>

\* PageTable.map.
Map(b, p, f, attr) ==
  /\ Idle
  /\ tables[b] # None
  /\ tables' = [tables EXCEPT ![b].entries[p] =
                  [frame |-> f, rights |-> attr.rights, control |-> attr.control]]
  /\ UNCHANGED <<access, walk, ipa, outer>>

\* PageTable.unmap; of an unmapped page it returns False.
Unmap(b, p) ==
  /\ Idle
  /\ tables[b] # None
  /\ tables' = [tables EXCEPT ![b].entries[p] = None]
  /\ UNCHANGED <<access, walk, ipa, outer>>

-----------------------------------------------------------------------------
(* The walk.                                                               *)

\* _check_ipa_bounds: only the first byte of the access is compared.
InRegions(a, regions) == \E g \in regions : g.base <= a /\ a < g.base + g.size

\* The check belongs to the first level only, with a table or without.
Bounded(level, a, regions) ==
  level = 1 /\ regions # NoRegions => InRegions(a, regions)

PageOf(a) == a \div PageSize
Translated(e, a) == (e.frame * PageSize) + (a % PageSize)

\* Mutant of Through: only the domain's own table restricts.
ThroughOwn(b, level, at, regions) ==
  LET e == tables[b].entries[PageOf(at.pa)]
      next == [pa |-> Translated(e, at.pa),
               rights |-> IF level = 1 THEN e.rights ELSE at.rights,
               control |-> at.control \/ e.control, fault |-> None]
  IN  IF e = None THEN [Start(at.pa) EXCEPT !.fault = tables[b].owner]
      ELSE IF Bounded(level, next.pa, regions) THEN next
      ELSE [Start(next.pa) EXCEPT !.fault = tables[b].owner]

\* Mutant of Through: the regions are compared with the virtual address.
ThroughUntranslated(b, level, at, regions) ==
  LET e == tables[b].entries[PageOf(at.pa)]
      next == [pa |-> Translated(e, at.pa), rights |-> at.rights \cap e.rights,
               control |-> at.control \/ e.control, fault |-> None]
  IN  IF e = None THEN [Start(at.pa) EXCEPT !.fault = tables[b].owner]
      ELSE IF Bounded(level, at.pa, regions) THEN next
      ELSE [Start(next.pa) EXCEPT !.fault = tables[b].owner]

\* One level with the page table at b: rights shrink, the control flag stays;
\* a gap in the table and an address out of bounds are the owner's fault.
Through(b, level, at, regions) ==
  LET e == tables[b].entries[PageOf(at.pa)]
      next == [pa |-> Translated(e, at.pa), rights |-> at.rights \cap e.rights,
               control |-> at.control \/ e.control, fault |-> None]
  IN  IF e = None THEN [Start(at.pa) EXCEPT !.fault = tables[b].owner]
      ELSE IF Bounded(level, next.pa, regions) THEN next
      ELSE [Start(next.pa) EXCEPT !.fault = tables[b].owner]

\* One pass of the loop, for chain element b.  A table that does not exist is
\* blamed on its own address.
Level(b, level, at, regions) ==
  IF b = Inherit
  THEN IF Bounded(level, at.pa, regions) THEN at
       ELSE [Start(at.pa) EXCEPT !.fault = access.who]
  ELSE IF tables[b] = None THEN [Start(at.pa) EXCEPT !.fault = b]
  ELSE Through(b, level, at, regions)

\* read_with_translation or write_with_translation is called.  The core passes
\* one level for every domain with a page table, from the running one to the
\* root (isa_simple.py:1331), and the running domain's regions.  An empty chain
\* stands for the access it then makes straight to memory.  The regions of the
\* domain of the second level are no argument: they are there for outer.
Begin(va, kind, chain, regions, parentRegions, who) ==
  /\ Idle
  /\ Len(chain) < 2 => parentRegions = NoRegions
  /\ access' = [va |-> va, kind |-> kind, chain |-> chain, regions |-> regions,
                parentRegions |-> parentRegions, who |-> who]
  /\ walk' = [level |-> 0, at |-> Start(va), end |-> "walking"]
  /\ ipa' = va
  /\ outer' = Start(va)
  /\ UNCHANGED tables

Going == walk.at.fault = None /\ walk.level < Len(access.chain)

\* One level.  From the second on, outer makes the access that the domain of
\* that level, with its own regions, would make of the address reached so far.
Step ==
  /\ walk.end = "walking"
  /\ Going
  /\ LET l == walk.level + 1
         next == Level(access.chain[l], l, walk.at, access.regions)
     IN  /\ walk' = [walk EXCEPT !.level = l, !.at = next]
         /\ ipa' = IF l = 1 THEN next.pa ELSE ipa
         /\ outer' = IF l = 1 THEN Start(next.pa)
                     ELSE IF outer.fault # None THEN outer
                     ELSE Level(access.chain[l], l - 1, outer, access.parentRegions)
  /\ UNCHANGED <<tables, access>>

InMemory(a) == a + WordSize <= MemorySize

\* Mutant of Outcome: a control page may be accessed like memory.
OutcomeIgnoresControl ==
  IF walk.at.fault # None THEN "fault"
  ELSE IF access.kind \notin walk.at.rights THEN "permission"
  ELSE IF ~InMemory(walk.at.pa) THEN "bus"
  ELSE "done"

\* How the access ends: the fault is reported, or PermissionError or BusError
\* is raised, or the word at walk.at.pa is read or written.
Outcome ==
  IF walk.at.fault # None THEN "fault"
  ELSE IF access.kind \notin walk.at.rights \/ walk.at.control THEN "permission"
  ELSE IF ~InMemory(walk.at.pa) THEN "bus"
  ELSE "done"

End ==
  /\ walk.end = "walking"
  /\ ~Going
  /\ walk' = [walk EXCEPT !.end = Outcome]
  /\ UNCHANGED <<tables, access, ipa, outer>>

Ended == walk.end \in {"fault", "permission", "bus", "done"}

\* The call has returned, and its locals are gone.
Return ==
  /\ Ended
  /\ access' = NoAccess
  /\ walk' = NoWalk
  /\ ipa' = 0
  /\ outer' = Start(0)
  /\ UNCHANGED tables

TranslationNext ==
  \/ \E b \in Base, d \in Domain : CreatePageTable(b, d)
  \/ \E b \in Base, p, f \in Page, attr \in Attribute : Map(b, p, f, attr)
  \/ \E b \in Base, p \in Page : Unmap(b, p)
  \/ \E p \in Page, o \in Offset, kind \in {"r", "w"}, chain \in Chain,
        regions, parentRegions \in Regions \cup {NoRegions}, who \in Domain :
       Begin(p * PageSize + o, kind, chain, regions, parentRegions, who)
  \/ Step
  \/ End
  \/ Return

TranslationSpec == TranslationInit /\ [][TranslationNext]_translationVars

-----------------------------------------------------------------------------
(* Properties.                                                             *)

\* The type invariant: tables map pages to entries, a walk is at some address
\* and some level of its chain, and blames a domain or a missing table.
Result == [pa : Nat, rights : SUBSET Full, control : BOOLEAN,
           fault : Base \cup Domain \cup {None}]

TranslationTypeOK ==
  /\ tables \in [Base -> Table \cup {None}]
  /\ access \in [va : Nat, kind : {"r", "w"}, chain : Seq(Base \cup {Inherit}),
                 regions : Regions \cup {NoRegions},
                 parentRegions : Regions \cup {NoRegions}, who : Domain \cup {None}]
  /\ walk \in [level : Nat, at : Result,
               end : {"idle", "walking", "fault", "permission", "bus", "done"}]
  /\ walk.level <= Len(access.chain)
  /\ ipa \in Nat
  /\ outer \in Result

\* The parent's own walk has been ended by the parent's own regions.
ParentBarred ==
  /\ outer.fault # None
  /\ access.parentRegions # NoRegions
  /\ ~InRegions(outer.pa, access.parentRegions)

\* Every table of its ancestors binds a child, their regions do not.  Child and
\* parent are the domains of the first two levels.  As long as the child's walk
\* goes on, the parent's own walk from where the child's table led is at the
\* same place with at least the same rights; what stops the child above its own
\* table stops the parent, blamed on the same table.  The exception is the
\* parent's own regions: the code compares those of the running domain only
\* (memory.py:624, 662), so the child may go on where they stop the parent.
ParentTablesBind ==
  /\ walk.level >= 1 /\ walk.at.fault = None =>
       \/ walk.level >= 2 /\ ParentBarred
       \/ /\ outer.fault = None /\ outer.pa = walk.at.pa
          /\ walk.at.rights \subseteq outer.rights
          /\ outer.control => walk.at.control
  /\ walk.level >= 2 /\ walk.at.fault # None =>
       \/ outer = walk.at
       \/ walk.level >= 3 /\ ParentBarred

Aligned(a) == a % WordSize = 0

\* Comparing the first byte only (memory.py:697) is enough for aligned words:
\* an aligned word that is carried out lies whole on the page the walk led to;
\* and if any level was passed, its first byte lies, after the first level, in a
\* region handed over, and all of it if that region is made of words.  With no
\* level there is no such check: the code makes no level for a domain without
\* a page table (isa_simple.py:1331), which below a root without one is free of
\* its regions, whatever memory.py:623 says of it.
AlignedWordsInside ==
  walk.end = "done" =>
    LET aligned == Aligned(access.va) /\ Aligned(PageSize)
        last == WordSize - 1
    IN  /\ aligned => PageOf(walk.at.pa + last) = PageOf(walk.at.pa)
        /\ access.chain # <<>> /\ access.regions # NoRegions =>
             \E g \in access.regions :
               /\ g.base <= ipa /\ ipa < g.base + g.size
               /\ aligned /\ Aligned(g.base) /\ Aligned(g.size)
                    => ipa + last < g.base + g.size

\* The page sequences by which the first n levels of access a, each mapped in
\* tables t, lead from its address, the first of them within its regions.
Trail(t, a, n) ==
  {s \in [0 .. n -> Page] :
     /\ s[0] = PageOf(a.va)
     /\ \A i \in 1 .. n :
          LET b == a.chain[i]
          IN  IF b = Inherit THEN s[i] = s[i - 1]
              ELSE /\ t[b] # None
                   /\ t[b].entries[s[i - 1]] # None
                   /\ s[i] = t[b].entries[s[i - 1]].frame
     /\ n >= 1 /\ a.regions # NoRegions =>
          InRegions((s[1] * PageSize) + (a.va % PageSize), a.regions)}

\* The address at the end of trail s of n levels.
TrailEnd(a, s, n) == (s[n] * PageSize) + (a.va % PageSize)

\* Every one of the first n levels on trail s that has a table allows access a.
Permitted(t, a, s, n) ==
  \A i \in 1 .. n : a.chain[i] # Inherit =>
    LET e == t[a.chain[i]].entries[s[i - 1]]
    IN  a.kind \in e.rights /\ ~e.control

Blame(t, a, b) == IF b = Inherit THEN a.who
                  ELSE IF t[b] = None THEN b ELSE t[b].owner

\* The rules of memory.py:506-515: an access is carried out just when every
\* level leads on, every level permits it and the word is in memory; the word
\* is the one the levels lead to; and a fault is blamed on the first level
\* that does not lead on.
RulesFollowed ==
  LET n == Len(access.chain)
  IN  /\ Ended => (walk.end = "done" <=>
                     \E s \in Trail(tables, access, n) :
                       /\ Permitted(tables, access, s, n)
                       /\ InMemory(TrailEnd(access, s, n)))
      /\ walk.end = "done" =>
           \E s \in Trail(tables, access, n) : walk.at.pa = TrailEnd(access, s, n)
      /\ walk.end = "fault" =>
           \E i \in 1 .. n : /\ Trail(tables, access, i - 1) # {}
                             /\ Trail(tables, access, i) = {}
                             /\ walk.at.fault = Blame(tables, access, access.chain[i])
=============================================================================
