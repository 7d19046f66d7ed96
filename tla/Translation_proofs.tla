------------------------- MODULE Translation_proofs -------------------------
(***************************************************************************)
(* Proofs about Translation, for tables of any size and chains of any      *)
(* length.                                                                 *)
(***************************************************************************)
EXTENDS Translation, TLAPS

\* A walk never leaves the pages a table has entries for, and has a domain to
\* blame.
WalkInPages ==
  walk.end # "idle" =>
    /\ PageOf(walk.at.pa) \in Page /\ PageOf(outer.pa) \in Page
    /\ access.who \in Domain

Typed == TranslationTypeOK /\ WalkInPages

\* Dividing an address by the page size gives back its page number.
LEMMA PageOfSum ==
  ASSUME NEW p \in Nat, NEW o \in 0 .. PageSize - 1
  PROVE  /\ (p * PageSize) + o \in Nat
         /\ PageOf((p * PageSize) + o) = p
         /\ ((p * PageSize) + o) % PageSize = o
PROOF
  <1>1. PageSize \in Nat /\ PageSize > 0
    BY PageAssumption
  <1>2. p * PageSize \in Nat
    BY <1>1
  <1> QED BY <1>1, <1>2, SMTT(30) DEF PageOf

LEMMA RemInPage ==
  ASSUME NEW a \in Nat
  PROVE  a % PageSize \in 0 .. PageSize - 1
PROOF
  BY PageAssumption

\* A translated address lies in the page the entry names.
LEMMA TranslatedInPage ==
  ASSUME NEW e \in Entry, NEW a \in Nat
  PROVE  /\ Translated(e, a) \in Nat
         /\ PageOf(Translated(e, a)) = e.frame
         /\ e.frame \in Page
PROOF
  <1>1. e.frame \in Page /\ e.frame \in Nat
    BY PageAssumption DEF Entry, Page
  <1> QED BY <1>1, RemInPage, PageOfSum DEF Translated

\* One level keeps a result a result and stays in the pages.
LEMMA LevelTyped ==
  ASSUME tables \in [Base -> Table \cup {None}],
         access.who \in Domain \cup {None},
         NEW b \in Base \cup {Inherit}, NEW l \in Nat,
         NEW at \in Result, PageOf(at.pa) \in Page,
         NEW regions
  PROVE  /\ Level(b, l, at, regions) \in Result
         /\ PageOf(Level(b, l, at, regions).pa) \in Page
PROOF
  <1>1. ASSUME NEW a \in Nat, PageOf(a) \in Page, NEW f \in Base \cup Domain \cup {None}
        PROVE  /\ [Start(a) EXCEPT !.fault = f] \in Result
               /\ PageOf([Start(a) EXCEPT !.fault = f].pa) \in Page
    BY <1>1 DEF Start, Result, Full
  <1>2. at.pa \in Nat /\ at.rights \in SUBSET Full /\ at.control \in BOOLEAN
    BY DEF Result
  <1>3. CASE b = Inherit
    BY <1>1, <1>2, <1>3 DEF Level
  <1>4. CASE b # Inherit /\ tables[b] = None
    BY <1>1, <1>2, <1>4 DEF Level
  <1>5. CASE b # Inherit /\ tables[b] # None
    <2> DEFINE e == tables[b].entries[PageOf(at.pa)]
               next == [pa |-> Translated(e, at.pa), rights |-> at.rights \cap e.rights,
                        control |-> at.control \/ e.control, fault |-> None]
    <2>1. tables[b] \in Table
      BY <1>5
    <2>2. tables[b].owner \in Domain /\ e \in Entry \cup {None}
      BY <2>1 DEF Table
    <2>3. Level(b, l, at, regions) =
            IF e = None THEN [Start(at.pa) EXCEPT !.fault = tables[b].owner]
            ELSE IF Bounded(l, next.pa, regions) THEN next
            ELSE [Start(next.pa) EXCEPT !.fault = tables[b].owner]
      BY <1>5 DEF Level, Through
    <2>4. CASE e = None
      BY <1>1, <1>2, <2>2, <2>3, <2>4
    <2>5. CASE e # None
      <3>1. /\ e \in Entry
            /\ Translated(e, at.pa) \in Nat
            /\ PageOf(Translated(e, at.pa)) \in Page
        BY <1>2, <2>2, <2>5, TranslatedInPage
      <3> HIDE DEF e
      <3>2. e.rights \in SUBSET Full /\ e.control \in BOOLEAN
        BY <3>1 DEF Entry
      <3>3. next \in Result /\ PageOf(next.pa) \in Page
        BY <1>2, <3>1, <3>2 DEF Result
      <3>4. next.pa \in Nat
        BY <3>1
      <3> QED BY <1>1, <2>2, <2>3, <2>5, <3>3, <3>4
    <2> QED BY <2>4, <2>5
  <1> QED BY <1>3, <1>4, <1>5

\* What one pass of the loop does, with its level l and chain element b named.
LEMMA StepEffect ==
  ASSUME Typed, Step, NEW l, l = walk.level + 1, NEW b, b = access.chain[l]
  PROVE  /\ l \in Nat /\ l - 1 \in Nat /\ l >= 1 /\ l <= Len(access.chain)
         /\ b \in Base \cup {Inherit}
         /\ walk.at.fault = None
         /\ walk' = [level |-> l, at |-> Level(b, l, walk.at, access.regions),
                     end |-> "walking"]
         /\ ipa' = IF l = 1 THEN Level(b, l, walk.at, access.regions).pa ELSE ipa
         /\ outer' = IF l = 1 THEN Start(Level(b, l, walk.at, access.regions).pa)
                     ELSE IF outer.fault # None THEN outer
                     ELSE Level(b, l - 1, outer, access.parentRegions)
         /\ tables' = tables /\ access' = access
         /\ walk.at \in Result /\ PageOf(walk.at.pa) \in Page
         /\ outer \in Result /\ PageOf(outer.pa) \in Page
         /\ tables \in [Base -> Table \cup {None}] /\ access.who \in Domain
PROOF
  <1>1. walk.level \in Nat /\ walk.level < Len(access.chain) /\ walk.at.fault = None
    BY DEF Step, Going, Typed, TranslationTypeOK
  <1>2. access.chain \in Seq(Base \cup {Inherit})
    BY DEF Typed, TranslationTypeOK
  <1>3. /\ l \in Nat /\ l - 1 \in Nat /\ l >= 1 /\ l <= Len(access.chain)
        /\ b \in Base \cup {Inherit}
    BY <1>1, <1>2
  <1>4. /\ walk.at \in Result /\ PageOf(walk.at.pa) \in Page
        /\ outer \in Result /\ PageOf(outer.pa) \in Page
        /\ tables \in [Base -> Table \cup {None}] /\ access.who \in Domain
    BY DEF Step, Typed, WalkInPages, TranslationTypeOK
  <1>5. /\ walk' = [walk EXCEPT !.level = l, !.at = Level(b, l, walk.at, access.regions)]
        /\ ipa' = IF l = 1 THEN Level(b, l, walk.at, access.regions).pa ELSE ipa
        /\ outer' = IF l = 1 THEN Start(Level(b, l, walk.at, access.regions).pa)
                    ELSE IF outer.fault # None THEN outer
                    ELSE Level(b, l - 1, outer, access.parentRegions)
        /\ tables' = tables /\ access' = access /\ walk.end = "walking"
    BY DEF Step
  <1>6. walk \in [level : Nat, at : Result,
               end : {"idle", "walking", "fault", "permission", "bus", "done"}]
    BY DEF Typed, TranslationTypeOK
  <1>7. walk' = [level |-> l, at |-> Level(b, l, walk.at, access.regions),
                 end |-> "walking"]
    BY <1>5, <1>6
  <1> QED BY <1>1, <1>3, <1>4, <1>5, <1>7

LEMMA InitTyped == TranslationInit => Typed
PROOF
  BY BaseAssumption, TranslationNoneAssumption, PageAssumption
  DEF TranslationInit, Typed, TranslationTypeOK, WalkInPages, NoAccess, NoWalk, Start,
      Result, Full

LEMMA NextTyped == Typed /\ [TranslationNext]_translationVars => Typed'
PROOF
  <1> SUFFICES ASSUME Typed, [TranslationNext]_translationVars PROVE Typed'
    OBVIOUS
  <1> USE DEF Typed
  <1>1. ASSUME NEW b \in Base, NEW d \in Domain, CreatePageTable(b, d) PROVE Typed'
    <2>1. NewTable(d) \in Table
      BY DEF NewTable, Table
    <2>2. tables' \in [Base -> Table \cup {None}]
      BY <1>1, <2>1 DEF CreatePageTable, TranslationTypeOK
    <2> QED BY <1>1, <2>2 DEF CreatePageTable, TranslationTypeOK, WalkInPages
  <1>2. ASSUME NEW b \in Base, NEW p \in Page, NEW f \in Page, NEW attr \in Attribute,
               Map(b, p, f, attr)
        PROVE  Typed'
    <2> DEFINE e == [frame |-> f, rights |-> attr.rights, control |-> attr.control]
    <2>1. e \in Entry
      BY AttributeAssumption DEF Entry, Full
    <2>2. tables[b] \in Table
      BY <1>2 DEF Map, TranslationTypeOK
    <2> HIDE DEF e
    <2>3. [tables[b] EXCEPT !.entries[p] = e] \in Table
      BY <2>1, <2>2 DEF Table
    <2>a. tables' = [tables EXCEPT ![b].entries[p] = e]
      BY <1>2 DEF Map, e
    <2>4. tables' = [tables EXCEPT ![b] = [tables[b] EXCEPT !.entries[p] = e]]
      BY <2>a
    <2>5. tables' \in [Base -> Table \cup {None}]
      BY <2>3, <2>4 DEF TranslationTypeOK
    <2> QED BY <1>2, <2>5 DEF Map, TranslationTypeOK, WalkInPages
  <1>3. ASSUME NEW b \in Base, NEW p \in Page, Unmap(b, p) PROVE Typed'
    <2>1. tables[b] \in Table
      BY <1>3 DEF Unmap, TranslationTypeOK
    <2>2. [tables[b] EXCEPT !.entries[p] = None] \in Table
      BY <2>1 DEF Table
    <2>3. tables' = [tables EXCEPT ![b] = [tables[b] EXCEPT !.entries[p] = None]]
      BY <1>3 DEF Unmap, TranslationTypeOK
    <2>4. tables' \in [Base -> Table \cup {None}]
      BY <2>2, <2>3 DEF TranslationTypeOK
    <2> QED BY <1>3, <2>4 DEF Unmap, TranslationTypeOK, WalkInPages
  <1>4. ASSUME NEW p \in Page, NEW o \in Offset, NEW kind \in {"r", "w"},
               NEW chain \in Chain, NEW regions \in Regions \cup {NoRegions},
               NEW parentRegions \in Regions \cup {NoRegions}, NEW who \in Domain,
               Begin((p * PageSize) + o, kind, chain, regions, parentRegions, who)
        PROVE  Typed'
    <2> DEFINE va == (p * PageSize) + o
    <2>1. va \in Nat /\ PageOf(va) \in Page
      <3>1. p \in Nat /\ o \in 0 .. PageSize - 1
        BY OffsetAssumption, PageAssumption DEF Page
      <3>2. va \in Nat /\ PageOf(va) = p
        BY <3>1, PageOfSum
      <3> QED BY <3>2
    <2>2. chain \in Seq(Base \cup {Inherit}) /\ Len(chain) \in Nat
      BY DepthAssumption DEF Chain
    <2>3. Start(va) \in Result
      BY <2>1 DEF Start, Result, Full
    <2>4. Start(va).pa = va
      BY DEF Start
    <2> HIDE DEF va
    <2>5. /\ access' = [va |-> va, kind |-> kind, chain |-> chain, regions |-> regions,
                       parentRegions |-> parentRegions, who |-> who]
          /\ walk' = [level |-> 0, at |-> Start(va), end |-> "walking"]
          /\ ipa' = va
          /\ outer' = Start(va)
          /\ tables' = tables
      BY <1>4 DEF Begin, va
    <2>6. TranslationTypeOK'
      BY <2>1, <2>2, <2>3, <2>5 DEF TranslationTypeOK
    <2>7. WalkInPages'
      BY <2>1, <2>4, <2>5 DEF WalkInPages, PageOf
    <2> QED BY <2>6, <2>7
  <1>5. CASE Step
    <2> DEFINE l == walk.level + 1
               b == access.chain[l]
               next == Level(b, l, walk.at, access.regions)
    <2> HIDE DEF l, b, next
    <2>1. /\ l \in Nat /\ l - 1 \in Nat /\ l >= 1 /\ l <= Len(access.chain)
          /\ b \in Base \cup {Inherit}
          /\ walk.at \in Result /\ PageOf(walk.at.pa) \in Page
          /\ outer \in Result /\ PageOf(outer.pa) \in Page
          /\ tables \in [Base -> Table \cup {None}] /\ access.who \in Domain
          /\ tables' = tables /\ access' = access
      BY <1>5, StepEffect DEF l, b
    <2>2. /\ walk' = [level |-> l, at |-> next, end |-> "walking"]
          /\ ipa' = IF l = 1 THEN next.pa ELSE ipa
          /\ \/ outer' = Start(next.pa)
             \/ outer' = outer
             \/ outer' = Level(b, l - 1, outer, access.parentRegions)
      BY <1>5, StepEffect DEF l, b, next
    <2>3. next \in Result /\ PageOf(next.pa) \in Page
      BY <2>1, LevelTyped DEF next
    <2>4. /\ Level(b, l - 1, outer, access.parentRegions) \in Result
          /\ PageOf(Level(b, l - 1, outer, access.parentRegions).pa) \in Page
      BY <2>1, LevelTyped
    <2>5. Start(next.pa) \in Result /\ Start(next.pa).pa = next.pa /\ next.pa \in Nat
      BY <2>3 DEF Start, Result, Full
    <2>8. outer' \in Result /\ PageOf(outer'.pa) \in Page /\ ipa' \in Nat
      BY <2>1, <2>2, <2>3, <2>4, <2>5 DEF TranslationTypeOK
    <2>9. TranslationTypeOK'
      <3>1. walk' \in [level : Nat, at : Result,
               end : {"idle", "walking", "fault", "permission", "bus", "done"}]
        BY <2>1, <2>2, <2>3
      <3>2. walk'.level <= Len(access'.chain)
        BY <2>1, <2>2
      <3> QED BY <3>1, <3>2, <2>1, <2>8 DEF TranslationTypeOK
    <2>10. WalkInPages'
      BY <2>1, <2>2, <2>3, <2>8 DEF WalkInPages, PageOf
    <2> QED BY <2>9, <2>10
  <1>6. CASE End
    <2>1. Outcome \in {"fault", "permission", "bus", "done"}
      BY DEF Outcome
    <2>2. walk.end = "walking"
      BY <1>6 DEF End
    <2> QED BY <1>6, <2>1, <2>2 DEF End, TranslationTypeOK, WalkInPages
  <1>7. CASE Return
    BY <1>7, TranslationNoneAssumption, BaseAssumption
    DEF Return, TranslationTypeOK, WalkInPages, NoAccess, NoWalk, Start, Result, Full
  <1>8. CASE UNCHANGED translationVars
    BY <1>8 DEF translationVars, TranslationTypeOK, WalkInPages
  <1> QED BY <1>1, <1>2, <1>3, <1>4, <1>5, <1>6, <1>7, <1>8 DEF TranslationNext

\* Tables, walks and results keep their types whatever is mapped, and no walk
\* reads a table beyond its pages (memory.py:113-187, 597-676).
THEOREM TranslationTypeCorrect == TranslationSpec => []TranslationTypeOK
PROOF
  <1>1. TranslationSpec => []Typed
    BY InitTyped, NextTyped, PTL DEF TranslationSpec
  <1>2. Typed => TranslationTypeOK
    BY DEF Typed
  <1> QED BY <1>1, <1>2, PTL

-----------------------------------------------------------------------------
(* The parent's walk.                                                      *)

\* Regions oregions, handed to the walk out, are what stopped it.
Barred(out, oregions) ==
  out.fault # None /\ oregions # NoRegions /\ ~InRegions(out.pa, oregions)

\* Two walks at the same address, the second with the wider rights, go through
\* a level above the first in the same way, unless the regions of the second
\* walk stop it there.
LEMMA LevelAgrees ==
  ASSUME tables \in [Base -> Table \cup {None}], access.who \in Domain,
         NEW b \in Base \cup {Inherit}, NEW l \in Nat, l >= 2,
         NEW at \in Result, NEW out \in Result, NEW regions, NEW oregions,
         at.fault = None, out.fault = None, out.pa = at.pa,
         at.rights \subseteq out.rights, out.control => at.control
  PROVE  LET next == Level(b, l, at, regions)
             onext == Level(b, l - 1, out, oregions)
         IN  /\ next.fault = None =>
                  \/ Barred(onext, oregions)
                  \/ /\ onext.fault = None /\ onext.pa = next.pa
                     /\ next.rights \subseteq onext.rights
                     /\ onext.control => next.control
             /\ next.fault # None => onext = next
PROOF
  <1> DEFINE next == Level(b, l, at, regions)
             onext == Level(b, l - 1, out, oregions)
  <1>1. \A a : Bounded(l, a, regions)
    BY DEF Bounded
  <1>2. CASE b = Inherit
    <2>1. next = at
      BY <1>1, <1>2 DEF Level
    <2>2. CASE Bounded(l - 1, out.pa, oregions)
      <3>1. onext = out
        BY <1>2, <2>2 DEF Level
      <3> QED BY <2>1, <3>1
    <2>3. CASE ~Bounded(l - 1, out.pa, oregions)
      <3>1. onext.fault = access.who /\ onext.pa = out.pa
        BY <1>2, <2>3 DEF Level, Start
      <3> HIDE DEF next, onext
      <3>2. Barred(onext, oregions)
        BY <2>3, <3>1, TranslationNoneAssumption DEF Barred, Bounded
      <3> QED BY <2>1, <3>2 DEF next, onext
    <2> QED BY <2>2, <2>3
  <1>3. CASE b # Inherit /\ tables[b] = None
    <2>1. next = onext /\ next.fault = b /\ b \in Base
      BY <1>3 DEF Level, Start
    <2> QED BY <2>1, TranslationNoneAssumption
  <1>4. CASE b # Inherit /\ tables[b] # None
    <2> DEFINE e == tables[b].entries[PageOf(at.pa)]
    <2>1. next = Through(b, l, at, regions) /\ onext = Through(b, l - 1, out, oregions)
      BY <1>4 DEF Level
    <2>2. tables[b].owner \in Domain
      BY <1>4 DEF Table
    <2>3. CASE e = None
      <3>1. next = onext /\ next.fault = tables[b].owner
        BY <2>1, <2>3 DEF Through, Start
      <3> QED BY <2>2, <3>1, TranslationNoneAssumption
    <2>4. CASE e # None
      <3>1. next = [pa |-> Translated(e, at.pa), rights |-> at.rights \cap e.rights,
                    control |-> at.control \/ e.control, fault |-> None]
        BY <1>1, <2>1, <2>4 DEF Through
      <3>2. next.fault = None /\ next.pa = Translated(e, at.pa)
            /\ next.rights = at.rights \cap e.rights
        BY <3>1
      <3>3. CASE Bounded(l - 1, Translated(e, at.pa), oregions)
        <4>1. onext = [pa |-> Translated(e, at.pa), rights |-> out.rights \cap e.rights,
                       control |-> out.control \/ e.control, fault |-> None]
          BY <2>1, <2>4, <3>3 DEF Through
        <4>2. /\ onext.fault = None /\ onext.pa = Translated(e, at.pa)
              /\ onext.rights = out.rights \cap e.rights
          BY <4>1
        <4>3. onext.control => next.control
          <5>1. next.control = (at.control \/ e.control)
                /\ onext.control = (out.control \/ e.control)
            BY <3>1, <4>1
          <5> HIDE DEF next, onext, e
          <5> QED BY <5>1
        <4> HIDE DEF next, onext, e
        <4>4. next.rights \subseteq onext.rights
          BY <3>2, <4>2
        <4> QED BY <3>2, <4>2, <4>3, <4>4 DEF next, onext
      <3>4. CASE ~Bounded(l - 1, Translated(e, at.pa), oregions)
        <4>1. onext.fault = tables[b].owner /\ onext.pa = Translated(e, at.pa)
          BY <2>1, <2>4, <3>4 DEF Through, Start
        <4> HIDE DEF next, onext, e
        <4>2. Barred(onext, oregions)
          BY <2>2, <3>4, <4>1, TranslationNoneAssumption DEF Barred, Bounded
        <4> QED BY <3>2, <4>2 DEF next, onext
      <3> QED BY <3>3, <3>4
    <2> QED BY <2>3, <2>4
  <1> QED BY <1>2, <1>3, <1>4

LEMMA NextBinds ==
  Typed /\ ParentTablesBind /\ [TranslationNext]_translationVars => ParentTablesBind'
PROOF
  <1> SUFFICES ASSUME Typed, ParentTablesBind, [TranslationNext]_translationVars
               PROVE  ParentTablesBind'
    OBVIOUS
  <1>1. CASE Step
    <2> DEFINE l == walk.level + 1
               b == access.chain[l]
               next == Level(b, l, walk.at, access.regions)
               onext == Level(b, l - 1, outer, access.parentRegions)
    <2> HIDE DEF l, b, next, onext
    <2>1. /\ l \in Nat /\ l >= 1 /\ b \in Base \cup {Inherit} /\ walk.at.fault = None
          /\ walk.at \in Result /\ outer \in Result /\ PageOf(walk.at.pa) \in Page
          /\ tables \in [Base -> Table \cup {None}] /\ access.who \in Domain
          /\ access' = access
      BY <1>1, StepEffect DEF l, b
    <2>2. /\ walk' = [level |-> l, at |-> next, end |-> "walking"]
          /\ outer' = IF l = 1 THEN Start(next.pa)
                      ELSE IF outer.fault # None THEN outer
                      ELSE onext
      BY <1>1, StepEffect DEF l, b, next, onext
    <2>3. walk'.level = l /\ walk'.at = next
      BY <2>2
    <2>4. CASE l = 1
      <3>1. next \in Result
        BY <2>1, LevelTyped DEF next
      <3>2. next.rights \subseteq Full
        BY <3>1 DEF Result
      <3> QED BY <2>2, <2>3, <2>4, <3>2 DEF ParentTablesBind, Start
    <2>5. CASE l # 1
      <3>1. l >= 2 /\ walk.level >= 1 /\ walk.level = l - 1
        BY <2>1, <2>5 DEF l, Typed, TranslationTypeOK
      <3>2. CASE outer.fault # None
        <4>1. walk.level >= 2 /\ ParentBarred
          BY <2>1, <3>1, <3>2 DEF ParentTablesBind
        <4>2. outer' = outer
          BY <2>2, <2>5, <3>2
        <4>3. ParentBarred' /\ l >= 3
          BY <2>1, <3>1, <4>1, <4>2 DEF ParentBarred
        <4> QED BY <2>3, <3>1, <4>3 DEF ParentTablesBind
      <3>3. CASE outer.fault = None
        <4>1. /\ outer.pa = walk.at.pa
              /\ walk.at.rights \subseteq outer.rights
              /\ outer.control => walk.at.control
          BY <2>1, <3>1, <3>3 DEF ParentTablesBind, ParentBarred
        <4>2. /\ next.fault = None =>
                   \/ Barred(onext, access.parentRegions)
                   \/ /\ onext.fault = None /\ onext.pa = next.pa
                      /\ next.rights \subseteq onext.rights
                      /\ onext.control => next.control
              /\ next.fault # None => onext = next
          BY <2>1, <3>1, <3>3, <4>1, LevelAgrees DEF next, onext
        <4>3. outer' = onext
          BY <2>2, <2>5, <3>3
        <4>4. Barred(onext, access.parentRegions) => ParentBarred'
          BY <2>1, <4>3 DEF Barred, ParentBarred
        <4> QED BY <2>3, <3>1, <4>2, <4>3, <4>4 DEF ParentTablesBind
      <3> QED BY <3>2, <3>3
    <2> QED BY <2>4, <2>5
  <1>2. CASE End
    <2>1. /\ walk'.at = walk.at /\ walk'.level = walk.level /\ outer' = outer
          /\ access' = access
      BY <1>2 DEF End, Typed, TranslationTypeOK
    <2> QED BY <2>1 DEF ParentTablesBind, ParentBarred
  <1>3. CASE Return
    BY <1>3 DEF Return, NoWalk, ParentTablesBind
  <1>4. ASSUME NEW va, NEW kind, NEW chain, NEW regions,
               NEW parentRegions, NEW who,
               Begin(va, kind, chain, regions, parentRegions, who)
        PROVE  ParentTablesBind'
    BY <1>4 DEF Begin, ParentTablesBind
  <1>5. CASE walk' = walk /\ outer' = outer /\ access' = access
    BY <1>5 DEF ParentTablesBind, ParentBarred
  <1> QED BY <1>1, <1>2, <1>3, <1>4, <1>5
      DEF TranslationNext, CreatePageTable, Map, Unmap, translationVars

\* The tables of its ancestors bind a child: above its own level its walk goes
\* on with no more rights than its parent's own, and what stops it there stops
\* the parent (memory.py:637-676).  Only the parent's regions, which the code
\* does not compare for the child, may stop the parent earlier.
THEOREM ParentTablesAlwaysBind == TranslationSpec => []ParentTablesBind
PROOF
  <1>1. TranslationInit => Typed /\ ParentTablesBind
    BY InitTyped DEF TranslationInit, NoWalk, ParentTablesBind
  <1>2. Typed /\ ParentTablesBind /\ [TranslationNext]_translationVars
          => (Typed /\ ParentTablesBind)'
    BY NextTyped, NextBinds
  <1> QED BY <1>1, <1>2, PTL DEF TranslationSpec

-----------------------------------------------------------------------------
(* The regions of the parent.                                              *)

\* A walk that is past the first level and has no fault was in the regions
\* there, and an access that is carried out has gone through its whole chain.
InBoundsOnce ==
  /\ walk.level >= 1 /\ walk.at.fault = None /\ access.regions # NoRegions =>
       InRegions(ipa, access.regions)
  /\ walk.end = "done" => walk.at.fault = None /\ walk.level >= Len(access.chain)

\* The first level lets nothing by that is out of bounds.
LEMMA FirstLevelBounded ==
  ASSUME tables \in [Base -> Table \cup {None}], access.who \in Domain,
         NEW b \in Base \cup {Inherit}, NEW at, NEW regions, regions # NoRegions,
         Level(b, 1, at, regions).fault = None
  PROVE  InRegions(Level(b, 1, at, regions).pa, regions)
PROOF
  <1>1. CASE b = Inherit
    BY <1>1, TranslationNoneAssumption DEF Level, Bounded, Start
  <1>2. CASE b # Inherit /\ tables[b] = None
    BY <1>2, TranslationNoneAssumption DEF Level, Start
  <1>3. CASE b # Inherit /\ tables[b] # None
    <2>1. tables[b].owner # None
      BY <1>3, TranslationNoneAssumption DEF Table
    <2> QED BY <1>3, <2>1 DEF Level, Through, Bounded, Start
  <1> QED BY <1>1, <1>2, <1>3

LEMMA NextInBounds ==
  Typed /\ InBoundsOnce /\ [TranslationNext]_translationVars => InBoundsOnce'
PROOF
  <1> SUFFICES ASSUME Typed, InBoundsOnce, [TranslationNext]_translationVars
               PROVE  InBoundsOnce'
    OBVIOUS
  <1>1. CASE Step
    <2> DEFINE l == walk.level + 1
               b == access.chain[l]
               next == Level(b, l, walk.at, access.regions)
    <2> HIDE DEF l, b, next
    <2>1. /\ l \in Nat /\ l >= 1 /\ b \in Base \cup {Inherit} /\ walk.at.fault = None
          /\ tables \in [Base -> Table \cup {None}] /\ access.who \in Domain
          /\ access' = access
      BY <1>1, StepEffect DEF l, b
    <2>2. /\ walk' = [level |-> l, at |-> next, end |-> "walking"]
          /\ ipa' = IF l = 1 THEN next.pa ELSE ipa
      BY <1>1, StepEffect DEF l, b, next
    <2>3. CASE l = 1
      <3>1. next.fault = None /\ access.regions # NoRegions =>
              InRegions(next.pa, access.regions)
        BY <2>1, <2>3, FirstLevelBounded DEF next
      <3> QED BY <2>1, <2>2, <2>3, <3>1 DEF InBoundsOnce
    <2>4. CASE l # 1
      <3>1. walk.level >= 1
        BY <2>1, <2>4 DEF l, Typed, TranslationTypeOK
      <3> QED BY <2>1, <2>2, <2>4, <3>1 DEF InBoundsOnce
    <2> QED BY <2>3, <2>4
  <1>2. CASE End
    <2>1. walk'.at = walk.at /\ walk'.level = walk.level /\ walk'.end = Outcome
      BY <1>2 DEF End, Typed, TranslationTypeOK
    <2>2. Outcome = "done" => walk.at.fault = None
      BY DEF Outcome
    <2>3. walk.level \in Nat /\ Len(access.chain) \in Nat
      BY DEF Typed, TranslationTypeOK
    <2> QED BY <1>2, <2>1, <2>2, <2>3 DEF End, Going, InBoundsOnce
  <1>3. CASE Return
    BY <1>3 DEF Return, NoWalk, InBoundsOnce
  <1>4. ASSUME NEW va, NEW kind, NEW chain, NEW regions,
               NEW parentRegions, NEW who,
               Begin(va, kind, chain, regions, parentRegions, who)
        PROVE  InBoundsOnce'
    BY <1>4 DEF Begin, InBoundsOnce
  <1>5. CASE walk' = walk /\ ipa' = ipa /\ access' = access
    BY <1>5 DEF InBoundsOnce
  <1> QED BY <1>1, <1>2, <1>3, <1>4, <1>5
      DEF TranslationNext, CreatePageTable, Map, Unmap, translationVars

\* No level changes the offset in the page.
OffsetKept ==
  walk.end # "idle" =>
    /\ walk.at.pa % PageSize = access.va % PageSize
    /\ ipa % PageSize = access.va % PageSize

LEMMA LevelKeepsOffset ==
  ASSUME tables \in [Base -> Table \cup {None}], NEW b \in Base \cup {Inherit},
         NEW l, NEW at \in Result, PageOf(at.pa) \in Page, NEW regions
  PROVE  Level(b, l, at, regions).pa % PageSize = at.pa % PageSize
PROOF
  <1>1. at.pa \in Nat
    BY DEF Result
  <1>2. CASE b = Inherit \/ tables[b] = None
    BY <1>2 DEF Level, Start
  <1>3. CASE b # Inherit /\ tables[b] # None
    <2> DEFINE e == tables[b].entries[PageOf(at.pa)]
    <2>1. e \in Entry \cup {None}
      BY <1>3 DEF Table
    <2>2. CASE e = None
      BY <1>3, <2>2 DEF Level, Through, Start
    <2>3. CASE e # None
      <3>1. Level(b, l, at, regions).pa = Translated(e, at.pa)
        BY <1>3, <2>3 DEF Level, Through, Start
      <3>2. e.frame \in Nat
        BY <2>1, <2>3, PageAssumption DEF Entry, Page
      <3> HIDE DEF e
      <3> QED BY <1>1, <3>1, <3>2, RemInPage, PageOfSum DEF Translated
    <2> QED BY <2>2, <2>3
  <1> QED BY <1>2, <1>3

LEMMA NextKeepsOffset ==
  Typed /\ OffsetKept /\ [TranslationNext]_translationVars => OffsetKept'
PROOF
  <1> SUFFICES ASSUME Typed, OffsetKept, [TranslationNext]_translationVars
               PROVE  OffsetKept'
    OBVIOUS
  <1>1. CASE Step
    <2> DEFINE l == walk.level + 1
               b == access.chain[l]
               next == Level(b, l, walk.at, access.regions)
    <2> HIDE DEF l, b, next
    <2>1. /\ b \in Base \cup {Inherit} /\ walk.at \in Result
          /\ PageOf(walk.at.pa) \in Page
          /\ tables \in [Base -> Table \cup {None}] /\ access' = access
          /\ walk' = [level |-> l, at |-> next, end |-> "walking"]
          /\ ipa' = IF l = 1 THEN next.pa ELSE ipa
      BY <1>1, StepEffect DEF l, b, next
    <2>2. next.pa % PageSize = walk.at.pa % PageSize
      BY <2>1, LevelKeepsOffset DEF next
    <2>3. /\ walk.at.pa % PageSize = access.va % PageSize
          /\ ipa % PageSize = access.va % PageSize
      BY <1>1 DEF Step, OffsetKept
    <2>4. walk'.at.pa = next.pa /\ (ipa' = next.pa \/ ipa' = ipa) /\ access'.va = access.va
      BY <2>1
    <2>5. ipa' % PageSize = access.va % PageSize
      BY <2>2, <2>3, <2>4
    <2> QED BY <2>2, <2>3, <2>4, <2>5 DEF OffsetKept
  <1>2. CASE End
    BY <1>2 DEF End, OffsetKept, Typed, TranslationTypeOK
  <1>3. CASE Return
    BY <1>3 DEF Return, NoWalk, OffsetKept
  <1>4. ASSUME NEW va, NEW kind, NEW chain, NEW regions,
               NEW parentRegions, NEW who,
               Begin(va, kind, chain, regions, parentRegions, who)
        PROVE  OffsetKept'
    BY <1>4 DEF Begin, OffsetKept, Start
  <1>5. CASE walk' = walk /\ ipa' = ipa /\ access' = access
    BY <1>5 DEF OffsetKept
  <1> QED BY <1>1, <1>2, <1>3, <1>4, <1>5
      DEF TranslationNext, CreatePageTable, Map, Unmap, translationVars

\* In pages of whole words, equal offsets are aligned alike.
LEMMA AlignedOffset ==
  ASSUME Aligned(PageSize), NEW a \in Nat, NEW c \in Nat, Aligned(c),
         a % PageSize = c % PageSize
  PROVE  Aligned(a % PageSize) /\ Aligned(a)
PROOF
  <1>1. PICK k \in Nat : PageSize = 4 * k
    <2>1. PageSize \div 4 \in Nat /\ PageSize = 4 * (PageSize \div 4)
      BY PageAssumption DEF Aligned, WordSize
    <2> QED BY <2>1
  <1>2. PICK i \in Nat : c = 4 * i
    <2>1. c \div 4 \in Nat /\ c = 4 * (c \div 4)
      BY DEF Aligned, WordSize
    <2> QED BY <2>1
  <1> DEFINE q == c \div PageSize
             r == c % PageSize
             p == a \div PageSize
             m == q * k
             n == p * k
  <1>3. q \in Nat /\ p \in Nat /\ r \in Nat
    BY PageAssumption
  <1>4. c = (PageSize * q) + r /\ a = (PageSize * p) + r
    BY PageAssumption
  <1> HIDE DEF q, r, p
  <1>5. PageSize * q = 4 * m /\ PageSize * p = 4 * n /\ m \in Nat /\ n \in Nat
    BY <1>1, <1>3
  <1> HIDE DEF m, n
  <1>6. r = 4 * (i - m) /\ a = 4 * (n + (i - m))
    BY <1>2, <1>3, <1>4, <1>5
  <1>7. r % 4 = 0 /\ a % 4 = 0
    BY <1>3, <1>5, <1>6
  <1> QED BY <1>7 DEF r, Aligned, WordSize

\* An aligned word does not straddle the end of a page of whole words.
LEMMA AlignedWordOnPage ==
  ASSUME Aligned(PageSize), NEW a \in Nat, Aligned(a % PageSize)
  PROVE  PageOf(a + (WordSize - 1)) = PageOf(a)
PROOF
  <1> DEFINE r == a % PageSize
             p == a \div PageSize
  <1>1. r \in 0 .. PageSize - 1 /\ p \in Nat /\ a = (p * PageSize) + r
    BY PageAssumption
  <1>2. r % 4 = 0 /\ PageSize % 4 = 0
    BY DEF Aligned, WordSize
  <1> HIDE DEF r, p
  <1>3. r + 3 \in 0 .. PageSize - 1
    BY <1>1, <1>2, PageAssumption
  <1>4. p * PageSize \in Nat
    BY <1>1, PageAssumption
  <1>5. a + 3 = (p * PageSize) + (r + 3)
    BY <1>1, <1>3, <1>4, PageAssumption
  <1>6. PageOf((p * PageSize) + (r + 3)) = p /\ PageOf((p * PageSize) + r) = p
    BY <1>1, <1>3, PageOfSum
  <1> QED BY <1>1, <1>5, <1>6 DEF WordSize

\* It is enough to compare the first byte of an aligned word (memory.py:697):
\* the rest is on the same page, and in the same region when pages and regions
\* are of whole words.
THEOREM AlignedWordsStayInside == TranslationSpec => []AlignedWordsInside
PROOF
  <1> DEFINE Inv == Typed /\ InBoundsOnce /\ OffsetKept
  <1>1. TranslationInit => Inv
    BY InitTyped DEF TranslationInit, NoWalk, InBoundsOnce, OffsetKept
  <1>2. Inv /\ [TranslationNext]_translationVars => Inv'
    BY NextTyped, NextInBounds, NextKeepsOffset
  <1>3. Inv => AlignedWordsInside
    <2> SUFFICES ASSUME Inv, walk.end = "done" PROVE AlignedWordsInside
      BY DEF AlignedWordsInside
    <2> DEFINE aligned == Aligned(access.va) /\ Aligned(PageSize)
    <2>1. /\ walk.at.pa \in Nat /\ ipa \in Nat /\ access.va \in Nat
          /\ walk.at.pa % PageSize = access.va % PageSize
          /\ ipa % PageSize = access.va % PageSize
      BY DEF Typed, TranslationTypeOK, Result, OffsetKept
    <2>2. ASSUME aligned PROVE Aligned(walk.at.pa % PageSize) /\ Aligned(ipa)
      BY <2>1, <2>2, AlignedOffset
    <2>3. aligned => PageOf(walk.at.pa + (WordSize - 1)) = PageOf(walk.at.pa)
      BY <2>1, <2>2, AlignedWordOnPage
    <2>4. ASSUME access.chain # <<>>, access.regions # NoRegions
          PROVE  \E g \in access.regions :
                   /\ g.base <= ipa /\ ipa < g.base + g.size
                   /\ aligned /\ Aligned(g.base) /\ Aligned(g.size)
                        => ipa + (WordSize - 1) < g.base + g.size
      <3>1. Len(access.chain) >= 1
        BY <2>4 DEF Typed, TranslationTypeOK
      <3>2. InRegions(ipa, access.regions)
        BY <2>4, <3>1 DEF InBoundsOnce, Typed, TranslationTypeOK
      <3>3. PICK g \in access.regions : g.base <= ipa /\ ipa < g.base + g.size
        BY <3>2 DEF InRegions
      <3>4. access.regions \in Regions
        BY <2>4 DEF Typed, TranslationTypeOK
      <3>5. g.base \in Nat /\ g.size \in Nat
        BY <3>3, <3>4, RegionsAssumption
      <3>6. ASSUME aligned, Aligned(g.base), Aligned(g.size)
            PROVE  ipa + (WordSize - 1) < g.base + g.size
        <4>1. ipa % 4 = 0 /\ g.base % 4 = 0 /\ g.size % 4 = 0
          BY <2>2, <3>6 DEF Aligned, WordSize
        <4>2. ipa + 3 < g.base + g.size
          BY <2>1, <3>3, <3>5, <4>1
        <4> QED BY <4>2 DEF WordSize
      <3> QED BY <3>3, <3>6
    <2> QED BY <2>3, <2>4 DEF AlignedWordsInside
  <1> QED BY <1>1, <1>2, <1>3, PTL DEF TranslationSpec

-----------------------------------------------------------------------------
(* The rules of the chain.  A walk follows the only trail there is.        *)

\* Level l of access a leads through tables t from page p to page q.
Leads(t, a, l, p, q) ==
  /\ IF a.chain[l] = Inherit THEN q = p
     ELSE /\ t[a.chain[l]] # None
          /\ t[a.chain[l]].entries[p] # None
          /\ q = t[a.chain[l]].entries[p].frame
  /\ l = 1 /\ a.regions # NoRegions =>
       InRegions((q * PageSize) + (a.va % PageSize), a.regions)

\* Where walk w of access a stands: at the end of every trail of its length,
\* allowed what that trail permits; or at the level where the trails end.
Followed(t, a, w) ==
  IF w.at.fault = None
  THEN /\ Trail(t, a, w.level) # {}
       /\ \A s \in Trail(t, a, w.level) :
            /\ w.at.pa = TrailEnd(a, s, w.level)
            /\ (a.kind \in w.at.rights /\ ~w.at.control) <=> Permitted(t, a, s, w.level)
  ELSE /\ w.level >= 1
       /\ Trail(t, a, w.level - 1) # {}
       /\ Trail(t, a, w.level) = {}
       /\ w.at.fault = Blame(t, a, a.chain[w.level])

FollowsRules ==
  /\ walk.end # "idle" => Followed(tables, access, walk)
  /\ Ended => ~Going /\ walk.end = Outcome

\* The beginning of a trail is a trail.
LEMMA TrailBeginning ==
  ASSUME NEW t, NEW a, NEW m \in Nat, NEW n \in Nat, m <= n, NEW s \in Trail(t, a, n)
  PROVE  [i \in 0 .. m |-> s[i]] \in Trail(t, a, m)
PROOF
  <1> DEFINE r == [i \in 0 .. m |-> s[i]]
  <1>1. s \in [0 .. n -> Page] /\ s[0] = PageOf(a.va)
    BY DEF Trail
  <1>2. r \in [0 .. m -> Page] /\ r[0] = PageOf(a.va)
    BY <1>1
  <1>3. ASSUME NEW i \in 1 .. m
        PROVE  LET b == a.chain[i]
               IN  IF b = Inherit THEN r[i] = r[i - 1]
                   ELSE /\ t[b] # None
                        /\ t[b].entries[r[i - 1]] # None
                        /\ r[i] = t[b].entries[r[i - 1]].frame
    <2>1. i \in 1 .. n /\ i \in 0 .. m /\ i - 1 \in 0 .. m
      OBVIOUS
    <2>2. r[i] = s[i] /\ r[i - 1] = s[i - 1]
      BY <2>1
    <2>3. LET b == a.chain[i]
          IN  IF b = Inherit THEN s[i] = s[i - 1]
              ELSE /\ t[b] # None
                   /\ t[b].entries[s[i - 1]] # None
                   /\ s[i] = t[b].entries[s[i - 1]].frame
      BY <2>1 DEF Trail
    <2> HIDE DEF r
    <2> QED BY <2>2, <2>3
  <1>4. m >= 1 /\ a.regions # NoRegions =>
          InRegions((r[1] * PageSize) + (a.va % PageSize), a.regions)
    <2>1. CASE m >= 1
      <3>1. n >= 1 /\ r[1] = s[1]
        BY <2>1
      <3>2. n >= 1 /\ a.regions # NoRegions =>
              InRegions((s[1] * PageSize) + (a.va % PageSize), a.regions)
        BY DEF Trail
      <3> HIDE DEF r
      <3> QED BY <3>1, <3>2
    <2> QED BY <2>1
  <1> HIDE DEF r
  <1>5. r \in Trail(t, a, m)
    BY <1>2, <1>3, <1>4 DEF Trail
  <1> QED BY <1>5 DEF r

\* A trail goes on where the next level leads.
LEMMA TrailEnding ==
  ASSUME NEW t, NEW a, NEW l \in Nat, l >= 1, NEW s \in Trail(t, a, l)
  PROVE  s[l] \in Page /\ Leads(t, a, l, s[l - 1], s[l])
PROOF
  <1>1. l \in 1 .. l /\ l \in 0 .. l
    OBVIOUS
  <1>2. s \in [0 .. l -> Page]
    BY DEF Trail
  <1>3. LET b == a.chain[l]
        IN  IF b = Inherit THEN s[l] = s[l - 1]
            ELSE /\ t[b] # None
                 /\ t[b].entries[s[l - 1]] # None
                 /\ s[l] = t[b].entries[s[l - 1]].frame
    BY <1>1 DEF Trail
  <1>4. l >= 1 /\ a.regions # NoRegions =>
          InRegions((s[1] * PageSize) + (a.va % PageSize), a.regions)
    BY DEF Trail
  <1> QED BY <1>1, <1>2, <1>3, <1>4 DEF Leads

LEMMA TrailExtended ==
  ASSUME NEW t, NEW a, NEW l \in Nat, l >= 1, NEW s \in Trail(t, a, l - 1),
         NEW q \in Page, Leads(t, a, l, s[l - 1], q)
  PROVE  [i \in 0 .. l |-> IF i = l THEN q ELSE s[i]] \in Trail(t, a, l)
PROOF
  <1> DEFINE r == [i \in 0 .. l |-> IF i = l THEN q ELSE s[i]]
  <1>1. s \in [0 .. l - 1 -> Page] /\ s[0] = PageOf(a.va)
    BY DEF Trail
  <1>2. r \in [0 .. l -> Page] /\ r[0] = PageOf(a.va) /\ r[l] = q /\ r[l - 1] = s[l - 1]
    BY <1>1
  <1>3. ASSUME NEW i \in 1 .. l
        PROVE  LET b == a.chain[i]
               IN  IF b = Inherit THEN r[i] = r[i - 1]
                   ELSE /\ t[b] # None
                        /\ t[b].entries[r[i - 1]] # None
                        /\ r[i] = t[b].entries[r[i - 1]].frame
    <2>1. CASE i = l
      <3> HIDE DEF r
      <3> QED BY <1>2, <2>1 DEF Leads
    <2>2. CASE i # l
      <3>1. i \in 1 .. l - 1 /\ i \in 0 .. l /\ i - 1 \in 0 .. l /\ i - 1 # l
        BY <2>2
      <3>2. r[i] = s[i] /\ r[i - 1] = s[i - 1]
        BY <2>2, <3>1
      <3>3. LET b == a.chain[i]
            IN  IF b = Inherit THEN s[i] = s[i - 1]
                ELSE /\ t[b] # None
                     /\ t[b].entries[s[i - 1]] # None
                     /\ s[i] = t[b].entries[s[i - 1]].frame
        BY <3>1 DEF Trail
      <3> HIDE DEF r
      <3> QED BY <3>2, <3>3
    <2> QED BY <2>1, <2>2
  <1>4. l >= 1 /\ a.regions # NoRegions =>
          InRegions((r[1] * PageSize) + (a.va % PageSize), a.regions)
    <2>1. CASE l = 1
      <3>1. r[1] = q
        BY <2>1
      <3> HIDE DEF r
      <3> QED BY <2>1, <3>1 DEF Leads
    <2>2. CASE l # 1
      <3>1. l - 1 >= 1 /\ r[1] = s[1]
        BY <2>2
      <3>2. l - 1 >= 1 /\ a.regions # NoRegions =>
              InRegions((s[1] * PageSize) + (a.va % PageSize), a.regions)
        BY DEF Trail
      <3> HIDE DEF r
      <3> QED BY <3>1, <3>2
    <2> QED BY <2>1, <2>2
  <1> HIDE DEF r
  <1>5. r \in Trail(t, a, l)
    BY <1>2, <1>3, <1>4 DEF Trail
  <1> QED BY <1>5 DEF r

\* The table of level l, if it has one, allows access a to page p.
Allows(t, a, l, p) ==
  a.chain[l] # Inherit =>
    LET e == t[a.chain[l]].entries[p]
    IN  a.kind \in e.rights /\ ~e.control

\* One pass of the loop, from page p, goes where the level leads.
LEMMA LevelGoes ==
  ASSUME tables \in [Base -> Table \cup {None}], access.who \in Domain,
         access.va \in Nat,
         NEW l \in Nat, l >= 1, NEW b \in Base \cup {Inherit}, b = access.chain[l],
         NEW at \in Result, at.fault = None,
         NEW p \in Page, at.pa = (p * PageSize) + (access.va % PageSize),
         NEW next, next = Level(b, l, at, access.regions)
  PROVE  /\ next.fault = None =>
              \E q \in Page :
                /\ Leads(tables, access, l, p, q)
                /\ \A z : Leads(tables, access, l, p, z) => z = q
                /\ next.pa = (q * PageSize) + (access.va % PageSize)
                /\ (access.kind \in next.rights /\ ~next.control)
                     <=> /\ access.kind \in at.rights /\ ~at.control
                         /\ Allows(tables, access, l, p)
         /\ next.fault # None =>
              /\ \A z : ~Leads(tables, access, l, p, z)
              /\ next.fault = Blame(tables, access, b)
PROOF
  <1> DEFINE v == access.va % PageSize
             e == tables[b].entries[p]
  <1>1. v \in 0 .. PageSize - 1 /\ p \in Nat
    BY RemInPage, PageAssumption DEF Page
  <1>2. PageOf(at.pa) = p /\ at.pa % PageSize = v
    BY <1>1, PageOfSum DEF v
  <1> HIDE DEF v
  <1>3. CASE b = Inherit
    <2>1. next = IF Bounded(l, at.pa, access.regions) THEN at
                 ELSE [Start(at.pa) EXCEPT !.fault = access.who]
      BY <1>3 DEF Level
    <2>2. \A z : Leads(tables, access, l, p, z) <=>
                   z = p /\ Bounded(l, at.pa, access.regions)
      BY <1>3 DEF Leads, Bounded
    <2>3. CASE Bounded(l, at.pa, access.regions)
      <3>1. next = at
        BY <2>1, <2>3
      <3> QED BY <1>3, <2>2, <2>3, <3>1 DEF Allows
    <2>4. CASE ~Bounded(l, at.pa, access.regions)
      <3>1. next.fault = access.who
        BY <2>1, <2>4 DEF Start
      <3> QED BY <1>3, <2>2, <2>4, <3>1, TranslationNoneAssumption DEF Blame
    <2> QED BY <2>3, <2>4
  <1>4. CASE b # Inherit /\ tables[b] = None
    <2>1. next.fault = b /\ b \in Base
      BY <1>4 DEF Level, Start
    <2> QED BY <1>4, <2>1, TranslationNoneAssumption DEF Leads, Blame
  <1>5. CASE b # Inherit /\ tables[b] # None
    <2>1. tables[b] \in Table /\ tables[b].owner \in Domain /\ tables[b].owner # None
      BY <1>5, TranslationNoneAssumption DEF Table
    <2>2. e \in Entry \cup {None}
      BY <2>1 DEF Table
    <2>3. next = IF e = None THEN [Start(at.pa) EXCEPT !.fault = tables[b].owner]
                 ELSE IF Bounded(l, Translated(e, at.pa), access.regions)
                 THEN [pa |-> Translated(e, at.pa), rights |-> at.rights \cap e.rights,
                       control |-> at.control \/ e.control, fault |-> None]
                 ELSE [Start(Translated(e, at.pa)) EXCEPT !.fault = tables[b].owner]
      BY <1>2, <1>5 DEF Level, Through
    <2>4. Translated(e, at.pa) = (e.frame * PageSize) + v
      BY <1>2 DEF Translated
    <2>5. \A z : Leads(tables, access, l, p, z) <=>
                   /\ e # None /\ z = e.frame
                   /\ Bounded(l, Translated(e, at.pa), access.regions)
      <3>1. \A z : Leads(tables, access, l, p, z) <=>
                     /\ e # None /\ z = e.frame
                     /\ l = 1 /\ access.regions # NoRegions =>
                          InRegions((z * PageSize) + v, access.regions)
        BY <1>5 DEF Leads, v
      <3> HIDE DEF e
      <3> QED BY <2>4, <3>1 DEF Bounded
    <2>6. Blame(tables, access, b) = tables[b].owner
      BY <1>5 DEF Blame
    <2>7. Allows(tables, access, l, p) <=> access.kind \in e.rights /\ ~e.control
      BY <1>5 DEF Allows
    <2> HIDE DEF e
    <2>8. CASE e # None /\ Bounded(l, Translated(e, at.pa), access.regions)
      <3>1. e.frame \in Page
        BY <2>2, <2>8 DEF Entry
      <3>2. next = [pa |-> Translated(e, at.pa), rights |-> at.rights \cap e.rights,
                    control |-> at.control \/ e.control, fault |-> None]
        BY <2>3, <2>8
      <3>3. /\ next.pa = (e.frame * PageSize) + v /\ next.fault = None
            /\ next.rights = at.rights \cap e.rights
        BY <2>4, <3>2
      <3>4. next.control = (at.control \/ e.control)
        BY <3>2
      <3>5. (access.kind \in next.rights /\ ~next.control)
              <=> /\ access.kind \in at.rights /\ ~at.control
                  /\ Allows(tables, access, l, p)
        BY <2>7, <3>3, <3>4
      <3> QED BY <2>5, <2>8, <3>1, <3>3, <3>5 DEF v
    <2>9. CASE e = None \/ ~Bounded(l, Translated(e, at.pa), access.regions)
      <3>1. next.fault = tables[b].owner
        BY <2>3, <2>9 DEF Start
      <3> QED BY <2>1, <2>5, <2>6, <2>9, <3>1
    <2> QED BY <2>8, <2>9
  <1> QED BY <1>3, <1>4, <1>5

\* One pass of the loop follows the trails of the tables.
LEMMA StepFollows ==
  ASSUME Typed, FollowsRules, Step
  PROVE  Followed(tables, access, walk')
PROOF
  <1> DEFINE l == walk.level + 1
             b == access.chain[l]
             next == Level(b, l, walk.at, access.regions)
             v == access.va % PageSize
  <1> HIDE DEF l, b, next
  <1>1. /\ l \in Nat /\ l - 1 \in Nat /\ l >= 1 /\ b \in Base \cup {Inherit}
        /\ walk.at.fault = None /\ walk.at \in Result /\ PageOf(walk.at.pa) \in Page
        /\ tables \in [Base -> Table \cup {None}] /\ access.who \in Domain
    BY StepEffect DEF l, b
  <1>2. walk' = [level |-> l, at |-> next, end |-> "walking"]
    BY StepEffect DEF l, b, next
  <1>3. walk.level = l - 1 /\ access.va \in Nat /\ l - 1 + 1 = l
    BY DEF l, Typed, TranslationTypeOK
  <1>4. v \in 0 .. PageSize - 1
    BY <1>3, RemInPage
  <1> HIDE DEF v
  <1>5. /\ Trail(tables, access, l - 1) # {}
        /\ \A s \in Trail(tables, access, l - 1) :
             /\ walk.at.pa = TrailEnd(access, s, l - 1)
             /\ (access.kind \in walk.at.rights /\ ~walk.at.control)
                  <=> Permitted(tables, access, s, l - 1)
    BY <1>1, <1>3 DEF Followed, FollowsRules, Step
  \* Every trail so far ends at the page the walk is in.
  <1>6. ASSUME NEW s \in Trail(tables, access, l - 1)
        PROVE  /\ s[l - 1] \in Page
               /\ walk.at.pa = (s[l - 1] * PageSize) + v
               /\ PageOf(walk.at.pa) = s[l - 1]
    <2>1. s[l - 1] \in Page
      BY <1>1 DEF Trail
    <2>2. walk.at.pa = (s[l - 1] * PageSize) + v
      BY <1>5 DEF TrailEnd, v
    <2>3. s[l - 1] \in Nat
      BY <2>1, PageAssumption DEF Page
    <2> QED BY <1>4, <2>1, <2>2, <2>3, PageOfSum
  <1> DEFINE p == PageOf(walk.at.pa)
  <1>7. p \in Page /\ walk.at.pa = (p * PageSize) + v
    BY <1>5, <1>6
  <1> HIDE DEF p
  <1>8. /\ next.fault = None =>
             \E q \in Page :
               /\ Leads(tables, access, l, p, q)
               /\ \A z : Leads(tables, access, l, p, z) => z = q
               /\ next.pa = (q * PageSize) + v
               /\ (access.kind \in next.rights /\ ~next.control)
                    <=> /\ access.kind \in walk.at.rights /\ ~walk.at.control
                        /\ Allows(tables, access, l, p)
        /\ next.fault # None =>
             /\ \A z : ~Leads(tables, access, l, p, z)
             /\ next.fault = Blame(tables, access, b)
    BY <1>1, <1>3, <1>7, LevelGoes DEF b, next, v
  \* A longer trail is a trail so far and the page the level leads to.
  <1>9. ASSUME NEW s \in Trail(tables, access, l)
        PROVE  /\ [i \in 0 .. l - 1 |-> s[i]] \in Trail(tables, access, l - 1)
               /\ s[l - 1] = p
               /\ Leads(tables, access, l, p, s[l])
    <2> DEFINE r == [i \in 0 .. l - 1 |-> s[i]]
    <2>1. r \in Trail(tables, access, l - 1)
      BY <1>1, TrailBeginning
    <2>2. r[l - 1] = s[l - 1]
      BY <1>1
    <2>3. s[l - 1] = p
      BY <1>6, <2>1, <2>2 DEF p
    <2>4. Leads(tables, access, l, s[l - 1], s[l])
      BY <1>1, TrailEnding
    <2> QED BY <2>1, <2>3, <2>4
  <1>10. CASE next.fault # None
    <2>1. Trail(tables, access, l) = {}
      BY <1>8, <1>9, <1>10
    <2> QED BY <1>1, <1>2, <1>5, <1>8, <1>10, <2>1 DEF Followed, b
  <1>11. CASE next.fault = None
    <2>1. PICK q \in Page :
            /\ Leads(tables, access, l, p, q)
            /\ \A z : Leads(tables, access, l, p, z) => z = q
            /\ next.pa = (q * PageSize) + v
            /\ (access.kind \in next.rights /\ ~next.control)
                 <=> /\ access.kind \in walk.at.rights /\ ~walk.at.control
                     /\ Allows(tables, access, l, p)
      BY <1>8, <1>11
    <2>2. Trail(tables, access, l) # {}
      <3>1. PICK s \in Trail(tables, access, l - 1) : s[l - 1] = p
        BY <1>5, <1>6 DEF p
      <3>2. [i \in 0 .. l |-> IF i = l THEN q ELSE s[i]] \in Trail(tables, access, l)
        BY <1>1, <2>1, <3>1, TrailExtended
      <3> QED BY <3>2
    <2>3. ASSUME NEW s \in Trail(tables, access, l)
          PROVE  /\ next.pa = TrailEnd(access, s, l)
                 /\ (access.kind \in next.rights /\ ~next.control)
                      <=> Permitted(tables, access, s, l)
      <3> DEFINE r == [i \in 0 .. l - 1 |-> s[i]]
      <3>1. r \in Trail(tables, access, l - 1) /\ s[l - 1] = p /\ s[l] = q
        BY <1>9, <2>1
      <3>2. next.pa = TrailEnd(access, s, l)
        BY <2>1, <3>1 DEF TrailEnd, v
      <3>3. (access.kind \in walk.at.rights /\ ~walk.at.control)
              <=> Permitted(tables, access, r, l - 1)
        BY <1>5, <3>1
      <3>4. \A i \in 1 .. l - 1 : r[i - 1] = s[i - 1]
        BY <1>1
      <3> HIDE DEF r
      <3>5. Permitted(tables, access, s, l) <=>
              /\ Permitted(tables, access, r, l - 1)
              /\ Allows(tables, access, l, p)
        <4>1. 1 .. l = (1 .. l - 1) \cup {l}
          BY <1>1
        <4> QED BY <3>1, <3>4, <4>1 DEF Permitted, Allows
      <3> QED BY <2>1, <3>2, <3>3, <3>5
    <2> QED BY <1>2, <1>11, <2>2, <2>3 DEF Followed
  <1> QED BY <1>10, <1>11

LEMMA NextFollowsRules ==
  Typed /\ FollowsRules /\ [TranslationNext]_translationVars => FollowsRules'
PROOF
  <1> SUFFICES ASSUME Typed, FollowsRules, [TranslationNext]_translationVars
               PROVE  FollowsRules'
    OBVIOUS
  <1>1. CASE Step
    <2>1. walk'.end = "walking" /\ tables' = tables /\ access' = access
      BY <1>1, StepEffect
    <2>2. Followed(tables, access, walk')
      BY <1>1, StepFollows
    <2> QED BY <2>1, <2>2 DEF FollowsRules, Ended
  <1>2. CASE End
    <2>1. /\ walk'.at = walk.at /\ walk'.level = walk.level /\ walk'.end = Outcome
          /\ tables' = tables /\ access' = access /\ walk.end = "walking" /\ ~Going
      BY <1>2 DEF End, Typed, TranslationTypeOK
    <2>2. Followed(tables', access', walk')
      BY <2>1 DEF FollowsRules, Followed
    <2>3. ~Going' /\ Outcome' = Outcome
      BY <2>1 DEF Going, Outcome
    <2> QED BY <2>1, <2>2, <2>3 DEF FollowsRules
  <1>3. CASE Return
    BY <1>3 DEF Return, NoWalk, FollowsRules, Ended
  <1>4. ASSUME NEW p \in Page, NEW o \in Offset, NEW kind \in {"r", "w"},
               NEW chain \in Chain, NEW regions \in Regions \cup {NoRegions},
               NEW parentRegions \in Regions \cup {NoRegions}, NEW who \in Domain,
               Begin((p * PageSize) + o, kind, chain, regions, parentRegions, who)
        PROVE  FollowsRules'
    <2> DEFINE va == (p * PageSize) + o
    <2>1. p \in Nat /\ o \in 0 .. PageSize - 1
      BY OffsetAssumption, PageAssumption DEF Page
    <2>2. va \in Nat /\ PageOf(va) = p /\ va % PageSize = o
      BY <2>1, PageOfSum
    <2>3. /\ access'.va = va /\ access'.kind = kind /\ tables' = tables
          /\ walk' = [level |-> 0, at |-> Start(va), end |-> "walking"]
      BY <1>4 DEF Begin
    <2> HIDE DEF va
    <2>4. \A s \in Trail(tables', access', 0) : s[0] = p
      BY <2>2, <2>3 DEF Trail
    <2>5. [i \in 0 .. 0 |-> p] \in Trail(tables', access', 0)
      BY <2>2, <2>3 DEF Trail
    <2>6. \A s \in Trail(tables', access', 0) :
            va = TrailEnd(access', s, 0) /\ Permitted(tables', access', s, 0)
      BY <2>2, <2>3, <2>4 DEF TrailEnd, Permitted, va
    <2>7. /\ walk'.at.pa = va /\ walk'.at.fault = None /\ walk'.level = 0
          /\ kind \in walk'.at.rights /\ ~walk'.at.control /\ walk'.end = "walking"
      BY <2>3 DEF Start, Full
    <2>8. Followed(tables', access', walk')
      BY <2>3, <2>5, <2>6, <2>7 DEF Followed
    <2> QED BY <2>7, <2>8 DEF FollowsRules, Ended
  <1>5. CASE Idle /\ UNCHANGED <<access, walk>>
    BY <1>5 DEF Idle, FollowsRules, Ended
  <1>6. CASE UNCHANGED translationVars
    BY <1>6 DEF translationVars, FollowsRules, Followed, Ended, Going, Outcome
  <1> QED BY <1>1, <1>2, <1>3, <1>4, <1>5, <1>6
      DEF TranslationNext, CreatePageTable, Map, Unmap

\* Once the walk has ended, what it has followed are the rules.
LEMMA EndFollowsRules == Typed /\ FollowsRules => RulesFollowed
PROOF
  <1> SUFFICES ASSUME Typed, FollowsRules, Ended PROVE RulesFollowed
    BY DEF RulesFollowed, Ended
  <1> DEFINE n == Len(access.chain)
             l == walk.level
  <1>1. /\ Followed(tables, access, walk) /\ ~Going /\ walk.end = Outcome
        /\ n \in Nat /\ l \in Nat /\ l <= n
    BY DEF FollowsRules, Ended, Typed, TranslationTypeOK
  <1>2. CASE walk.at.fault = None
    <2>1. l = n
      BY <1>1, <1>2 DEF Going
    <2>2. /\ Trail(tables, access, n) # {}
          /\ \A s \in Trail(tables, access, n) :
               /\ walk.at.pa = TrailEnd(access, s, n)
               /\ (access.kind \in walk.at.rights /\ ~walk.at.control)
                    <=> Permitted(tables, access, s, n)
      BY <1>1, <1>2, <2>1 DEF Followed
    <2>3. walk.end # "fault"
      BY <1>1, <1>2 DEF Outcome
    <2>4. walk.end = "done" <=>
            /\ access.kind \in walk.at.rights /\ ~walk.at.control
            /\ InMemory(walk.at.pa)
      BY <1>1, <1>2 DEF Outcome
    <2> HIDE DEF n, l
    <2>5. walk.end = "done" <=>
            \E s \in Trail(tables, access, n) :
              /\ Permitted(tables, access, s, n)
              /\ InMemory(TrailEnd(access, s, n))
      BY <2>2, <2>4
    <2>6. walk.end = "done" =>
            \E s \in Trail(tables, access, n) : walk.at.pa = TrailEnd(access, s, n)
      BY <2>2
    <2> QED BY <2>3, <2>5, <2>6 DEF RulesFollowed, n
  <1>3. CASE walk.at.fault # None
    <2>1. walk.end = "fault"
      BY <1>1, <1>3 DEF Outcome
    <2>2. /\ l >= 1 /\ Trail(tables, access, l - 1) # {} /\ Trail(tables, access, l) = {}
          /\ walk.at.fault = Blame(tables, access, access.chain[l])
      BY <1>1, <1>3 DEF Followed
    <2>3. Trail(tables, access, n) = {}
      <3>1. \A s \in Trail(tables, access, n) :
              [i \in 0 .. l |-> s[i]] \in Trail(tables, access, l)
        BY <1>1, TrailBeginning
      <3> QED BY <2>2, <3>1
    <2>4. l \in 1 .. n
      BY <1>1, <2>2
    <2> HIDE DEF n, l
    <2> QED BY <2>1, <2>2, <2>3, <2>4 DEF RulesFollowed, n
  <1> QED BY <1>2, <1>3

\* The memory manager keeps the rules it states (memory.py:506-515): an access
\* succeeds just when every level of the chain leads on and allows it, it goes
\* to the address the levels lead to, and the first level that does not lead
\* on is the one that is blamed.
THEOREM RulesAlwaysFollowed == TranslationSpec => []RulesFollowed
PROOF
  <1>1. TranslationInit => Typed /\ FollowsRules
    BY InitTyped DEF TranslationInit, NoWalk, FollowsRules, Ended
  <1>2. Typed /\ FollowsRules /\ [TranslationNext]_translationVars
          => (Typed /\ FollowsRules)'
    BY NextTyped, NextFollowsRules
  <1> QED BY <1>1, <1>2, EndFollowsRules, PTL DEF TranslationSpec
=============================================================================
