----------------------------- MODULE Core_proofs -----------------------------
(***************************************************************************)
(* Proofs about Core, alone and under a host (Machine), for any blocks,    *)
(* vectors, page tables, IRQs and numbers of domains and instances.        *)
(*                                                                         *)
(* What is proved of the tree and of the controller alone is cited, not    *)
(* proved again: TP and IP are the modules with those proofs.  They define *)
(* the operations a second time, so the first lemmas say that the          *)
(* operations Core composes are the ones those proofs are about.           *)
(***************************************************************************)
EXTENDS Machine, TLAPS

TP == INSTANCE DomainChain_proofs
IP == INSTANCE Interrupts_proofs WITH Owner <- 0 .. MaxDomains

\* RPALogic as Core knows it and as its proofs know it.
LEMMA SameTree ==
  /\ T!Init <=> TP!Init
  /\ \A b, v : T!PrepareBlock(b, v) <=> TP!PrepareBlock(b, v)
  /\ \A b : T!DescendReturn(b) <=> TP!DescendReturn(b)
  /\ \A b : T!DescendFirst(b) <=> TP!DescendFirst(b)
  /\ T!Ascend <=> TP!Ascend
  /\ T!Exit <=> TP!Exit
  /\ T!AscendAtRoot <=> TP!AscendAtRoot
PROOF
  <1>1. T!Init <=> TP!Init
    BY DEF T!Init, TP!Init, T!Root, TP!Root, T!Addr, TP!Addr, T!EmptyDcb, TP!EmptyDcb
  <1>2. \A b, v : T!PrepareBlock(b, v) <=> TP!PrepareBlock(b, v)
    BY DEF T!PrepareBlock, TP!PrepareBlock, T!FreshBlock, TP!FreshBlock, T!EmptyDcb, TP!EmptyDcb
  <1>3. \A b : T!DescendReturn(b) <=> TP!DescendReturn(b)
    BY DEF T!DescendReturn, TP!DescendReturn, T!RealBlock, TP!RealBlock
  <1>4. \A b : T!DescendFirst(b) <=> TP!DescendFirst(b)
    BY DEF T!DescendFirst, TP!DescendFirst, T!FreshBlock, TP!FreshBlock,
           T!Grow, TP!Grow, T!ReadBlock, TP!ReadBlock
  <1>5. T!Ascend <=> TP!Ascend
    BY DEF T!Ascend, TP!Ascend
  <1>6. T!Exit <=> TP!Exit
    BY DEF T!Exit, TP!Exit, T!LeafExit, TP!LeafExit
  <1>7. T!AscendAtRoot <=> TP!AscendAtRoot
    BY DEF T!AscendAtRoot, TP!AscendAtRoot, T!vars, TP!vars
  <1> QED BY <1>1, <1>2, <1>3, <1>4, <1>5, <1>6, <1>7

\* The interrupt controller as Core knows it and as its proofs know it.
LEMMA SameController ==
  /\ I!ControllerInit = IP!ControllerInit
  /\ \A c, h : I!Exists(c, h) <=> IP!Exists(c, h)
  /\ \A c, d, r, p : I!Requested(c, d, r, p) = IP!Requested(c, d, r, p)
  /\ \A c, h : I!Released(c, h) = IP!Released(c, h)
  /\ \A c, h, on : I!Switched(c, h, on) = IP!Switched(c, h, on)
  /\ \A c, h, v : I!Vectored(c, h, v) = IP!Vectored(c, h, v)
  /\ \A c, h, i : I!Triggered(c, h, i) = IP!Triggered(c, h, i)
  /\ \A c, h, i : I!Cleared(c, h, i) = IP!Cleared(c, h, i)
  /\ \A c, d : I!FirstReady(c, d) = IP!FirstReady(c, d)
PROOF
  <1> USE DEF I!Instance, IP!Instance, I!Exists, IP!Exists, I!NoInstanceHandle, IP!NoInstanceHandle
  <1>1. I!ControllerInit = IP!ControllerInit
    BY DEF I!ControllerInit, IP!ControllerInit
  <1>2. \A c, h : I!Exists(c, h) <=> IP!Exists(c, h)
    OBVIOUS
  <1>3. \A c, d, r, p : I!Requested(c, d, r, p) = IP!Requested(c, d, r, p)
    BY DEF I!Requested, IP!Requested, I!NewInstance, IP!NewInstance
  <1>4. \A c, h : I!Released(c, h) = IP!Released(c, h)
    <2>1. \A s, h : I!RemoveFirst(s, h) = IP!RemoveFirst(s, h)
      BY DEF I!RemoveFirst, IP!RemoveFirst, I!RemoveAt, IP!RemoveAt,
             I!SelectInSeq, IP!SelectInSeq, I!Min, IP!Min
    <2> QED BY <2>1, Zenon DEF I!Released, IP!Released
  <1>5. \A c, h, on : I!Switched(c, h, on) = IP!Switched(c, h, on)
    BY DEF I!Switched, IP!Switched
  <1>6. \A c, h, v : I!Vectored(c, h, v) = IP!Vectored(c, h, v)
    BY DEF I!Vectored, IP!Vectored
  <1>7. \A c, h, i : I!Triggered(c, h, i) = IP!Triggered(c, h, i)
    BY DEF I!Triggered, IP!Triggered
  <1>8. \A c, h, i : I!Cleared(c, h, i) = IP!Cleared(c, h, i)
    BY DEF I!Cleared, IP!Cleared
  <1>9. \A c, d : I!FirstReady(c, d) = IP!FirstReady(c, d)
    BY DEF I!FirstReady, IP!FirstReady, I!Min, IP!Min
  <1> QED BY <1>1, <1>2, <1>3, <1>4, <1>5, <1>6, <1>7, <1>8, <1>9

-----------------------------------------------------------------------------
\* The tree: one chain of domains (DomainChain_proofs), whose ids never run
\* past MaxDomains, because no object is ever rebuilt.
Numbered == nextId = nObj /\ (nextId = 1 \/ nextId <= MaxDomains)

TreeInv == TP!OneChain /\ Numbered

\* What one step of the core can do to the tree.
TreeStep ==
  \/ \E b \in Block, v \in T!Word : T!PrepareBlock(b, v)
  \/ \E b \in Block : T!DescendReturn(b) \/ T!DescendFirst(b)
  \/ T!Ascend
  \/ T!Exit
  \/ UNCHANGED treeVars

\* The tree starts as a chain of one.
LEMMA InitTree == T!Init => TreeInv
PROOF
  <1>1. TP!Init => TP!OneChain
    BY TreeAssumption, TP!InitOneChain DEF Conventions
  <1>2. TP!Init => Numbered
    BY DEF TP!Init, Numbered
  <1> QED BY <1>1, <1>2, SameTree DEF TreeInv

\* Each of these is a step of the tree on its own.
LEMMA TreeStepIsNext == TreeStep => [TP!Next]_(TP!vars)
PROOF
  <1> SUFFICES ASSUME TreeStep PROVE [TP!Next]_(TP!vars)
    OBVIOUS
  <1>1. ASSUME NEW b \in Block, NEW v \in T!Word, T!PrepareBlock(b, v) PROVE TP!Next
    <2>1. v \in TP!Word /\ TP!PrepareBlock(b, v)
      BY <1>1, SameTree DEF T!Word, TP!Word
    <2> QED BY <2>1 DEF TP!Next
  <1>2. ASSUME NEW b \in Block, T!DescendReturn(b) \/ T!DescendFirst(b) PROVE TP!Next
    <2>1. b \in TP!Addr /\ (TP!DescendReturn(b) \/ TP!DescendFirst(b))
      BY <1>2, SameTree DEF TP!Addr
    <2> QED BY <2>1 DEF TP!Next
  <1>3. CASE T!Ascend \/ T!Exit
    BY <1>3, SameTree DEF TP!Next
  <1>4. CASE UNCHANGED treeVars
    BY <1>4 DEF treeVars, TP!vars
  <1> QED BY <1>1, <1>2, <1>3, <1>4 DEF TreeStep

\* So the chain is kept, and the ids stay in range.
LEMMA TreeStepKeeps ==
  ASSUME TreeInv, TreeStep
  PROVE  TreeInv'
PROOF
  <1>1. [TP!Next]_(TP!vars)
    BY TreeStepIsNext
  <1>2. TP!OneChain'
    <2>1. TP!Disciplined
      BY DEF TP!Disciplined, Conventions
    <2> QED BY <1>1, <2>1, TP!NextOneChain, TreeAssumption DEF TreeInv, Conventions
  <1>3. Numbered'
    <2>1. nObj \in Nat
      BY DEF TreeInv, TP!OneChain, TP!Anchored, TP!TypeOK
    <2>2. \/ nObj' = nObj /\ nextId' = nextId
          \/ nObj < MaxDomains /\ nObj' = nObj + 1 /\ nextId' = nextId + 1
      <3>1. ASSUME NEW b \in Block, T!DescendFirst(b)
            PROVE  nObj < MaxDomains /\ nObj' = nObj + 1 /\ nextId' = nextId + 1
        BY <3>1 DEF T!DescendFirst
      <3>2. ASSUME NEW b \in Block, NEW v \in T!Word, T!PrepareBlock(b, v)
            PROVE  nObj' = nObj /\ nextId' = nextId
        BY <3>2 DEF T!PrepareBlock
      <3>3. ASSUME NEW b \in Block, T!DescendReturn(b)
            PROVE  nObj' = nObj /\ nextId' = nextId
        BY <3>3 DEF T!DescendReturn
      <3>4. CASE T!Ascend
        BY <3>4 DEF T!Ascend
      <3>5. CASE T!Exit
        <4>1. UNCHANGED <<nObj, nextId>>
          BY <3>5, Zenon DEF T!Exit
        <4> QED BY <4>1
      <3>6. CASE UNCHANGED treeVars
        BY <3>6 DEF treeVars
      <3> QED BY <3>1, <3>2, <3>3, <3>4, <3>5, <3>6 DEF TreeStep
    <2> QED BY <2>1, <2>2, TreeAssumption DEF TreeInv, Numbered
  <1> QED BY <1>2, <1>3 DEF TreeInv

\* The running domain has an id that may own interrupt instances, and a DCB.
DomainFits ==
  /\ heap[current].id \in 0 .. MaxDomains
  /\ heap[current].addr \in T!Addr

LEMMA RunningDomain == TreeInv => DomainFits
PROOF
  <1> SUFFICES ASSUME TreeInv PROVE DomainFits
    OBVIOUS
  <1>1. /\ heap[current] \in TP!Domain
        /\ heap[current].id < nextId
    BY DEF TreeInv, TP!OneChain, TP!Anchored, TP!TypeOK, TP!IdsOnce
  <1>2. /\ heap[current].id \in Nat
        /\ heap[current].addr \in T!Addr
    BY <1>1 DEF TP!Domain, T!Addr, TP!Addr
  <1>3. nextId \in Nat
    BY DEF TreeInv, TP!OneChain, TP!Anchored, TP!TypeOK
  <1> QED BY <1>1, <1>2, <1>3, TreeAssumption DEF TreeInv, Numbered, DomainFits

\* DESCEND makes the domain of DCB b the running one.
LEMMA DescendArrives ==
  ASSUME TreeInv, NEW b \in Block, T!DescendReturn(b) \/ T!DescendFirst(b)
  PROVE  heap'[current'].addr = b
PROOF
  <1>1. CASE T!DescendReturn(b)
    BY <1>1 DEF T!DescendReturn, TreeInv, TP!OneChain, TP!Anchored, TP!RegistryAnchored, TP!Addr
  <1>2. CASE T!DescendFirst(b)
    <2>1. nObj \in 0 .. nObj
      BY DEF TreeInv, TP!OneChain, TP!Anchored, TP!TypeOK
    <2>2. /\ current' = nObj
          /\ heap' = [o \in 0 .. nObj |->
                        IF o = nObj THEN T!ReadBlock(b, nextId)
                        ELSE IF o = current THEN [heap[o] EXCEPT !.child = b]
                        ELSE heap[o]]
      BY <1>2 DEF T!DescendFirst, T!Grow
    <2> QED BY <2>1, <2>2 DEF T!ReadBlock
  <1> QED BY <1>1, <1>2

-----------------------------------------------------------------------------
\* The core's own state, and the frames in the DCBs.
Cpu ==
  [pc : Location, flag : BOOLEAN, blockAddr : T!Addr, inIrq : BOOLEAN,
   prio : {PRIORITY_NORMAL, PRIORITY_IRQ, PRIORITY_ASCEND}, halted : BOOLEAN,
   chain : Seq(T!Addr)]

Frame ==
  [T!Addr -> [resume : Location, irqPc : Location \cup {None}, irqFlag : BOOLEAN]]

\* The core executes the code of the domain whose DCB it names, unless an
\* ASCEND found no trap handler to go to.
OwnCode(c) == ~c.halted \/ c.prio # PRIORITY_ASCEND => c.pc[1] = c.blockAddr

\* Every DCB, occupied or not, would resume its own ordinary code.
ResumesCode(f) == \A a \in T!Addr : f[a].resume = Code(a)

\* HandlerReturns, of a core c and frames f.
Returns(c, f) ==
  IF c.inIrq
  THEN /\ c.pc = HandlerCode(c.blockAddr) /\ c.flag
       /\ c.prio = PRIORITY_IRQ
       /\ f[c.blockAddr].irqPc = Code(c.blockAddr)
       /\ ~f[c.blockAddr].irqFlag
  ELSE c.pc[2] = "code" /\ ~c.flag /\ c.prio # PRIORITY_IRQ

CoreOK(c, f) ==
  c \in Cpu /\ f \in Frame /\ OwnCode(c) /\ ResumesCode(f) /\ Returns(c, f)

\* The constants fit what the controller's proofs assume.
LEMMA ControllerFits == NoInstance \notin IP!InstanceRecord /\ IP!IsFiniteSet(Irq)
PROOF
  BY AbsentAssumption, ControllerAssumption
     DEF I!InstanceRecord, IP!InstanceRecord, IsFiniteSet, IP!IsFiniteSet

\* _check_interrupt after any instruction: it takes an interrupt only for
\* ordinary code of the domain whose DCB the core names.
LEMMA FinishKeeps ==
  ASSUME NEW c, NEW f, NEW k, NEW d \in 0 .. MaxDomains,
         CoreOK(c, f), IP!Sound(k), Finish(c, f, k, d)
  PROVE  CoreOK(cpu', frame') /\ IP!Sound(ic') /\ cpu'.blockAddr = c.blockAddr
PROOF
  <1>1. CASE ~c.inIrq /\ c.prio < PRIORITY_IRQ /\ Ready(k, d) /\ Taken(c, f, k, d)
    <2> DEFINE h == I!FirstReady(k, d)
               a == c.blockAddr
    <2>1. IP!Exists(k, h)
      <3>1. h # IP!NoInstanceHandle /\ h = IP!FirstReady(k, d)
        BY <1>1, SameController DEF Ready, I!NoInstanceHandle, IP!NoInstanceHandle
      <3> QED BY <3>1, IP!FirstReadyExists, ControllerAssumption, ControllerFits, TreeAssumption
    <2>2. IP!Sound(ic')
      <3>1. ic' = IP!Cleared(k, h, I!NextIrq(k, h))
        BY <1>1, SameController DEF Taken
      <3> HIDE DEF h
      <3> QED BY <2>1, <3>1, IP!ClearedSound, ControllerAssumption, ControllerFits, TreeAssumption
    <2>3. /\ c \in Cpu /\ f \in Frame /\ a \in T!Addr /\ a = c.blockAddr
          /\ c.pc \in Location /\ c.pc[2] = "code" /\ ~c.flag /\ c.prio # PRIORITY_ASCEND
      BY <1>1 DEF CoreOK, Cpu, Returns, PRIORITY_IRQ, PRIORITY_ASCEND
    <2>4. c.pc = Code(a)
      BY <2>3 DEF CoreOK, OwnCode, Location, Code
    <2>5. /\ frame' = [f EXCEPT ![a].irqPc = c.pc, ![a].irqFlag = c.flag]
          /\ cpu' = [c EXCEPT !.prio = PRIORITY_IRQ, !.flag = TRUE, !.inIrq = TRUE,
                              !.pc = HandlerCode(a)]
      BY <1>1 DEF Taken
    <2> HIDE DEF a
    <2>6. /\ frame' \in Frame
          /\ frame'[a].irqPc = c.pc /\ frame'[a].irqFlag = c.flag
          /\ \A x \in T!Addr : frame'[x].resume = f[x].resume
      <3>1. c.flag \in BOOLEAN
        BY <2>3 DEF Cpu
      <3> QED BY <2>3, <2>5, <3>1 DEF Frame
    <2>7. /\ cpu' \in Cpu /\ cpu'.blockAddr = a /\ cpu'.inIrq /\ cpu'.flag
          /\ cpu'.pc = HandlerCode(a) /\ cpu'.prio = PRIORITY_IRQ
      <3>1. HandlerCode(a) \in Location
        BY <2>3 DEF HandlerCode, Location
      <3> QED BY <2>3, <2>5, <3>1 DEF Cpu
    <2>8. OwnCode(cpu') /\ ResumesCode(frame') /\ Returns(cpu', frame')
      BY <2>3, <2>4, <2>6, <2>7
         DEF OwnCode, ResumesCode, Returns, HandlerCode, CoreOK
    <2> QED BY <2>2, <2>6, <2>7, <2>8 DEF CoreOK, a
  <1>2. CASE cpu' = c /\ frame' = f /\ ic' = k
    BY <1>2
  <1> QED BY <1>1, <1>2 DEF Finish

-----------------------------------------------------------------------------
\* What every instruction keeps, whichever domain the core takes to be the
\* running one.
Steady ==
  /\ TreeInv
  /\ CoreOK(cpu, frame)
  /\ IP!Sound(ic)

\* The core names the DCB of the domain RPALogic calls current.
Aligned == cpu.blockAddr = heap[current].addr

\* The inductive invariant of the core alone.  Under a host only Steady is one.
CoreInv == Steady /\ Aligned

\* It holds when the machine is built.
LEMMA InitCore == CoreInit => CoreInv
PROOF
  <1> SUFFICES ASSUME CoreInit PROVE CoreInv
    OBVIOUS
  <1>1. TreeInv
    BY InitTree DEF CoreInit
  <1>2. IP!Sound(ic)
    BY SameController, IP!InitSound, TreeAssumption, ControllerAssumption, ControllerFits
       DEF CoreInit, I!IrqInit
  <1>3. Zero \in T!Addr /\ heap[current].addr = Zero
    BY DEF CoreInit, T!Init, T!Root, T!Addr
  <1>4. \A a \in T!Addr : Code(a) \in Location
    BY DEF Code, Location
  <1>5. cpu \in Cpu
    <2>1. <<Zero>> \in Seq(T!Addr) /\ <<>> \in Seq(T!Addr)
      BY <1>3
    <2> QED BY <1>3, <1>4, <2>1 DEF CoreInit, Cpu
  <1>6. frame \in Frame
    BY <1>4 DEF CoreInit, Frame
  <1>7. OwnCode(cpu) /\ ResumesCode(frame) /\ Returns(cpu, frame)
    BY DEF CoreInit, OwnCode, ResumesCode, Returns, Code, PRIORITY_NORMAL, PRIORITY_IRQ
  <1>8. cpu.blockAddr = heap[current].addr
    BY <1>3 DEF CoreInit
  <1> QED BY <1>1, <1>2, <1>5, <1>6, <1>7, <1>8 DEF CoreInv, Steady, Aligned, CoreOK

\* What every step does to the tree.
LEMMA CoreTakesTreeStep == [CoreNext]_coreVars => TreeStep
PROOF
  <1> SUFFICES ASSUME [CoreNext]_coreVars PROVE TreeStep
    OBVIOUS
  <1> USE DEF TreeStep
  <1>1. ASSUME NEW b \in Block, NEW v \in T!Word, PrepareBlock(b, v) PROVE TreeStep
    BY <1>1 DEF PrepareBlock
  <1>2. ASSUME NEW b \in Block, Descend(b) PROVE TreeStep
    BY <1>2 DEF Descend
  <1>3. CASE AscendOrExit
    BY <1>3 DEF AscendOrExit
  <1>4. CASE AscendAtRoot
    BY <1>4 DEF AscendAtRoot, T!AscendAtRoot, T!vars, treeVars
  <1>5. CASE UNCHANGED treeVars
    BY <1>5
  <1>6. CASE Plain \/ Halt \/ NoInstruction \/ InterruptReturn \/ SysopIrq \/ Device
    BY <1>5, <1>6 DEF Plain, Halt, NoInstruction, InterruptReturn, SysopIrq, Device
  <1>7. ASSUME NEW done \in BOOLEAN, Access(done) PROVE TreeStep
    BY <1>5, <1>7 DEF Access
  <1>8. CASE UNCHANGED coreVars
    BY <1>5, <1>8 DEF coreVars
  <1> QED BY <1>1, <1>2, <1>3, <1>4, <1>6, <1>7, <1>8 DEF CoreNext

\* The instructions of the interrupt sysop, whatever they do to an instance,
\* leave the controller sound.
LEMMA SysopSound ==
  ASSUME Steady, SysopIrq
  PROVE  \E k : IP!Sound(k) /\ Finish(cpu, frame, k, Id)
PROOF
  <1> USE TreeAssumption, ControllerAssumption, ControllerFits, SameController
  <1>1. Id \in 0 .. MaxDomains
    BY RunningDomain DEF Steady, DomainFits, Id
  <1>2. IP!Sound(ic)
    BY DEF Steady
  <1>3. ASSUME ic.next <= MaxInstance, NEW rights \in Grant,
               Finish(cpu, frame, I!Requested(ic, Id, rights, I!NoInstanceHandle), Id)
        PROVE  \E k : IP!Sound(k) /\ Finish(cpu, frame, k, Id)
    <2>1. ic.next \in 1 .. MaxInstance + 1
      BY <1>2 DEF IP!Sound, IP!Controller
    <2>2. 0 \in 0 .. MaxInstance /\ 0 < ic.next /\ I!NoInstanceHandle = 0
      BY <2>1 DEF I!NoInstanceHandle
    <2>3. IP!Sound(IP!Requested(ic, Id, rights, 0))
      BY <1>1, <1>2, <1>3, <2>2, IP!RequestedSound
    <2> QED BY <1>3, <2>2, <2>3
  <1>4. ASSUME NEW h \in I!Instance, Mine(h), Finish(cpu, frame, I!Released(ic, h), Id)
        PROVE  \E k : IP!Sound(k) /\ Finish(cpu, frame, k, Id)
    <2>1. IP!Exists(ic, h)
      BY <1>4 DEF Mine
    <2>2. IP!Sound(IP!Released(ic, h))
      BY <1>2, <2>1, IP!ReleasedSound
    <2> QED BY <1>4, <2>2
  <1>5. ASSUME NEW h \in I!Instance, NEW on \in BOOLEAN, Mine(h),
               Finish(cpu, frame, I!Switched(ic, h, on), Id)
        PROVE  \E k : IP!Sound(k) /\ Finish(cpu, frame, k, Id)
    <2>1. IP!Exists(ic, h)
      BY <1>5 DEF Mine
    <2>2. IP!Sound(IP!Switched(ic, h, on))
      BY <1>2, <2>1, IP!SwitchedSound
    <2> QED BY <1>5, <2>2
  <1>6. ASSUME NEW h \in I!Instance, NEW v \in Handler \cup {0}, Mine(h),
               Finish(cpu, frame, I!Vectored(ic, h, v), Id)
        PROVE  \E k : IP!Sound(k) /\ Finish(cpu, frame, k, Id)
    <2>1. IP!Exists(ic, h)
      BY <1>6 DEF Mine
    <2>2. IP!Sound(IP!Vectored(ic, h, v))
      BY <1>2, <2>1, IP!VectoredSound
    <2> QED BY <1>6, <2>2
  <1>7. ASSUME NEW h \in I!Instance, NEW i \in Irq, Mine(h),
               Finish(cpu, frame, I!Cleared(ic, h, i), Id)
        PROVE  \E k : IP!Sound(k) /\ Finish(cpu, frame, k, Id)
    <2>1. IP!Exists(ic, h)
      BY <1>7 DEF Mine
    <2>2. IP!Sound(IP!Cleared(ic, h, i))
      BY <1>2, <2>1, IP!ClearedSound
    <2> QED BY <1>7, <2>2
  <1>8. ASSUME NEW h \in I!Instance, NEW i \in Irq, I!Exists(ic, h),
               Finish(cpu, frame, I!Triggered(ic, h, i), Id)
        PROVE  \E k : IP!Sound(k) /\ Finish(cpu, frame, k, Id)
    <2>1. IP!Sound(IP!Triggered(ic, h, i))
      BY <1>2, <1>8, IP!TriggeredSound
    <2> QED BY <1>8, <2>1
  <1> QED BY <1>3, <1>4, <1>5, <1>6, <1>7, <1>8 DEF SysopIrq

\* An instruction that has left the core, the frames and the controller in
\* order, for the domain that is current after it, is followed by the poll.
LEMMA PollKeeps ==
  ASSUME Steady, TreeStep, NEW c, NEW f, NEW k, CoreOK(c, f), IP!Sound(k),
         Finish(c, f, k, heap'[current'].id)
  PROVE  Steady' /\ cpu'.blockAddr = c.blockAddr
PROOF
  <1>1. TreeInv'
    BY TreeStepKeeps DEF Steady
  <1>2. heap'[current'].id \in 0 .. MaxDomains
    <2>1. DomainFits'
      BY <1>1, RunningDomain, PTL
    <2> QED BY <2>1 DEF DomainFits
  <1>3. CoreOK(cpu', frame') /\ IP!Sound(ic') /\ cpu'.blockAddr = c.blockAddr
    BY <1>2, FinishKeeps
  <1> QED BY <1>1, <1>3 DEF Steady

\* Ordinary code runs with no interrupt under way.
LEMMA OrdinaryCode ==
  ASSUME Steady, MayTransfer
  PROVE  /\ cpu.pc = Code(cpu.blockAddr) /\ cpu.blockAddr \in T!Addr
         /\ ~cpu.inIrq /\ ~cpu.flag /\ cpu.prio # PRIORITY_IRQ
PROOF
  <1>1. cpu \in Cpu /\ cpu.pc \in Location /\ cpu.blockAddr \in T!Addr
    BY DEF Steady, CoreOK, Cpu
  <1>2. cpu.pc = Code(cpu.blockAddr)
    BY <1>1 DEF Steady, CoreOK, OwnCode, MayTransfer, Running, Location, Code
  <1> QED BY <1>1, <1>2 DEF Steady, CoreOK, Returns, Code, HandlerCode

\* complete_ascend saves a context that resumes ordinary code.
LEMMA SuspendedOK ==
  ASSUME Steady, MayTransfer
  PROVE  Suspended \in Frame /\ ResumesCode(Suspended)
PROOF
  <1> USE OrdinaryCode
  <1>1. frame \in Frame /\ ResumesCode(frame) /\ Code(cpu.blockAddr) \in Location
    BY DEF Steady, CoreOK, Code, Location
  <1>2. Suspended = [frame EXCEPT ![cpu.blockAddr].resume = Code(cpu.blockAddr)]
    BY DEF Suspended
  <1>3. Suspended \in Frame
    BY <1>1, <1>2 DEF Frame
  <1>4. ResumesCode(Suspended)
    BY <1>1, <1>2 DEF ResumesCode, Frame
  <1> QED BY <1>3, <1>4

\* A transfer of control by the core itself, wherever the core was before it,
\* leaves it with the domain that is current then.
LEMMA DescendAligns ==
  ASSUME Steady, NEW b \in Block, Descend(b)
  PROVE  Steady' /\ Aligned'
PROOF
  <1>1. TreeStep
    BY DEF TreeStep, Descend
  <1>2. TreeInv'
    BY <1>1, TreeStepKeeps DEF Steady
  <1>3. CoreOK(cpu, frame) /\ IP!Sound(ic) /\ cpu \in Cpu /\ frame \in Frame
    BY DEF Steady, CoreOK
  <1> DEFINE chain == IF b \in Paged THEN <<b>> \o cpu.chain ELSE cpu.chain
             c == [cpu EXCEPT !.pc = frame[b].resume, !.flag = FALSE, !.blockAddr = b,
                              !.chain = chain]
  <1>4. /\ MayTransfer /\ (T!DescendReturn(b) \/ T!DescendFirst(b))
        /\ Finish(c, frame, ic, heap'[current'].id)
    BY DEF Descend
  <1>5. heap'[current'].addr = b
    BY <1>4, DescendArrives DEF Steady
  <1>6. b \in T!Addr /\ frame[b].resume = Code(b) /\ Code(b) \in Location
    BY <1>3 DEF CoreOK, ResumesCode, T!Addr, Code, Location
  <1>7. chain \in Seq(T!Addr)
    <2>1. <<b>> \in Seq(T!Addr) /\ cpu.chain \in Seq(T!Addr)
      BY <1>3, <1>6 DEF Cpu
    <2> QED BY <2>1
  <1> HIDE DEF chain
  <1>8. /\ c \in Cpu /\ c.pc = Code(b) /\ c.blockAddr = b /\ c.flag = FALSE
        /\ c.inIrq = cpu.inIrq /\ c.prio = cpu.prio
    BY <1>3, <1>6, <1>7 DEF Cpu
  <1> HIDE DEF c
  <1>9. ~cpu.inIrq /\ cpu.prio # PRIORITY_IRQ
    BY <1>4, OrdinaryCode
  <1>10. CoreOK(c, frame)
    BY <1>3, <1>8, <1>9 DEF CoreOK, OwnCode, Returns, Code
  <1> QED BY <1>1, <1>3, <1>4, <1>5, <1>8, <1>10, PollKeeps DEF Aligned

LEMMA AscendAligns ==
  ASSUME Steady, AscendOrExit
  PROVE  Steady' /\ Aligned'
PROOF
  <1>1. TreeStep
    BY DEF TreeStep, AscendOrExit
  <1>2. TreeInv'
    BY <1>1, TreeStepKeeps DEF Steady
  <1>3. CoreOK(cpu, frame) /\ IP!Sound(ic) /\ cpu \in Cpu /\ frame \in Frame
    BY DEF Steady, CoreOK
  <1>4. MayTransfer /\ Finish(Ascended, Suspended, ic, heap'[current'].id)
    BY DEF AscendOrExit
  <1>5. DomainFits'
    BY <1>2, RunningDomain, PTL
  <1> DEFINE a == heap'[current'].addr
             tail == IF cpu.chain = <<>> THEN cpu.chain ELSE Tail(cpu.chain)
             c == [cpu EXCEPT !.prio = PRIORITY_ASCEND, !.blockAddr = a, !.chain = tail]
  <1>6. a \in T!Addr /\ Code(a) \in Location
    BY <1>5 DEF DomainFits, Code, Location
  <1>7. tail \in Seq(T!Addr)
    BY <1>3 DEF Cpu
  <1>8. Ascended = [c EXCEPT !.halted = TRUE] \/ Ascended = [c EXCEPT !.pc = Code(a)]
    BY DEF Ascended
  <1>9. ~cpu.inIrq /\ ~cpu.flag /\ cpu.pc = Code(cpu.blockAddr) /\ Running
    BY <1>4, OrdinaryCode DEF MayTransfer
  <1> HIDE DEF a, tail
  <1>10. /\ Ascended \in Cpu /\ Ascended.blockAddr = a /\ Ascended.prio = PRIORITY_ASCEND
         /\ Ascended.inIrq = cpu.inIrq /\ Ascended.flag = cpu.flag
         /\ \/ Ascended.halted /\ Ascended.pc = cpu.pc
            \/ Ascended.pc = Code(a)
    BY <1>3, <1>6, <1>7, <1>8 DEF Cpu
  <1>11. OwnCode(Ascended) /\ Returns(Ascended, Suspended)
    BY <1>9, <1>10 DEF OwnCode, Returns, Code, PRIORITY_IRQ, PRIORITY_ASCEND
  <1>12. CoreOK(Ascended, Suspended)
    BY <1>4, <1>10, <1>11, SuspendedOK DEF CoreOK
  <1> QED BY <1>1, <1>3, <1>4, <1>10, <1>12, PollKeeps DEF Aligned, a

\* The stores that lay out a DCB.
LEMMA LoadKeeps ==
  ASSUME Steady, NEW b \in Block, cpu' = cpu,
         frame' = [frame EXCEPT ![b].resume = Code(b)]
  PROVE  CoreOK(cpu', frame')
PROOF
  <1>1. CoreOK(cpu, frame) /\ cpu \in Cpu /\ frame \in Frame
    BY DEF Steady, CoreOK
  <1>2. b \in T!Addr /\ Code(b) \in Location
    BY DEF T!Addr, Code, Location
  <1>3. /\ frame' \in Frame
        /\ \A a \in T!Addr : /\ frame'[a].irqPc = frame[a].irqPc
                             /\ frame'[a].irqFlag = frame[a].irqFlag
    BY <1>1, <1>2 DEF Frame
  <1>4. ResumesCode(frame')
    BY <1>1, <1>2 DEF CoreOK, ResumesCode, Frame
  <1>5. cpu.blockAddr \in T!Addr
    BY <1>1 DEF Cpu
  <1> QED BY <1>1, <1>3, <1>4, <1>5 DEF CoreOK, Returns

\* Every step keeps the invariant: one case per instruction.
LEMMA StepKeeps ==
  Steady /\ [CoreNext]_coreVars => Steady' /\ (Aligned => Aligned')
PROOF
  <1> SUFFICES ASSUME Steady, [CoreNext]_coreVars PROVE Steady' /\ (Aligned => Aligned')
    OBVIOUS
  <1> DEFINE Goal == Steady' /\ (Aligned => Aligned')
  <1>1. TreeStep
    BY CoreTakesTreeStep
  <1>2. TreeInv'
    BY <1>1, TreeStepKeeps DEF Steady
  <1>3. CoreOK(cpu, frame) /\ IP!Sound(ic) /\ cpu \in Cpu /\ frame \in Frame
    BY DEF Steady, CoreOK
  \* An instruction that may halt the core, and no more.
  <1>4. ASSUME UNCHANGED treeVars, Running, NEW stop \in BOOLEAN, NEW k, IP!Sound(k),
               Finish([cpu EXCEPT !.halted = stop], frame, k, Id)
        PROVE  Goal
    <2> DEFINE c == [cpu EXCEPT !.halted = stop]
    <2>1. /\ c \in Cpu /\ c.pc = cpu.pc /\ c.blockAddr = cpu.blockAddr /\ c.prio = cpu.prio
          /\ c.inIrq = cpu.inIrq /\ c.flag = cpu.flag
      BY <1>3 DEF Cpu
    <2>2. Finish(c, frame, k, Id)
      BY <1>4
    <2> HIDE DEF c
    <2>3. CoreOK(c, frame)
      BY <1>3, <1>4, <2>1 DEF CoreOK, OwnCode, Returns, Running
    <2>4. heap'[current'].id = Id /\ heap'[current'].addr = heap[current].addr
      BY <1>4 DEF treeVars, Id
    <2> QED BY <1>1, <1>4, <2>1, <2>2, <2>3, <2>4, PollKeeps DEF Aligned
  <1>5. Running => cpu = [cpu EXCEPT !.halted = FALSE]
    BY <1>3 DEF Running, Cpu
  <1>6. CASE Plain
    BY <1>3, <1>4, <1>5, <1>6 DEF Plain
  <1>7. CASE Halt
    BY <1>3, <1>4, <1>7 DEF Halt
  <1>8. CASE NoInstruction
    <2>1. /\ cpu' = [cpu EXCEPT !.halted = TRUE] /\ frame' = frame /\ ic' = ic
          /\ heap' = heap /\ current' = current /\ ~cpu.halted
      BY <1>8 DEF NoInstruction, treeVars, Running
    <2>2. /\ cpu' \in Cpu /\ cpu'.pc = cpu.pc /\ cpu'.blockAddr = cpu.blockAddr
          /\ cpu'.prio = cpu.prio /\ cpu'.inIrq = cpu.inIrq /\ cpu'.flag = cpu.flag
      BY <1>3, <2>1 DEF Cpu
    <2>3. CoreOK(cpu', frame')
      BY <1>3, <2>1, <2>2 DEF CoreOK, OwnCode, Returns
    <2> QED BY <1>2, <1>3, <2>1, <2>2, <2>3 DEF Steady, Aligned
  <1>9. ASSUME NEW done \in BOOLEAN, Access(done) PROVE Goal
    BY <1>3, <1>4, <1>9 DEF Access
  <1>10. ASSUME NEW b \in Block, NEW v \in T!Word, PrepareBlock(b, v) PROVE Goal
    <2>1. /\ frame' = [frame EXCEPT ![b].resume = Code(b)] /\ cpu' = cpu /\ ic' = ic
          /\ heap' = heap /\ current' = current
      BY <1>10 DEF PrepareBlock, T!PrepareBlock
    <2> QED BY <1>2, <1>3, <2>1, LoadKeeps DEF Steady, Aligned
  <1>11. CASE (\E b \in Block : Descend(b)) \/ AscendOrExit
    BY <1>11, DescendAligns, AscendAligns
  <1>12. CASE AscendAtRoot
    <2>1. /\ MayTransfer /\ cpu' = [cpu EXCEPT !.prio = PRIORITY_ASCEND]
          /\ frame' = Suspended /\ ic' = ic /\ heap' = heap /\ current' = current
      BY <1>12 DEF AscendAtRoot, T!AscendAtRoot, T!vars
    <2>2. /\ cpu' \in Cpu /\ cpu'.pc = cpu.pc /\ cpu'.blockAddr = cpu.blockAddr
          /\ cpu'.prio = PRIORITY_ASCEND /\ cpu'.inIrq = cpu.inIrq /\ cpu'.flag = cpu.flag
      BY <1>3, <2>1 DEF Cpu
    <2>3. ~cpu.inIrq /\ ~cpu.flag /\ cpu.pc = Code(cpu.blockAddr)
      BY <2>1, OrdinaryCode
    <2>4. OwnCode(cpu') /\ Returns(cpu', frame')
      BY <2>2, <2>3 DEF OwnCode, Returns, Code, PRIORITY_IRQ, PRIORITY_ASCEND
    <2>5. CoreOK(cpu', frame')
      BY <2>1, <2>2, <2>4, SuspendedOK DEF CoreOK
    <2> QED BY <1>2, <1>3, <2>1, <2>2, <2>5 DEF Steady, Aligned
  <1>13. CASE InterruptReturn
    <2> DEFINE saved == frame[cpu.blockAddr]
               c == [cpu EXCEPT !.pc = saved.irqPc, !.flag = saved.irqFlag,
                                !.inIrq = FALSE, !.prio = PRIORITY_NORMAL]
    <2>1. cpu.inIrq /\ Finish(c, frame, ic, Id) /\ UNCHANGED treeVars
      BY <1>13 DEF InterruptReturn
    <2>2. cpu.blockAddr \in T!Addr
      BY <1>3 DEF Cpu
    <2>3. saved.irqPc = Code(cpu.blockAddr) /\ saved.irqFlag = FALSE
      BY <1>3, <2>1, <2>2 DEF CoreOK, Returns, Frame
    <2>4. Code(cpu.blockAddr) \in Location
      BY <2>2 DEF Code, Location
    <2> HIDE DEF saved
    <2>5. /\ c \in Cpu /\ c.pc = Code(cpu.blockAddr) /\ c.blockAddr = cpu.blockAddr
          /\ ~c.flag /\ ~c.inIrq /\ c.prio = PRIORITY_NORMAL
      BY <1>3, <2>3, <2>4 DEF Cpu
    <2> HIDE DEF c
    <2>6. CoreOK(c, frame)
      BY <1>3, <2>5 DEF CoreOK, OwnCode, Returns, Code, PRIORITY_NORMAL, PRIORITY_IRQ
    <2>7. heap'[current'].id = Id /\ heap'[current'].addr = heap[current].addr
      BY <2>1 DEF treeVars, Id
    <2> QED BY <1>1, <1>3, <2>1, <2>5, <2>6, <2>7, PollKeeps DEF Aligned
  <1>14. CASE SysopIrq
    <2>1. PICK k : IP!Sound(k) /\ Finish(cpu, frame, k, Id)
      BY <1>14, SysopSound
    <2>2. Running /\ UNCHANGED treeVars
      BY <1>14 DEF SysopIrq
    <2> QED BY <1>4, <1>5, <2>1, <2>2
  <1>15. CASE Device
    <2>1. UNCHANGED <<treeVars, cpu, frame>>
      BY <1>15 DEF Device
    <2>2. IP!Sound(ic')
      <3>1. PICK h \in I!Instance, i \in Irq : IP!Exists(ic, h) /\ ic' = IP!Triggered(ic, h, i)
        BY <1>15, SameController DEF Device, I!TriggerIrq
      <3> QED BY <1>3, <3>1, IP!TriggeredSound, TreeAssumption, ControllerAssumption,
                 ControllerFits
    <2> QED BY <1>2, <1>3, <2>1, <2>2 DEF Steady, Aligned, treeVars
  <1>16. CASE UNCHANGED coreVars
    BY <1>2, <1>3, <1>16 DEF Steady, Aligned, coreVars, treeVars
  <1> QED BY <1>6, <1>7, <1>8, <1>9, <1>10, <1>11, <1>12, <1>13, <1>14, <1>15, <1>16
          DEF CoreNext

\* It holds always.
LEMMA CoreInvAlways == CoreSpec => []CoreInv
PROOF
  BY InitCore, StepKeeps, PTL DEF CoreSpec, CoreInv

-----------------------------------------------------------------------------
\* What Steady means for the properties.
LEMMA SteadyTyped == Steady => CoreTypeOK
PROOF
  <1> SUFFICES ASSUME Steady PROVE CoreTypeOK
    OBVIOUS
  <1>1. T!TypeOK
    BY DEF Steady, TreeInv, TP!OneChain, TP!Anchored, T!TypeOK, TP!TypeOK,
           T!Root, TP!Root, T!Object, TP!Object, T!Addr, TP!Addr, T!Word, TP!Word,
           T!Domain, TP!Domain, T!Dcb, TP!Dcb
  <1>2. I!IrqTypeOK
    BY DEF Steady, IP!Sound, IP!Controller, I!IrqTypeOK, I!Instance, IP!Instance,
           I!InstanceRecord, IP!InstanceRecord
  <1>3. cpu \in Cpu /\ frame \in Frame
    BY DEF Steady, CoreOK
  <1> QED BY <1>1, <1>2, <1>3 DEF CoreTypeOK, Cpu, Frame

LEMMA SteadyResumes == Steady => ResumesOwnCode
PROOF
  <1> SUFFICES ASSUME Steady, NEW o \in T!Object
               PROVE  frame[heap[o].addr].resume = Code(heap[o].addr)
    BY DEF ResumesOwnCode
  <1>1. heap[o].addr \in T!Addr
    BY DEF Steady, TreeInv, TP!OneChain, TP!Anchored, TP!TypeOK, TP!Domain,
           T!Object, TP!Object, T!Addr, TP!Addr
  <1> QED BY <1>1 DEF Steady, CoreOK, ResumesCode

LEMMA SteadyReturns == Steady => HandlerReturns
PROOF
  BY DEF Steady, CoreOK, Returns, HandlerReturns

\* What the controller promises by itself (Interrupts) it promises the core.
LEMMA SteadyController == Steady => I!NoneHidden /\ I!ListsExact /\ I!ChildLinkSound
PROOF
  <1> SUFFICES ASSUME Steady PROVE I!NoneHidden /\ I!ListsExact /\ I!ChildLinkSound
    OBVIOUS
  <1> USE DEF I!Instance, IP!Instance, I!Exists, IP!Exists, I!NoInstanceHandle, IP!NoInstanceHandle
  <1>1. I!NoneHidden
    BY DEF Steady, IP!Sound, IP!Unhidden, I!NoneHidden
  <1>2. I!ListsExact
    BY DEF Steady, IP!Sound, IP!Listed, IP!Ascending, I!ListsExact,
           I!ToSet, IP!ToSet
  <1>3. I!ChildLinkSound
    BY DEF Steady, IP!Sound, IP!Linked, I!ChildLinkSound
  <1> QED BY <1>1, <1>2, <1>3

\* Whatever instructions, interrupts and devices do, every part of the core,
\* of the saved frames, of the tree and of the controller keeps its shape
\* (isa_simple.py:60-153, 1199-1298).
THEOREM CoreTypeCorrect == CoreSpec => []CoreTypeOK
PROOF
  BY CoreInvAlways, SteadyTyped, PTL DEF CoreInv

\* The core never executes or saves on behalf of a domain other than the one
\* RPALogic calls current (isa_simple.py:683-830, rpa_logic.py:532-739).
THEOREM CoreStaysInStep == CoreSpec => []CoreInStep
PROOF
  <1>1. CoreInv => CoreInStep
    BY DEF CoreInv, Steady, Aligned, CoreOK, OwnCode, CoreInStep, Running
  <1> QED BY <1>1, CoreInvAlways, PTL

\* Every suspended domain will go on in its own ordinary code.
THEOREM SuspendedResumeOwnCode == CoreSpec => []ResumesOwnCode
PROOF
  BY CoreInvAlways, SteadyResumes, PTL DEF CoreInv

\* A handler runs alone, at IRQ priority, and its BX LR leads back to the code
\* it interrupted.
THEOREM HandlersReturn == CoreSpec => []HandlerReturns
PROOF
  BY CoreInvAlways, SteadyReturns, PTL DEF CoreInv

\* The tree's own promise, whoever drives it by steps of the tree.
LEMMA TreeStepsImplementChain ==
  T!Init /\ [][TreeStep]_treeVars => T!ImplementsChain
PROOF
  <1>1. [TreeStep]_treeVars => [TP!Next]_(TP!vars)
    BY TreeStepIsNext DEF TreeStep
  <1>2. T!Init => TP!Init
    BY SameTree
  <1>3. T!Init /\ [][TreeStep]_treeVars => TP!Spec
    BY <1>1, <1>2, PTL DEF TP!Spec
  <1>4. TP!Spec => TP!ImplementsChain
    <2>1. TP!Disciplined
      BY DEF TP!Disciplined, Conventions
    <2> QED BY <2>1, TP!TreeImplementsChain, TreeAssumption DEF Conventions
  <1>5. TP!ImplementsChain => T!ImplementsChain
    BY PTL DEF T!ImplementsChain, TP!ImplementsChain, T!Addr, TP!Addr,
       T!Chain!ChainSpec, TP!Chain!ChainSpec, T!Chain!ChainInit, TP!Chain!ChainInit,
       T!Chain!ChainNext, TP!Chain!ChainNext, T!Chain!chainVars, TP!Chain!chainVars,
       T!Chain!Enter, TP!Chain!Enter, T!Chain!Resume, TP!Chain!Resume,
       T!Chain!Leave, TP!Chain!Leave, T!Chain!Release, TP!Chain!Release,
       T!Chain!IsLeaf, TP!Chain!IsLeaf
  <1> QED BY <1>3, <1>4, <1>5, PTL

\* Driven by the core, the tree keeps the promise of DomainChain: one chain of
\* domains, and control moves along it one link at a time.
THEOREM CoreImplementsChain == CoreSpec => T!ImplementsChain
PROOF
  <1>1. [CoreNext]_coreVars => [TreeStep]_treeVars
    BY CoreTakesTreeStep
  <1>2. CoreInit => T!Init
    BY DEF CoreInit
  <1> QED BY <1>1, <1>2, TreeStepsImplementChain, PTL DEF CoreSpec

-----------------------------------------------------------------------------
(* The chain of page tables.                                               *)

\* What a domain with or without a page table adds to the path.
OwnTable(a) == IF a \in Paged THEN <<a>> ELSE <<>>

\* The rule of PagedPath, for the domains made so far, up to the n-th.
PathRule(n, g) ==
  g = [o \in 0 .. n - 1 |->
         IF heap[o].parent = None THEN OwnTable(heap[o].addr)
         ELSE OwnTable(heap[o].addr) \o g[heap[o].parent]]

\* An older object above every object but the root, and addresses everywhere.
InOrder ==
  /\ nObj \in Nat /\ T!Object = 0 .. nObj - 1 /\ current \in T!Object
  /\ \A o \in 0 .. nObj - 1 :
       /\ heap[o].addr \in T!Addr
       /\ heap[o].parent # None => heap[o].parent \in 0 .. o - 1

LEMMA ParentsAreOlder == TreeInv => InOrder
PROOF
  <1> SUFFICES ASSUME TreeInv PROVE InOrder
    OBVIOUS
  <1>1. nObj \in Nat /\ T!Object = 0 .. nObj - 1 /\ TP!Object = T!Object
    BY DEF TreeInv, TP!OneChain, TP!Anchored, TP!TypeOK, T!Object, TP!Object
  <1>2. current \in T!Object /\ \A o \in T!Object : heap[o].addr \in T!Addr
    BY <1>1 DEF TreeInv, TP!OneChain, TP!Anchored, TP!TypeOK, TP!Domain, T!Addr, TP!Addr
  <1>3. \A o \in T!Object : heap[o].parent # None => heap[o].parent \in 0 .. o - 1
    BY <1>1 DEF TreeInv, TP!OneChain, TP!Anchored, TP!RegistryAnchored
  <1> QED BY <1>1, <1>2, <1>3 DEF InOrder

\* One more domain: its parent's path is already known.
LEMMA OneMorePath ==
  ASSUME TreeInv, NEW n \in Nat, n < nObj,
         NEW g, PathRule(n, g), \A o \in 0 .. n - 1 : g[o] \in Seq(T!Addr)
  PROVE  \E f : PathRule(n + 1, f) /\ \A o \in 0 .. (n + 1) - 1 : f[o] \in Seq(T!Addr)
PROOF
  <1> DEFINE d == IF heap[n].parent = None THEN OwnTable(heap[n].addr)
                  ELSE OwnTable(heap[n].addr) \o g[heap[n].parent]
             f == [o \in 0 .. n |-> IF o = n THEN d ELSE g[o]]
  <1>1. \A o \in 0 .. n : o \in 0 .. nObj - 1 /\ (o = n \/ o \in 0 .. n - 1)
    BY ParentsAreOlder DEF InOrder
  <1>2. \A o \in 0 .. n : heap[o].parent # None =>
          heap[o].parent \in 0 .. n - 1 /\ heap[o].parent # n /\ heap[o].parent \in 0 .. n
    <2> SUFFICES ASSUME NEW o \in 0 .. n, heap[o].parent # None
                 PROVE  heap[o].parent \in 0 .. n - 1
      OBVIOUS
    <2>1. heap[o].parent \in 0 .. o - 1
      BY <1>1, ParentsAreOlder DEF InOrder
    <2> QED BY <2>1
  <1>3. \A o \in 0 .. n - 1 :
          g[o] = IF heap[o].parent = None THEN OwnTable(heap[o].addr)
                 ELSE OwnTable(heap[o].addr) \o g[heap[o].parent]
    BY DEF PathRule
  <1>4. d \in Seq(T!Addr)
    <2>1. OwnTable(heap[n].addr) \in Seq(T!Addr)
      <3>1. heap[n].addr \in T!Addr
        BY <1>1, ParentsAreOlder DEF InOrder
      <3> QED BY <3>1 DEF OwnTable
    <2>2. heap[n].parent # None => g[heap[n].parent] \in Seq(T!Addr)
      BY <1>2
    <2> QED BY <2>1, <2>2
  <1> HIDE DEF d
  <1>5. \A o \in 0 .. n : f[o] = IF o = n THEN d ELSE g[o]
    OBVIOUS
  <1>6. \A o \in 0 .. n : f[o] \in Seq(T!Addr)
    BY <1>1, <1>4, <1>5
  <1>7. \A o \in 0 .. n - 1 : f[o] = g[o]
    BY <1>5
  <1>8. f = [o \in 0 .. n |-> f[o]]
    OBVIOUS
  <1> HIDE DEF f
  <1>9. \A o \in 0 .. n :
          f[o] = IF heap[o].parent = None THEN OwnTable(heap[o].addr)
                 ELSE OwnTable(heap[o].addr) \o f[heap[o].parent]
    <2> SUFFICES ASSUME NEW o \in 0 .. n
                 PROVE  f[o] = IF heap[o].parent = None THEN OwnTable(heap[o].addr)
                               ELSE OwnTable(heap[o].addr) \o f[heap[o].parent]
      OBVIOUS
    <2>1. heap[o].parent # None => f[heap[o].parent] = g[heap[o].parent]
      BY <1>2, <1>7
    <2>2. CASE o = n
      BY <1>5, <2>1, <2>2 DEF d
    <2>3. CASE o \in 0 .. n - 1
      BY <1>3, <1>7, <2>1, <2>3
    <2> QED BY <1>1, <2>2, <2>3
  <1>10. f = [o \in 0 .. n |-> IF heap[o].parent = None THEN OwnTable(heap[o].addr)
                               ELSE OwnTable(heap[o].addr) \o f[heap[o].parent]]
    BY <1>8, <1>9
  <1>11. (n + 1) - 1 = n
    OBVIOUS
  <1> QED BY <1>6, <1>10, <1>11 DEF PathRule

\* A domain's path is its own table, if it has one, in front of its parent's.
PathDefined ==
  \A o \in T!Object :
    PagedPath[o] = IF heap[o].parent = None THEN OwnTable(heap[o].addr)
                   ELSE OwnTable(heap[o].addr) \o PagedPath[heap[o].parent]

LEMMA PathFollowsParents == TreeInv => PathDefined
PROOF
  <1> SUFFICES ASSUME TreeInv PROVE PathDefined
    OBVIOUS
  <1> DEFINE S == {n \in Nat : n <= nObj =>
                     \E g : PathRule(n, g) /\ \A o \in 0 .. n - 1 : g[o] \in Seq(T!Addr)}
  <1>1. nObj \in Nat /\ T!Object = 0 .. nObj - 1
    BY ParentsAreOlder DEF InOrder
  <1>2. 0 \in S
    <2> DEFINE g == [o \in {} |-> <<>>]
    <2>1. 0 .. 0 - 1 = {}
      OBVIOUS
    <2>2. PathRule(0, g) /\ \A o \in 0 .. 0 - 1 : g[o] \in Seq(T!Addr)
      BY <2>1 DEF PathRule
    <2> QED BY <2>2
  <1>3. \A n \in Nat : n \in S => n + 1 \in S
    <2> SUFFICES ASSUME NEW n \in Nat, n \in S, n + 1 <= nObj
                 PROVE  \E g : /\ PathRule(n + 1, g)
                               /\ \A o \in 0 .. (n + 1) - 1 : g[o] \in Seq(T!Addr)
      OBVIOUS
    <2>1. n <= nObj /\ n < nObj
      BY <1>1
    <2>2. PICK g : PathRule(n, g) /\ \A o \in 0 .. n - 1 : g[o] \in Seq(T!Addr)
      BY <2>1
    <2> HIDE DEF S
    <2> QED BY <2>1, <2>2, OneMorePath
  <1>4. nObj \in S
    <2> HIDE DEF S
    <2> QED BY <1>1, <1>2, <1>3, TP!CountingUp, TreeAssumption DEF Conventions
  <1>5. PICK g : PathRule(nObj, g)
    BY <1>1, <1>4
  <1>6. PathRule(nObj, PagedPath)
    <2>1. PagedPath = CHOOSE f : PathRule(nObj, f)
      BY <1>1 DEF PagedPath, PathRule, OwnTable
    <2> QED BY <1>5, <2>1
  <1> QED BY <1>1, <1>6 DEF PathRule, PathDefined

\* A step that leaves the older objects where they are leaves their paths too.
LEMMA PathsKept ==
  ASSUME TreeInv, TreeInv', nObj <= nObj',
         \A o \in 0 .. nObj - 1 :
           heap'[o].addr = heap[o].addr /\ heap'[o].parent = heap[o].parent
  PROVE  \A o \in T!Object : PagedPath'[o] = PagedPath[o]
PROOF
  <1> DEFINE S == {n \in Nat : n <= nObj => \A o \in 0 .. n - 1 : PagedPath'[o] = PagedPath[o]}
  <1>1. nObj \in Nat /\ T!Object = 0 .. nObj - 1
    BY ParentsAreOlder DEF InOrder
  <1>2. PICK new : new = nObj'
    OBVIOUS
  <1>3. new \in Nat /\ T!Object' = 0 .. new - 1
    <2>1. InOrder'
      BY ParentsAreOlder, PTL
    <2> QED BY <1>2, <2>1 DEF InOrder
  <1>4. \A o \in T!Object :
          PagedPath[o] = IF heap[o].parent = None THEN OwnTable(heap[o].addr)
                         ELSE OwnTable(heap[o].addr) \o PagedPath[heap[o].parent]
    BY PathFollowsParents DEF PathDefined
  <1>5. \A o \in 0 .. new - 1 :
          PagedPath'[o] = IF heap'[o].parent = None THEN OwnTable(heap'[o].addr)
                          ELSE OwnTable(heap'[o].addr) \o PagedPath'[heap'[o].parent]
    <2>1. PathDefined'
      BY PathFollowsParents, PTL
    <2>2. \A a : OwnTable(a)' = OwnTable(a)
      BY DEF OwnTable
    <2> QED BY <1>3, <2>1, <2>2 DEF PathDefined
  <1>6. \A n \in Nat : n \in S => n + 1 \in S
    <2> SUFFICES ASSUME NEW n \in Nat, n \in S, n + 1 <= nObj, NEW o \in 0 .. (n + 1) - 1
                 PROVE  PagedPath'[o] = PagedPath[o]
      OBVIOUS
    <2>1. \A q \in 0 .. n - 1 : PagedPath'[q] = PagedPath[q]
      BY <1>1
    <2> HIDE DEF S
    <2>2. o \in 0 .. n /\ o \in 0 .. nObj - 1
      BY <1>1
    <2>3. o \in 0 .. new - 1
      <3>1. o \in Nat /\ o < nObj /\ nObj <= new
        BY <1>1, <1>2, <2>2
      <3> QED BY <1>1, <1>3, <3>1
    <2>4. heap[o].parent # None => heap[o].parent \in 0 .. n - 1
      <3>1. heap[o].parent # None => heap[o].parent \in 0 .. o - 1
        BY <2>2, ParentsAreOlder DEF InOrder
      <3> QED BY <2>2, <3>1
    <2>5. heap[o].parent # None => PagedPath'[heap[o].parent] = PagedPath[heap[o].parent]
      BY <2>1, <2>4
    <2> QED BY <1>1, <1>4, <1>5, <2>2, <2>3, <2>5
  <1>7. nObj \in S
    <2>1. 0 \in S
      OBVIOUS
    <2> HIDE DEF S
    <2> QED BY <1>1, <1>6, <2>1, TP!CountingUp, TreeAssumption DEF Conventions
  <1> QED BY <1>1, <1>7

\* The path of every domain is a list of DCBs.
LEMMA PathIsSequence ==
  ASSUME TreeInv
  PROVE  \A o \in T!Object : PagedPath[o] \in Seq(T!Addr)
PROOF
  <1> DEFINE S == {n \in Nat : n <= nObj => \A o \in 0 .. n - 1 : PagedPath[o] \in Seq(T!Addr)}
  <1>1. nObj \in Nat /\ T!Object = 0 .. nObj - 1
    BY ParentsAreOlder DEF InOrder
  <1>2. \A n \in Nat : n \in S => n + 1 \in S
    <2> SUFFICES ASSUME NEW n \in Nat, n \in S, n + 1 <= nObj, NEW o \in 0 .. (n + 1) - 1
                 PROVE  PagedPath[o] \in Seq(T!Addr)
      OBVIOUS
    <2>1. \A q \in 0 .. n - 1 : PagedPath[q] \in Seq(T!Addr)
      BY <1>1
    <2> HIDE DEF S
    <2>2. o \in 0 .. n /\ o \in 0 .. nObj - 1
      BY <1>1
    <2>3. heap[o].addr \in T!Addr /\ (heap[o].parent # None => heap[o].parent \in 0 .. n - 1)
      <3>1. /\ heap[o].addr \in T!Addr
            /\ heap[o].parent # None => heap[o].parent \in 0 .. o - 1
        BY <2>2, ParentsAreOlder DEF InOrder
      <3> QED BY <2>2, <3>1
    <2>4. OwnTable(heap[o].addr) \in Seq(T!Addr)
      BY <2>3 DEF OwnTable
    <2>5. PagedPath[o] = IF heap[o].parent = None THEN OwnTable(heap[o].addr)
                         ELSE OwnTable(heap[o].addr) \o PagedPath[heap[o].parent]
      BY <1>1, <2>2, PathFollowsParents DEF PathDefined
    <2> QED BY <2>1, <2>3, <2>4, <2>5
  <1>3. nObj \in S
    <2>1. 0 \in S
      OBVIOUS
    <2> HIDE DEF S
    <2> QED BY <1>1, <1>2, <2>1, TP!CountingUp, TreeAssumption DEF Conventions
  <1> QED BY <1>1, <1>3

\* No step of the tree moves an object, so no path of an older domain changes.
LEMMA PathsStay ==
  ASSUME TreeInv, TreeStep
  PROVE  \A o \in T!Object : PagedPath'[o] = PagedPath[o]
PROOF
  <1>1. nObj \in Nat /\ T!Object = 0 .. nObj - 1 /\ TP!Object = T!Object /\ TP!Anchored
    BY ParentsAreOlder DEF InOrder, T!Object, TP!Object, TreeInv, TP!OneChain
  <1>2. CASE T!Exit \/ \E b \in Block : T!DescendFirst(b)
    <2>1. TP!Exit \/ \E b \in TP!Addr : TP!DescendFirst(b)
      BY <1>2, SameTree DEF TP!Addr
    <2>2. \A o \in 0 .. nObj - 1 :
            heap'[o].addr = heap[o].addr /\ heap'[o].parent = heap[o].parent
      BY <1>1, <2>1, TP!PlacesKept, TreeAssumption DEF Conventions
    <2>3. nObj' = nObj \/ nObj' = nObj + 1
      <3>1. CASE T!Exit
        BY <3>1 DEF T!Exit
      <3>2. CASE \E b \in Block : T!DescendFirst(b)
        BY <3>2 DEF T!DescendFirst
      <3> QED BY <1>2, <3>1, <3>2
    <2> QED BY <1>1, <2>2, <2>3, TreeStepKeeps, PathsKept
  <1>3. CASE UNCHANGED <<heap, nObj>>
    BY <1>1, <1>3, TreeStepKeeps, PathsKept
  <1> QED BY <1>2, <1>3
          DEF TreeStep, treeVars, T!PrepareBlock, T!DescendReturn, T!Ascend

\* The domain a DESCEND or RETURN arrives in hangs below the one that made it.
LEMMA DescendBelow ==
  ASSUME TreeInv, NEW b \in Block, T!DescendReturn(b) \/ T!DescendFirst(b)
  PROVE  heap'[current'].parent = current
PROOF
  <1>1. CASE T!DescendReturn(b)
    <2>1. /\ current \in TP!Object /\ TP!Registered(current)
          /\ heap[current].child = b /\ b # Zero
          /\ current' = registry[b] /\ heap' = heap
      BY <1>1, TreeAssumption DEF T!DescendReturn, TreeInv, TP!OneChain, TP!Anchored, TP!TypeOK
    <2> QED BY <2>1 DEF TreeInv, TP!OneChain, TP!ChildrenLive
  <1>2. CASE T!DescendFirst(b)
    <2>1. nObj \in 0 .. nObj
      BY DEF TreeInv, TP!OneChain, TP!Anchored, TP!TypeOK
    <2>2. /\ current' = nObj
          /\ heap' = [o \in 0 .. nObj |->
                        IF o = nObj THEN T!ReadBlock(b, nextId)
                        ELSE IF o = current THEN [heap[o] EXCEPT !.child = b]
                        ELSE heap[o]]
      BY <1>2 DEF T!DescendFirst, T!Grow
    <2> QED BY <2>1, <2>2 DEF T!ReadBlock
  <1> QED BY <1>1, <1>2

\* _check_interrupt neither stops or starts a core nor touches its chain.
LEMMA FinishLeavesChain ==
  ASSUME NEW c \in Cpu, NEW f, NEW k, NEW d, Finish(c, f, k, d)
  PROVE  cpu'.chain = c.chain /\ cpu'.halted = c.halted
PROOF
  <1>1. CASE Taken(c, f, k, d)
    <2>1. cpu' = [c EXCEPT !.prio = PRIORITY_IRQ, !.flag = TRUE, !.inIrq = TRUE,
                           !.pc = HandlerCode(c.blockAddr)]
      BY <1>1 DEF Taken
    <2> QED BY <2>1 DEF Cpu
  <1> QED BY <1>1 DEF Finish

\* Every step keeps the chain of page tables that of the running domain's path,
\* when every child has a page table: an ascend then takes off the head that
\* its descend has put on.
LEMMA StepKeepsChain ==
  CoreInv /\ PagedChainMatches /\ [CoreNext]_coreVars => PagedChainMatches'
PROOF
  <1> SUFFICES ASSUME CoreInv, PagedChainMatches, [CoreNext]_coreVars, Block \subseteq Paged
               PROVE  cpu'.halted \/ cpu'.chain = PagedPath'[current']
    BY DEF PagedChainMatches, ChainMatchesPath, Running
  <1>1. TreeInv /\ TreeStep /\ TreeInv' /\ cpu \in Cpu
    BY CoreTakesTreeStep, TreeStepKeeps DEF CoreInv, Steady, CoreOK
  <1>2. /\ nObj \in Nat /\ T!Object = 0 .. nObj - 1 /\ current \in T!Object
        /\ \A o \in T!Object : PagedPath'[o] = PagedPath[o]
    BY <1>1, ParentsAreOlder, PathsStay DEF InOrder
  <1>3. cpu.halted \/ cpu.chain = PagedPath[current]
    BY DEF PagedChainMatches, ChainMatchesPath, Running
  <1>4. ASSUME current' = current, cpu'.chain = cpu.chain, cpu'.halted \/ ~cpu.halted
        PROVE  cpu'.halted \/ cpu'.chain = PagedPath'[current']
    BY <1>2, <1>3, <1>4
  \* An instruction that moves no domain and leaves the chain to the poll.
  <1>5. ASSUME UNCHANGED treeVars, Running, NEW c \in Cpu, c.chain = cpu.chain,
               NEW f, NEW k, NEW d, Finish(c, f, k, d)
        PROVE  cpu'.halted \/ cpu'.chain = PagedPath'[current']
    <2>1. cpu'.chain = cpu.chain /\ current' = current /\ ~cpu.halted
      BY <1>5, FinishLeavesChain DEF treeVars, Running
    <2> QED BY <1>4, <2>1
  <1>6. CASE Plain
    BY <1>1, <1>5, <1>6 DEF Plain
  <1>7. CASE Halt
    <2>1. [cpu EXCEPT !.halted = TRUE] \in Cpu /\ [cpu EXCEPT !.halted = TRUE].chain = cpu.chain
      BY <1>1 DEF Cpu
    <2> QED BY <1>5, <1>7, <2>1 DEF Halt
  <1>8. CASE NoInstruction
    BY <1>1, <1>8 DEF NoInstruction, Cpu
  <1>9. ASSUME NEW done \in BOOLEAN, Access(done)
        PROVE  cpu'.halted \/ cpu'.chain = PagedPath'[current']
    <2>1. /\ [cpu EXCEPT !.halted = ~done] \in Cpu
          /\ [cpu EXCEPT !.halted = ~done].chain = cpu.chain
      BY <1>1 DEF Cpu
    <2> QED BY <1>5, <1>9, <2>1 DEF Access
  <1>10. ASSUME NEW b \in Block, NEW v \in T!Word, PrepareBlock(b, v)
         PROVE  cpu'.halted \/ cpu'.chain = PagedPath'[current']
    BY <1>4, <1>10 DEF PrepareBlock, T!PrepareBlock, Running
  <1>11. ASSUME NEW b \in Block, Descend(b)
         PROVE  cpu'.halted \/ cpu'.chain = PagedPath'[current']
    <2> DEFINE c == [cpu EXCEPT !.pc = frame[b].resume, !.flag = FALSE, !.blockAddr = b,
                                !.chain = IF b \in Paged THEN <<b>> \o @ ELSE @]
    <2>1. /\ Running /\ (T!DescendReturn(b) \/ T!DescendFirst(b))
          /\ Finish(c, frame, ic, heap'[current'].id)
      BY <1>11 DEF Descend, MayTransfer
    <2>2. c.chain = <<b>> \o PagedPath[current] /\ c \in Cpu
      <3>1. b \in T!Addr /\ b \in Paged
        BY DEF T!Addr
      <3>2. frame[b].resume \in Location
        BY <3>1 DEF CoreInv, Steady, CoreOK, Frame
      <3>3. <<b>> \o cpu.chain \in Seq(T!Addr)
        BY <1>1, <3>1 DEF Cpu
      <3>4. c = [cpu EXCEPT !.pc = frame[b].resume, !.flag = FALSE, !.blockAddr = b,
                            !.chain = <<b>> \o cpu.chain]
        BY <3>1
      <3> HIDE DEF c
      <3> QED BY <1>1, <1>3, <2>1, <3>1, <3>2, <3>3, <3>4 DEF Cpu, Running
    <2> HIDE DEF c
    <2>3. heap'[current'].addr = b /\ heap'[current'].parent = current /\ current # None
      BY <1>1, <1>2, <2>1, DescendArrives, DescendBelow, TreeAssumption
    <2>4. PagedPath'[current'] = <<b>> \o PagedPath[current]
      <3>1. PathDefined' /\ InOrder'
        BY <1>1, PathFollowsParents, ParentsAreOlder, PTL
      <3>2. current' \in T!Object'
        BY <3>1 DEF InOrder
      <3>3. PagedPath'[current'] = OwnTable(heap'[current'].addr) \o PagedPath'[current]
        BY <2>3, <3>1, <3>2 DEF PathDefined, OwnTable
      <3> QED BY <1>2, <2>3, <3>3 DEF OwnTable
    <2> QED BY <2>1, <2>2, <2>4, FinishLeavesChain
  <1>12. CASE AscendOrExit
    <2>1. Running /\ (T!Ascend \/ T!Exit) /\ Finish(Ascended, Suspended, ic, heap'[current'].id)
      BY <1>12 DEF AscendOrExit, MayTransfer
    <2>2. PICK p, a : p = heap[current].parent /\ a = heap[current].addr
      OBVIOUS
    <2>3. p # None /\ current' = p /\ p \in T!Object
      <3>1. p # None /\ current' = p
        <4>1. CASE T!Ascend
          BY <2>2, <4>1 DEF T!Ascend
        <4>2. CASE T!Exit
          BY <2>2, <4>2 DEF T!Exit
        <4> QED BY <2>1, <4>1, <4>2
      <3>2. p \in 0 .. current - 1
        BY <1>1, <1>2, <2>2, <3>1, ParentsAreOlder DEF InOrder
      <3> QED BY <1>2, <3>1, <3>2
    <2>4. a \in Paged
      <3>1. current \in TP!Object \ {TP!Root}
        BY <1>1, <2>2, <2>3 DEF TreeInv, TP!OneChain, TP!Anchored, TP!TypeOK, TP!RegistryAnchored
      <3> QED BY <1>1, <2>2, <3>1, TP!ObjectFacts, TreeAssumption
              DEF TreeInv, TP!OneChain, Conventions
    <2>5. cpu.chain = <<a>> \o PagedPath[p]
      BY <1>1, <1>2, <1>3, <2>1, <2>2, <2>3, <2>4, PathFollowsParents
         DEF PathDefined, OwnTable, Running
    <2>6. cpu.chain # <<>> /\ Tail(cpu.chain) = PagedPath[p]
      <3>1. PagedPath[p] \in Seq(T!Addr)
        BY <1>1, <2>3, PathIsSequence
      <3> QED BY <2>5, <3>1
    <2>7. Ascended \in Cpu /\ Ascended.chain = Tail(cpu.chain)
      <3>1. DomainFits'
        BY <1>1, RunningDomain, PTL
      <3>2. heap'[current'].addr \in T!Addr /\ Code(heap'[current'].addr) \in Location
        BY <3>1 DEF DomainFits, Code, Location
      <3>3. Tail(cpu.chain) \in Seq(T!Addr)
        BY <1>1, <2>6 DEF Cpu
      <3> DEFINE c == [cpu EXCEPT !.prio = PRIORITY_ASCEND, !.blockAddr = heap'[current'].addr,
                                  !.chain = Tail(cpu.chain)]
      <3>4. \/ Ascended = [c EXCEPT !.halted = TRUE]
            \/ Ascended = [c EXCEPT !.pc = Code(heap'[current'].addr)]
        BY <2>6 DEF Ascended
      <3> QED BY <1>1, <3>2, <3>3, <3>4 DEF Cpu
    <2> QED BY <1>2, <2>1, <2>3, <2>6, <2>7, FinishLeavesChain
  <1>13. CASE AscendAtRoot
    <2>1. cpu'.chain = cpu.chain /\ current' = current /\ ~cpu.halted
      BY <1>1, <1>13 DEF AscendAtRoot, MayTransfer, Running, T!AscendAtRoot, T!vars, Cpu
    <2> QED BY <1>4, <2>1
  <1>14. CASE InterruptReturn
    <2> DEFINE saved == frame[cpu.blockAddr]
               c == [cpu EXCEPT !.pc = saved.irqPc, !.flag = saved.irqFlag,
                                !.inIrq = FALSE, !.prio = PRIORITY_NORMAL]
    <2>1. Running /\ cpu.inIrq /\ Finish(c, frame, ic, Id) /\ UNCHANGED treeVars
      BY <1>14 DEF InterruptReturn
    <2>2. cpu.blockAddr \in T!Addr
      BY <1>1 DEF Cpu
    <2>3. saved.irqPc \in Location /\ saved.irqFlag \in BOOLEAN
      BY <2>1, <2>2 DEF CoreInv, Steady, CoreOK, Returns, Frame, Code, Location
    <2> HIDE DEF saved
    <2>4. c \in Cpu /\ c.chain = cpu.chain
      BY <1>1, <2>3 DEF Cpu
    <2> HIDE DEF c
    <2> QED BY <1>5, <2>1, <2>4
  <1>15. CASE SysopIrq
    <2>1. PICK k : Finish(cpu, frame, k, Id)
      BY <1>15, SysopSound DEF CoreInv
    <2> QED BY <1>1, <1>5, <1>15, <2>1 DEF SysopIrq
  <1>16. CASE Device
    BY <1>4, <1>16 DEF Device, treeVars, Running
  <1>17. CASE UNCHANGED coreVars
    BY <1>2, <1>3, <1>17 DEF coreVars, treeVars
  <1> QED BY <1>6, <1>7, <1>8, <1>9, <1>10, <1>11, <1>12, <1>13, <1>14, <1>15, <1>16, <1>17
          DEF CoreNext

\* When every child has a page table, the chain a running core translates with
\* is the page tables of the running domain's path to the root, nearest first
\* (isa_simple.py:108, 1331-1332, 1370-1371).
THEOREM ChainStaysMatched == CoreSpec => []PagedChainMatches
PROOF
  <1>1. CoreInit => PagedChainMatches
    <2> SUFFICES ASSUME CoreInit PROVE cpu.chain = PagedPath[current]
      BY DEF PagedChainMatches, ChainMatchesPath
    <2>1. TreeInv
      BY InitTree DEF CoreInit
    <2>2. /\ current = 0 /\ nObj = 1 /\ heap[0].parent = None /\ heap[0].addr = Zero
      BY DEF CoreInit, T!Init, T!Root
    <2>3. PagedPath[current] = OwnTable(Zero)
      BY <2>1, <2>2, PathFollowsParents DEF PathDefined, T!Object
    <2> QED BY <2>3 DEF CoreInit, OwnTable
  <1> QED BY <1>1, StepKeepsChain, CoreInvAlways, PTL DEF CoreSpec

-----------------------------------------------------------------------------
(* Under a host (Machine).                                                 *)

\* What the host does to the tree is what the core could have done.
LEMMA MachineTakesTreeStep == [MachineNext]_coreVars => TreeStep
PROOF
  <1> SUFFICES ASSUME [MachineNext]_coreVars PROVE TreeStep
    OBVIOUS
  <1>1. CASE [CoreNext]_coreVars
    BY <1>1, CoreTakesTreeStep
  <1>2. ASSUME NEW b \in Block, NEW v \in T!Word, HostLoad(b, v) PROVE TreeStep
    BY <1>2 DEF HostLoad, TreeStep
  <1>3. ASSUME NEW b \in Block, HostDescend(b) PROVE TreeStep
    BY <1>3 DEF HostDescend, TreeStep
  <1>4. CASE HostAscend
    BY <1>4 DEF HostAscend, TreeStep
  <1> QED BY <1>1, <1>2, <1>3, <1>4 DEF MachineNext

\* The host may leave the core out of step with the tree, but never unsteady.
LEMMA MachineStepKeeps == Steady /\ [MachineNext]_coreVars => Steady'
PROOF
  <1> SUFFICES ASSUME Steady, [MachineNext]_coreVars PROVE Steady'
    OBVIOUS
  <1>1. TreeInv'
    BY MachineTakesTreeStep, TreeStepKeeps DEF Steady
  <1>2. CASE [CoreNext]_coreVars
    BY <1>2, StepKeeps
  <1>3. ASSUME NEW b \in Block, NEW v \in T!Word, HostLoad(b, v) PROVE Steady'
    <2>1. CoreOK(cpu', frame') /\ ic' = ic
      BY <1>3, LoadKeeps DEF HostLoad
    <2> QED BY <1>1, <2>1 DEF Steady
  <1>4. ASSUME (\E b \in Block : HostDescend(b)) \/ HostAscend PROVE Steady'
    <2>1. cpu' = cpu /\ frame' = frame /\ ic' = ic
      BY <1>4 DEF HostDescend, HostAscend
    <2> QED BY <1>1, <2>1 DEF Steady
  <1> QED BY <1>2, <1>3, <1>4 DEF MachineNext

LEMMA MachineSteady == MachineSpec => []Steady
PROOF
  <1>1. CoreInit => Steady
    BY InitCore DEF CoreInv
  <1> QED BY <1>1, MachineStepKeeps, PTL DEF MachineSpec

\* Transfers made by the host between two steps change the shape of nothing.
THEOREM MachineTypeCorrect == MachineSpec => []CoreTypeOK
PROOF
  BY MachineSteady, SteadyTyped, PTL

\* Though the host's transfers save no context, every suspended domain will go
\* on in its own ordinary code (machine.py, Machine.descend and ascend).
THEOREM HostSparesSuspended == MachineSpec => []ResumesOwnCode
PROOF
  BY MachineSteady, SteadyResumes, PTL

\* Nor do they part a handler from the code it interrupted: its BX LR goes by
\* the DCB the core names, which the host does not change.
THEOREM HostSparesHandlers == MachineSpec => []HandlerReturns
PROOF
  BY MachineSteady, SteadyReturns, PTL

\* Whatever the host did before, a transfer the core makes brings it back to
\* the domain RPALogic has made current (isa_simple.py:1334-1335, 1375-1376).
THEOREM TransfersRealign == MachineSpec => TransferRealigns
PROOF
  <1> DEFINE A == (\E b \in Block : Descend(b)) \/ AscendOrExit => CoreInStep'
  <1>1. Steady /\ [MachineNext]_coreVars => [A]_coreVars
    <2> SUFFICES ASSUME Steady, (\E b \in Block : Descend(b)) \/ AscendOrExit
                 PROVE  CoreInStep'
      OBVIOUS
    <2>1. Steady' /\ Aligned'
      BY DescendAligns, AscendAligns
    <2> QED BY <2>1 DEF Steady, Aligned, CoreOK, OwnCode, CoreInStep, Running
  <1> QED BY <1>1, MachineSteady, PTL DEF MachineSpec, TransferRealigns

\* Whatever software, devices and a host do to each other, no pending interrupt
\* is hidden from the poll, and neither a list nor a link leads to an instance
\* that was released (interrupt.py:318-345, 495-503).
THEOREM MachineKeepsController ==
  MachineSpec => [](I!NoneHidden /\ I!ListsExact /\ I!ChildLinkSound)
PROOF
  BY MachineSteady, SteadyController, PTL

\* With a host the domains are still one chain, and control still moves along
\* it one link at a time.
THEOREM MachineImplementsChain == MachineSpec => T!ImplementsChain
PROOF
  <1>1. [MachineNext]_coreVars => [TreeStep]_treeVars
    BY MachineTakesTreeStep
  <1>2. CoreInit => T!Init
    BY DEF CoreInit
  <1> QED BY <1>1, <1>2, TreeStepsImplementChain, PTL DEF MachineSpec
=============================================================================
