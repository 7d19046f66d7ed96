-------------------------------- MODULE Core --------------------------------
(***************************************************************************)
(* SimpleISA (src/rpa_sim/isa_simple.py): one core that runs the domains   *)
(* of the tree and polls the interrupt controller after every instruction. *)
(* Its own copies of the running domain's DCB address and page tables, and *)
(* the frames it saves in the DCBs, must keep in step with RPALogic.       *)
(*                                                                         *)
(* An address of code is abstracted to the DCB of the domain whose code it *)
(* is, and whether it lies in that domain's interrupt handler.  The DCBs   *)
(* are far enough apart that their frames (0x28-0x83) do not overlap.      *)
(* ipa_regions is set where domain_block_addr is, from the same block, so  *)
(* blockAddr stands for both.  Software is careful (see DomainTree), works *)
(* on interrupt instances of its own, and an interrupt handler leaves only *)
(* by BX LR.  Refused DESCENDs and refused sysops change nothing.          *)
(***************************************************************************)
EXTENDS Integers, Sequences, FiniteSets

CONSTANTS
  Block, BadBlock, Vector, RootVector, Zero, None, MaxDomains,  \* DomainTree
  Irq, Grant, Handler, NoInstance, MaxInstance,                 \* Interrupts
  Paged         \* the DCBs whose page_table word is not 0

ASSUME PagedAssumption == Paged \subseteq Block \cup {Zero}

\* What the tree and the interrupt controller assume of their constants.
ASSUME TreeAssumption ==
  /\ Zero \notin Block \cup Vector /\ BadBlock \cap Block = {}
  /\ RootVector \in Vector
  /\ None \notin Nat
  /\ MaxDomains \in Nat

ASSUME ControllerAssumption ==
  /\ Irq \subseteq Nat /\ IsFiniteSet(Irq)
  /\ 0 \notin Handler
  /\ Grant \subseteq SUBSET {"config", "enable", "sgi"}
  /\ MaxInstance \in Nat

VARIABLES
  heap, nObj, registry, mem, current, nextId,   \* see DomainTree
  ic,           \* see Interrupts
  cpu,          \* the core's own state: see CoreTypeOK
  frame         \* DCB address -> the context saved in that DCB

Conventions == {"fresh block", "leaf exit"}

T == INSTANCE DomainTree
I == INSTANCE Interrupts WITH Owner <- 0 .. MaxDomains

\* An absent entry is not an instance.
ASSUME AbsentAssumption == NoInstance \notin I!InstanceRecord

treeVars == <<heap, nObj, registry, mem, current, nextId>>
coreVars == <<treeVars, ic, cpu, frame>>

PRIORITY_NORMAL == 1
PRIORITY_IRQ == 2
PRIORITY_ASCEND == 3

Code(a) == <<a, "code">>
HandlerCode(a) == <<a, "handler">>
Location == T!Addr \X {"code", "handler"}

\* pc; whether LR carries IRQ_RETURN_FLAG; domain_block_addr; irq_disabled,
\* which in_interrupt always equals; the priority; halted; page_table_chain.
\* DCBs are laid out with their entry points; nothing is saved in them yet.
CoreInit ==
  /\ T!Init
  /\ I!IrqInit
  /\ cpu = [pc |-> Code(Zero), flag |-> FALSE, blockAddr |-> Zero, inIrq |-> FALSE,
            prio |-> PRIORITY_NORMAL, halted |-> FALSE,
            chain |-> IF Zero \in Paged THEN <<Zero>> ELSE <<>>]
  /\ frame = [a \in T!Addr |-> [resume |-> Code(a), irqPc |-> None, irqFlag |-> FALSE]]

-----------------------------------------------------------------------------
\* The interrupt the core would turn to next, for domain id d.
Ready(k, d) == LET h == I!FirstReady(k, d)
               IN  h # I!NoInstanceHandle /\ k.inst[h].vector # 0

\* Mutant of Taken: the frame goes to DCB 0 whoever is interrupted.
TakenToRootFrame(c, f, k, d) ==
  LET h == I!FirstReady(k, d)
      a == c.blockAddr
  IN  /\ ic' = I!Cleared(k, h, I!NextIrq(k, h))
      /\ frame' = [f EXCEPT ![Zero].irqPc = c.pc, ![Zero].irqFlag = c.flag]
      /\ cpu' = [c EXCEPT !.prio = PRIORITY_IRQ, !.flag = TRUE, !.inIrq = TRUE,
                          !.pc = HandlerCode(a)]

\* Mutant of Taken: the interrupt stays pending.
TakenStaysPending(c, f, k, d) ==
  LET a == c.blockAddr
  IN  /\ ic' = k
      /\ frame' = [f EXCEPT ![a].irqPc = c.pc, ![a].irqFlag = c.flag]
      /\ cpu' = [c EXCEPT !.prio = PRIORITY_IRQ, !.flag = TRUE, !.inIrq = TRUE,
                          !.pc = HandlerCode(a)]

\* The core takes the interrupt: all registers go to the DCB, LR gets the
\* flag, and the handler runs with interrupts disabled.
Taken(c, f, k, d) ==
  LET h == I!FirstReady(k, d)
      a == c.blockAddr
  IN  /\ ic' = I!Cleared(k, h, I!NextIrq(k, h))
      /\ frame' = [f EXCEPT ![a].irqPc = c.pc, ![a].irqFlag = c.flag]
      /\ cpu' = [c EXCEPT !.prio = PRIORITY_IRQ, !.flag = TRUE, !.inIrq = TRUE,
                          !.pc = HandlerCode(a)]

\* The end of step(): an instruction has left core c, frames f and controller
\* k, and the domain with id d runs; _check_interrupt, halted or not.
Finish(c, f, k, d) ==
  LET taken == ~c.inIrq /\ c.prio < PRIORITY_IRQ /\ Ready(k, d)
  IN  \/ taken /\ Taken(c, f, k, d)
      \/ ~taken /\ cpu' = c /\ frame' = f /\ ic' = k

Running == ~cpu.halted
Id == heap[current].id
MayTransfer == Running /\ cpu.pc[2] = "code"

\* Any instruction that touches none of this state.
Plain ==
  /\ Running
  /\ Finish(cpu, frame, ic, Id)
  /\ UNCHANGED treeVars

\* HALT.
Halt ==
  /\ Running
  /\ Finish([cpu EXCEPT !.halted = TRUE], frame, ic, Id)
  /\ UNCHANGED treeVars

\* There is no instruction at pc: the core stops without polling.
NoInstruction ==
  /\ Running
  /\ cpu' = [cpu EXCEPT !.halted = TRUE]
  /\ UNCHANGED <<treeVars, ic, frame>>

\* LDR and STR: through the page tables of the chain (module Translation), or
\* straight to memory if it is empty.  An access that is not carried out halts
\* the core; no fault handler is installed.
Access(done) ==
  /\ Running
  /\ Finish([cpu EXCEPT !.halted = ~done], frame, ic, Id)
  /\ UNCHANGED treeVars

\* The running domain's stores that set up a child's DCB, entry point and all;
\* the Plain that may precede and follow it polls for interrupts.
PrepareBlock(b, v) ==
  /\ Running
  /\ T!PrepareBlock(b, v)
  /\ frame' = [frame EXCEPT ![b].resume = Code(b)]
  /\ UNCHANGED <<ic, cpu>>

\* Mutant of Descend: the core keeps naming the parent's DCB.
DescendKeepsBlock(b) ==
  /\ MayTransfer
  /\ T!DescendReturn(b) \/ T!DescendFirst(b)
  /\ Finish([cpu EXCEPT !.pc = frame[b].resume, !.flag = FALSE,
                        !.chain = IF b \in Paged THEN <<b>> \o @ ELSE @],
            frame, ic, heap'[current'].id)

\* DESCEND and RETURN: the priority is left as it is.
Descend(b) ==
  /\ MayTransfer
  /\ T!DescendReturn(b) \/ T!DescendFirst(b)
  /\ Finish([cpu EXCEPT !.pc = frame[b].resume, !.flag = FALSE, !.blockAddr = b,
                        !.chain = IF b \in Paged THEN <<b>> \o @ ELSE @],
            frame, ic, heap'[current'].id)

\* Mutant of Ascended: the chain keeps the child's page table.
AscendedKeepsChain ==
  LET p == heap'[current']
      c == [cpu EXCEPT !.prio = PRIORITY_ASCEND, !.blockAddr = p.addr]
  IN  IF p.trap = Zero THEN [c EXCEPT !.halted = TRUE]
      ELSE [c EXCEPT !.pc = Code(p.addr)]

\* Where the core is after ascending to the domain that is current now: in its
\* trap handler, or halted if it has none; the chain loses its head.
Ascended ==
  LET p == heap'[current']
      c == [cpu EXCEPT !.prio = PRIORITY_ASCEND, !.blockAddr = p.addr,
                       !.chain = IF @ = <<>> THEN @ ELSE Tail(@)]
  IN  IF p.trap = Zero THEN [c EXCEPT !.halted = TRUE]
      ELSE [c EXCEPT !.pc = Code(p.addr)]

\* Mutant of Suspended: the DCB's own address is saved, not the return address.
SuspendedBlock == [frame EXCEPT ![cpu.blockAddr].resume = cpu.blockAddr]

\* complete_ascend: the return address goes to the DCB of the running domain.
Suspended == [frame EXCEPT ![cpu.blockAddr].resume = cpu.pc]

\* Mutant of AscendOrExit: the context is saved after the switch, into the
\* DCB the core then names.
SavesAfterSwitch ==
  /\ MayTransfer
  /\ T!Ascend \/ T!Exit
  /\ Finish(Ascended, [frame EXCEPT ![heap'[current'].addr].resume = cpu.pc],
            ic, heap'[current'].id)

\* ASCEND and EXIT from a child.
AscendOrExit ==
  /\ MayTransfer
  /\ T!Ascend \/ T!Exit
  /\ Finish(Ascended, Suspended, ic, heap'[current'].id)

\* ASCEND in the root raises RuntimeError out of step(), after the priority
\* has been raised and the context saved.
AscendAtRoot ==
  /\ MayTransfer
  /\ T!AscendAtRoot
  /\ cpu' = [cpu EXCEPT !.prio = PRIORITY_ASCEND]
  /\ frame' = Suspended
  /\ UNCHANGED ic

\* Mutant of InterruptReturn: the priority stays that of the interrupt.
ReturnKeepsPriority ==
  /\ Running
  /\ cpu.pc[2] = "handler"
  /\ cpu.flag /\ cpu.inIrq
  /\ LET saved == frame[cpu.blockAddr]
     IN  Finish([cpu EXCEPT !.pc = saved.irqPc, !.flag = saved.irqFlag, !.inIrq = FALSE],
                frame, ic, Id)
  /\ UNCHANGED treeVars

\* BX LR at the end of a handler.
InterruptReturn ==
  /\ Running
  /\ cpu.pc[2] = "handler"
  /\ cpu.flag /\ cpu.inIrq
  /\ LET saved == frame[cpu.blockAddr]
     IN  Finish([cpu EXCEPT !.pc = saved.irqPc, !.flag = saved.irqFlag,
                            !.inIrq = FALSE, !.prio = PRIORITY_NORMAL],
                frame, ic, Id)
  /\ UNCHANGED treeVars

Mine(h) == I!Exists(ic, h) /\ ic.inst[h].owner = Id

\* sysop irq: request, release, enable, disable, setvec, clear and sgi, which
\* goes out under the handle the domain's DCB names, whosever it is.
SysopIrq ==
  /\ Running
  /\ \/ /\ ic.next <= MaxInstance
        /\ \E rights \in Grant :
             Finish(cpu, frame, I!Requested(ic, Id, rights, I!NoInstanceHandle), Id)
     \/ \E h \in I!Instance :
          /\ Mine(h)
          /\ Finish(cpu, frame, I!Released(ic, h), Id)
     \/ \E h \in I!Instance, on \in BOOLEAN :
          /\ Mine(h) /\ I!Has(ic, h, "enable")
          /\ Finish(cpu, frame, I!Switched(ic, h, on), Id)
     \/ \E h \in I!Instance, v \in Handler \cup {0} :
          /\ Mine(h) /\ I!Has(ic, h, "config")
          /\ Finish(cpu, frame, I!Vectored(ic, h, v), Id)
     \/ \E h \in I!Instance, i \in Irq :
          /\ Mine(h)
          /\ Finish(cpu, frame, I!Cleared(ic, h, i), Id)
     \/ /\ \E h \in I!Instance : I!Has(ic, h, "sgi")
        /\ \E h \in I!Instance, i \in Irq :
             /\ I!Exists(ic, h)
             /\ Finish(cpu, frame, I!Triggered(ic, h, i), Id)
  /\ UNCHANGED treeVars

\* A device raises an interrupt between two instructions; a halted core has
\* no more of them.
Device ==
  /\ Running
  /\ \E h \in I!Instance, i \in Irq : I!TriggerIrq(h, i)
  /\ UNCHANGED <<treeVars, cpu, frame>>

CoreNext ==
  \/ Plain
  \/ Halt
  \/ NoInstruction
  \/ \E done \in BOOLEAN : Access(done)
  \/ \E b \in Block, v \in T!Word : PrepareBlock(b, v)
  \/ \E b \in Block : Descend(b)
  \/ AscendOrExit
  \/ AscendAtRoot
  \/ InterruptReturn
  \/ SysopIrq
  \/ Device

CoreSpec == CoreInit /\ [][CoreNext]_coreVars

\* run() calls step() until the core halts (or max_steps, and is then called
\* again), and every such step ends with the poll: an interrupt that stays
\* ready to be taken is taken by some instruction.  A handler that is careful
\* comes to its BX LR.  Devices and the software's other choices owe nothing.
CoreFairness == WF_coreVars(Plain) /\ WF_coreVars(InterruptReturn)

FairCoreSpec == CoreSpec /\ CoreFairness

-----------------------------------------------------------------------------
(* Properties.                                                             *)

\* The type invariant: every part of the core, of the frames, of the tree and
\* of the interrupt controller keeps its shape.
CoreTypeOK ==
  /\ T!TypeOK /\ I!IrqTypeOK
  /\ cpu.pc \in Location
  /\ cpu.flag \in BOOLEAN /\ cpu.inIrq \in BOOLEAN /\ cpu.halted \in BOOLEAN
  /\ cpu.blockAddr \in T!Addr
  /\ cpu.prio \in {PRIORITY_NORMAL, PRIORITY_IRQ, PRIORITY_ASCEND}
  /\ cpu.chain \in Seq(T!Addr)
  /\ frame \in [T!Addr -> [resume : Location, irqPc : Location \cup {None}, irqFlag : BOOLEAN]]

\* The core and RPALogic agree on which domain runs, and it runs that
\* domain's code: no transfer or interrupt leaves the core executing or
\* saving on behalf of another domain.
CoreInStep ==
  /\ cpu.blockAddr = heap[current].addr
  /\ Running => cpu.pc[1] = cpu.blockAddr

\* A suspended domain will be resumed in its own ordinary code, whatever
\* ASCENDs, EXITs, reused blocks and interrupts came in between.
ResumesOwnCode ==
  \A o \in T!Object : T!Registered(o) /\ o # current =>
    frame[heap[o].addr].resume = Code(heap[o].addr)

\* While an interrupt is served, it is served at IRQ priority by the running
\* domain, no second one is under way, and BX LR will lead back to the
\* interrupted code of that domain.
HandlerReturns ==
  IF cpu.inIrq
  THEN /\ cpu.pc = HandlerCode(cpu.blockAddr) /\ cpu.flag
       /\ cpu.prio = PRIORITY_IRQ
       /\ frame[cpu.blockAddr].irqPc = Code(cpu.blockAddr)
       /\ ~frame[cpu.blockAddr].irqFlag
  ELSE cpu.pc[2] = "code" /\ ~cpu.flag /\ cpu.prio # PRIORITY_IRQ

\* The DCBs with a page table from a domain to the root, nearest first.
PagedPath[o \in T!Object] ==
  LET own == IF heap[o].addr \in Paged THEN <<heap[o].addr>> ELSE <<>>
  IN  IF heap[o].parent = None THEN own ELSE own \o PagedPath[heap[o].parent]

\* isa_simple.py:108: page_table_chain is [domain_n.page_table, ...,
\* domain_0.page_table], the page tables of the running domain's path.
ChainMatchesPath == Running => cpu.chain = PagedPath[current]

\* When every child has a page table the chain is right at every step.
PagedChainMatches == Block \subseteq Paged => ChainMatchesPath

\* Interrupt i of instance h waits for the core: its owner runs at a priority
\* that admits it and can be reached by FirstReady.
Waiting(h, i) ==
  /\ Running /\ cpu.prio # PRIORITY_ASCEND
  /\ Mine(h) /\ i \in ic.inst[h].pending
  /\ \A k \in 1 .. h : Mine(k) /\ ic.inst[k].pending # {} =>
       ic.inst[k].on /\ ic.inst[k].vector # 0

\* At last neither a device nor an SGI raises an interrupt any more.
Quiet ==
  <>[][\A h \in I!Instance : I!Exists(ic', h) /\ ic'.inst[h].pending # {} =>
         I!Exists(ic, h) /\ ic'.inst[h].pending \subseteq ic.inst[h].pending]_coreVars

\* Once no more are raised no interrupt waits for ever: it is taken, or its
\* domain clears, masks or releases it, stops running or stops the core
\* (isa_simple.py:1199-1244, interrupt.py:495-515).
EveryWaitEnds ==
  Quiet => \A h \in I!Instance, i \in Irq : []<>~Waiting(h, i)

\* Once no more are raised the interrupted code runs on: handlers do not
\* follow each other for ever (isa_simple.py:665-667, 1275-1298).
InterruptedCodeRuns == Quiet => []<>(cpu.halted \/ ~cpu.inIrq)
=============================================================================
