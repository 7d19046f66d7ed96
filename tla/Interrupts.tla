----------------------------- MODULE Interrupts -----------------------------
(***************************************************************************)
(* InterruptController (src/rpa_sim/interrupt.py): interrupt instances     *)
(* named by handles (0x1000, 0x1001, ... here 1, 2, ...; 0 is no handle),  *)
(* their pending sets, and the chain of parent instances along which the   *)
(* right to an IRQ is delegated.                                           *)
(*                                                                         *)
(* The controller's state is one record, and each operation is a function  *)
(* on it, so that a core can combine an instruction with the interrupt     *)
(* check that ends it (module Core).  A call that returns False changes    *)
(* nothing and is left out of the next-state relation.                     *)
(***************************************************************************)
EXTENDS Integers, Sequences, FiniteSets, FiniteSetsExt, SequencesExt

CONSTANTS
  Owner,        \* ids of the domains that request instances
  Irq,          \* IRQ numbers
  Grant,        \* the sets of rights software asks for
  Handler,      \* non-zero interrupt vectors
  NoInstance,   \* an absent dictionary entry
  MaxInstance   \* bound: instances requested over a run

ASSUME IrqAssumption == Irq \subseteq Nat /\ IsFiniteSet(Irq)
ASSUME HandlerAssumption == 0 \notin Handler
ASSUME GrantAssumption == Grant \subseteq SUBSET {"config", "enable", "sgi"}
ASSUME InstanceBoundAssumption == MaxInstance \in Nat

VARIABLE
  ic            \* the controller: see IrqTypeOK

Instance == 1 .. MaxInstance
NoInstanceHandle == 0

ControllerInit ==
  [inst |-> [h \in Instance |-> NoInstance],  \* instances
   lists |-> [d \in Owner |-> <<>>],          \* domain_instances
   next |-> 1,                                \* _next_handle
   pending |-> FALSE]                         \* global_pending

IrqInit == ic = ControllerInit

Exists(c, h) == h \in Instance /\ c.inst[h] # NoInstance
Has(c, h, right) == Exists(c, h) /\ right \in c.inst[h].rights

-----------------------------------------------------------------------------
(* The operations, as functions on the controller.                         *)

\* Mutant of NewInstance: the child link starts as an absent entry, not as 0.
NewInstanceNoChild(d, rights, parent) ==
  [owner |-> d, rights |-> rights, on |-> FALSE, vector |-> 0, pending |-> {},
   parent |-> parent, child |-> NoInstance, mask |-> Irq]

\* A new InterruptInstance: disabled, no vector, every IRQ delegable.
NewInstance(d, rights, parent) ==
  [owner |-> d, rights |-> rights, on |-> FALSE, vector |-> 0, pending |-> {},
   parent |-> parent, child |-> NoInstanceHandle, mask |-> Irq]

\* request: the parent's child_handle is overwritten.
Requested(c, d, rights, parent) ==
  LET h == c.next
      added == [c.inst EXCEPT ![h] = NewInstance(d, rights, parent)]
  IN  [c EXCEPT !.next = h + 1,
                !.lists[d] = Append(@, h),
                !.inst = IF Exists(c, parent) THEN [added EXCEPT ![parent].child = h]
                         ELSE added]

\* Mutants of Released: the domain's list keeps the handle; the parent keeps
\* its child_handle.
ReleasedStaysListed(c, h) ==
  LET p == c.inst[h].parent
      gone == [c.inst EXCEPT ![h] = NoInstance]
  IN  [c EXCEPT !.inst = IF Exists(c, p) THEN [gone EXCEPT ![p].child = NoInstanceHandle]
                         ELSE gone]

ReleasedKeepingLink(c, h) ==
  [c EXCEPT !.lists[c.inst[h].owner] = RemoveFirst(@, h),
            !.inst = [c.inst EXCEPT ![h] = NoInstance]]

\* release: the parent's child_handle is cleared, whichever child it names;
\* global_pending is left as it is.
Released(c, h) ==
  LET p == c.inst[h].parent
      gone == [c.inst EXCEPT ![h] = NoInstance]
  IN  [c EXCEPT !.lists[c.inst[h].owner] = RemoveFirst(@, h),
                !.inst = IF Exists(c, p) THEN [gone EXCEPT ![p].child = NoInstanceHandle]
                         ELSE gone]

\* enable and disable; set_vector.
Switched(c, h, on) == [c EXCEPT !.inst[h].on = on]
Vectored(c, h, v) == [c EXCEPT !.inst[h].vector = v]

\* trigger_irq.
Triggered(c, h, i) == [c EXCEPT !.inst[h].pending = @ \cup {i}, !.pending = TRUE]

\* Mutant of Cleared: the global flag goes down with the bit.
ClearedFlag(c, h, i) == [c EXCEPT !.inst[h].pending = @ \ {i}, !.pending = FALSE]

\* clear_pending and _update_global_pending.
Cleared(c, h, i) ==
  LET cleared == [c.inst EXCEPT ![h].pending = @ \ {i}]
  IN  [c EXCEPT !.inst = cleared,
                !.pending = \E k \in Instance :
                              cleared[k] # NoInstance /\ cleared[k].pending # {}]

\* check_interrupt_with_priority, once the priority admits an IRQ: the first
\* instance of the domain, in order of request, that is enabled and pending.
FirstReady(c, d) ==
  LET ready == {i \in DOMAIN c.lists[d] :
                  LET h == c.lists[d][i] IN c.inst[h].on /\ c.inst[h].pending # {}}
  IN  IF c.pending /\ ready # {} THEN c.lists[d][Min(ready)] ELSE NoInstanceHandle

NextIrq(c, h) == Min(c.inst[h].pending)

\* Mutant of CanDelegate: the walk skips the receiver's own mask.
DelegatesFromParent(c, from, to, i) ==
  LET open[h \in 0 .. MaxInstance] ==
        \/ ~Exists(c, h)
        \/ h = from
        \/ i \in c.inst[h].mask /\ open[c.inst[h].parent]
  IN  Exists(c, to) /\ (to = from \/ open[c.inst[to].parent])

\* can_delegate_irq: the walk from the receiver towards the root ends at the
\* delegator, at handle 0 or at a released instance.
CanDelegate(c, from, to, i) ==
  LET open[h \in 0 .. MaxInstance] ==
        \/ ~Exists(c, h)
        \/ h = from
        \/ i \in c.inst[h].mask /\ open[c.inst[h].parent]
  IN  Exists(c, to) /\ open[to]

-----------------------------------------------------------------------------
(* The actions.  Software passes request a parent handle it was given, so  *)
(* an earlier one; the code does not check, and with a later one           *)
(* can_delegate_irq may walk in a circle (interrupt.py:252-265).           *)

Request(d, rights, parent) ==
  /\ ic.next <= MaxInstance
  /\ parent < ic.next
  /\ ic' = Requested(ic, d, rights, parent)

Release(h) == Exists(ic, h) /\ ic' = Released(ic, h)

Enable(h) == Has(ic, h, "enable") /\ ic' = Switched(ic, h, TRUE)

Disable(h) == Has(ic, h, "enable") /\ ic' = Switched(ic, h, FALSE)

SetVector(h, v) == Has(ic, h, "config") /\ ic' = Vectored(ic, h, v)

SetPermissionMask(h, m) == Exists(ic, h) /\ ic' = [ic EXCEPT !.inst[h].mask = m]

TriggerIrq(h, i) == Exists(ic, h) /\ ic' = Triggered(ic, h, i)

ClearPending(h, i) == Exists(ic, h) /\ ic' = Cleared(ic, h, i)

\* sgi: the delegation masks are not consulted.
Sgi(from, to, i) == Has(ic, from, "sgi") /\ Exists(ic, to) /\ ic' = Triggered(ic, to, i)

\* What a core does when it takes an interrupt for domain d
\* (isa_simple.py:1210-1244).
Deliver(d) ==
  LET h == FirstReady(ic, d)
  IN  /\ h # NoInstanceHandle
      /\ ic.inst[h].vector # 0
      /\ ic' = Cleared(ic, h, NextIrq(ic, h))

IrqNext ==
  \/ \E d \in Owner, rights \in Grant, p \in 0 .. MaxInstance : Request(d, rights, p)
  \/ \E h \in Instance : Release(h)
  \/ \E h \in Instance : Enable(h)
  \/ \E h \in Instance : Disable(h)
  \/ \E h \in Instance, v \in Handler \cup {0} : SetVector(h, v)
  \/ \E h \in Instance, m \in SUBSET Irq : SetPermissionMask(h, m)
  \/ \E h \in Instance, i \in Irq : TriggerIrq(h, i)
  \/ \E h \in Instance, i \in Irq : ClearPending(h, i)
  \/ \E f, t \in Instance, i \in Irq : Sgi(f, t, i)
  \/ \E d \in Owner : Deliver(d)

IrqSpec == IrqInit /\ [][IrqNext]_ic

-----------------------------------------------------------------------------
(* Properties.                                                             *)

InstanceRecord ==
  [owner : Owner, rights : Grant, on : BOOLEAN, vector : Handler \cup {0},
   pending : SUBSET Irq, parent : 0 .. MaxInstance, child : 0 .. MaxInstance,
   mask : SUBSET Irq]

\* An absent entry is not an instance.
ASSUME NoInstanceAssumption == NoInstance \notin InstanceRecord

\* The type invariant: instances are records or absent, handles are dense.
IrqTypeOK ==
  ic \in [inst : [Instance -> InstanceRecord \cup {NoInstance}],
          lists : [Owner -> Seq(Instance)],
          next : 1 .. MaxInstance + 1,
          pending : BOOLEAN]

\* A pending interrupt is never hidden behind a lowered global_pending, the
\* flag the core looks at first (interrupt.py:495).
NoneHidden ==
  (\E h \in Instance : Exists(ic, h) /\ ic.inst[h].pending # {}) => ic.pending

\* The list of a domain holds exactly its live instances, in the order they
\* were requested: none is searched after its release, none is missed.
ListsExact ==
  \A d \in Owner :
    /\ ToSet(ic.lists[d]) = {h \in Instance : Exists(ic, h) /\ ic.inst[h].owner = d}
    /\ \A j, k \in DOMAIN ic.lists[d] : j < k => ic.lists[d][j] < ic.lists[d][k]

\* A child_handle that is set names a live instance that names this parent,
\* however siblings are requested and released.
ChildLinkSound ==
  \A h \in Instance : Exists(ic, h) /\ ic.inst[h].child # NoInstanceHandle =>
    /\ Exists(ic, ic.inst[h].child)
    /\ ic.inst[ic.inst[h].child].parent = h

\* Delegation can be judged link by link: what a may delegate to its
\* descendant b, and b to its descendant c, a may delegate to c.
DelegationComposes ==
  \A a, b, c \in Instance, i \in Irq :
    CanDelegate(ic, a, b, i) /\ CanDelegate(ic, b, c, i)
      => CanDelegate(ic, a, c, i)
=============================================================================
