------------------------------- MODULE Machine -------------------------------
(***************************************************************************)
(* Machine (src/rpa_sim/machine.py): the embedding program steps the core  *)
(* and may, between two steps or after the core has halted, load a DCB and *)
(* transfer control itself.  descend and ascend go straight to RPALogic:   *)
(* the core saves no context, and its domain_block_addr, chain and pc stay *)
(* those of the domain that was current before.                            *)
(*                                                                         *)
(* Left out: reset, which starts over from a new machine; the calls that   *)
(* set registers and memory for no purpose of the machine's own; and the   *)
(* ones that raise (see the hazards).                                      *)
(***************************************************************************)
EXTENDS Core

\* load_domain_block of a DCB without a live domain, with write_memory of the
\* entry point.
HostLoad(b, v) ==
  /\ T!PrepareBlock(b, v)
  /\ frame' = [frame EXCEPT ![b].resume = Code(b)]
  /\ UNCHANGED <<ic, cpu>>

\* Machine.descend.
HostDescend(b) ==
  /\ T!DescendReturn(b) \/ T!DescendFirst(b)
  /\ UNCHANGED <<ic, cpu, frame>>

\* Machine.ascend; in the root it raises and nothing has happened.
HostAscend ==
  /\ T!Ascend
  /\ UNCHANGED <<ic, cpu, frame>>

MachineNext ==
  \/ CoreNext
  \/ \E b \in Block, v \in T!Word : HostLoad(b, v)
  \/ \E b \in Block : HostDescend(b)
  \/ HostAscend

MachineSpec == CoreInit /\ [][MachineNext]_coreVars

-----------------------------------------------------------------------------
(* Properties.  ResumesOwnCode survives the host's transfers; CoreInStep    *)
(* does not: after HostDescend the core goes on in the parent's code and    *)
(* names the parent's DCB.                                                  *)

\* The core is out of step only until it next transfers control itself: every
\* DESCEND, RETURN, ASCEND and EXIT it completes brings it back to the domain
\* RPALogic has made current (isa_simple.py:1334-1335, 1375-1376).
TransferRealigns ==
  [][(\E b \in Block : Descend(b)) \/ AscendOrExit => CoreInStep']_coreVars
=============================================================================
