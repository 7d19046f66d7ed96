------------------------------- MODULE MCCore -------------------------------
(* Core on a few blocks, all with a page table: they are interchangeable.   *)
EXTENDS Core, TLC

BlockSymmetry == Permutations(Block)

\* A long history of domains with few interrupt instances, or the reverse:
\* either MaxDomains or MaxInstance is reached, not both at once.
CreationBound == nObj + (ic.next - 1) < MaxDomains + MaxInstance
=============================================================================
