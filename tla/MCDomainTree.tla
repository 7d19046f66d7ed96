---------------------------- MODULE MCDomainTree ----------------------------
(* DomainTree on a few blocks.  Blocks are interchangeable.                 *)
EXTENDS DomainTree, TLC

BlockSymmetry == Permutations(Block)
=============================================================================
