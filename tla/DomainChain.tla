---------------------------- MODULE DomainChain ----------------------------
(***************************************************************************)
(* What the domain tree promises to the software above it: the live        *)
(* domains form one chain from the root ("one DomainBlock per privilege    *)
(* level"), control moves along that chain one link at a time, a domain    *)
(* that ascended can be resumed, and only a running leaf can disappear.    *)
(***************************************************************************)
EXTENDS Integers

CONSTANTS Block, Zero

VARIABLES
  live,   \* addresses of the DCBs that have a live domain
  up,     \* block -> address of its parent's DCB (Zero where not live)
  at      \* the DCB of the running domain

chainVars == <<live, up, at>>

IsLeaf(a) == \A b \in live \ {Zero} : up[b] # a

ChainInit ==
  /\ live = {Zero}
  /\ up = [b \in Block |-> Zero]
  /\ at = Zero

\* First DESCEND: a leaf gets a child in an unused block, and control goes there.
Enter(b) ==
  /\ b \notin live
  /\ IsLeaf(at)
  /\ live' = live \cup {b}
  /\ up' = [up EXCEPT ![b] = at]
  /\ at' = b

\* Later DESCEND (RETURN): control goes to the existing child.
Resume(b) ==
  /\ b \in live
  /\ up[b] = at
  /\ at' = b
  /\ UNCHANGED <<live, up>>

\* ASCEND: control goes to the parent, the child stays.
Leave ==
  /\ at # Zero
  /\ at' = up[at]
  /\ UNCHANGED <<live, up>>

\* EXIT: a leaf gives up its block and control goes to the parent.
Release ==
  /\ at # Zero
  /\ IsLeaf(at)
  /\ live' = live \ {at}
  /\ up' = [up EXCEPT ![at] = Zero]
  /\ at' = up[at]

ChainNext ==
  \/ \E b \in Block : Enter(b) \/ Resume(b)
  \/ Leave
  \/ Release

ChainSpec == ChainInit /\ [][ChainNext]_chainVars
=============================================================================
