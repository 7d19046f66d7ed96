--------------------------- MODULE MCTranslation ---------------------------
(* Translation on two pages and two tables, which are interchangeable.      *)
EXTENDS Translation, FiniteSets, TLC

\* Ordinary, read-only and control pages.
ThreeAttributes == {[rights |-> {"r", "w"}, control |-> FALSE],
                    [rights |-> {"r"}, control |-> FALSE],
                    [rights |-> {"r", "w"}, control |-> TRUE]}

\* A table with two regions: the first byte of the first page, and the second
\* page, which is one word.
ByteAndWord == {{[base |-> 0, size |-> 1], [base |-> 4, size |-> 4]}}

TableSymmetry == Permutations(Base)

\* Bound: at most two pages are mapped at a time.
MappedBound ==
  Cardinality({bp \in Base \X Page : /\ tables[bp[1]] # None
                                    /\ tables[bp[1]].entries[bp[2]] # None}) <= 2
=============================================================================
