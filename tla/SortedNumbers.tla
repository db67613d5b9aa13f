--------------------------- MODULE SortedNumbers ---------------------------
(***************************************************************************)
(* The members of a finite set of numbers in ascending order, as a sequence *)
(* the proofs can speak of: the provers know no definition of the SortSeq   *)
(* that SetToSortSeq of the community modules is built from.                *)
(***************************************************************************)
EXTENDS Integers, FiniteSets

Below(S, x) == {y \in S : y < x}

\* The i-th member has i - 1 others below it.
Sorted(S) ==
    [i \in 1 .. Cardinality(S) |-> CHOOSE x \in S : Cardinality(Below(S, x)) = i - 1]

=============================================================================
