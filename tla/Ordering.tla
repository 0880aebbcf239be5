------------------------------ MODULE Ordering ------------------------------
(***************************************************************************)
(* Python's sorted() and SQL's ORDER BY, and list comprehensions with an   *)
(* "if".  SetToSortSeq and SelectSeq say the same, but nothing can be      *)
(* proved about them: the provers know neither SortSeq nor SelectSeq.      *)
(***************************************************************************)
EXTENDS Naturals, FiniteSets, SequencesExt

\* The members of S in a sequence in which none comes before an earlier one.
Sorted(S, before(_, _)) ==
    CHOOSE s \in [1..Cardinality(S) -> S] :
        \A i, j \in 1..Cardinality(S) : i < j => s[i] # s[j] /\ ~before(s[j], s[i])

\* What seq has at these places
At(seq, places) ==
    LET order == Sorted(places, <) IN
    [k \in 1..Cardinality(places) |-> seq[order[k]]]

\* The elements of seq that pass the test, in their order.
Select(seq, passes(_)) == At(seq, {i \in 1..Len(seq) : passes(seq[i])})
=============================================================================
