--------------------------- MODULE PairedIterator ---------------------------
(***************************************************************************)
(* CombinedIterator.h: two ranges that an algorithm of the standard        *)
(* library sorts as one.  The iterator has a place in each; a reference    *)
(* stands for the two elements there and compares by the first, a value is *)
(* the pair read from it.  The algorithms, a reversal by swaps and an      *)
(* insertion sort by moves, are external.                                  *)
(*                                                                         *)
(* SwapsFirst and MovesFirst are faulty variants of the definitions below  *)
(* them and are used by nothing here.                                      *)
(***************************************************************************)
EXTENDS Integers, Sequences, SequencesExt, FiniteSets

Begin == [it1 |-> 1, it2 |-> 1]

MovesFirst(p, n) == [p EXCEPT !.it1 = @ + n]
Plus(p, n)       == [it1 |-> p.it1 + n, it2 |-> p.it2 + n]
Minus(p, q)      == p.it1 - q.it1
Before(p, q)     == p.it1 < q.it1

\* operator*, its conversion to a value, its assignments, and swap.
Value(r, p)     == [first |-> r.first[p.it1], second |-> r.second[p.it2]]
Assign(r, p, v) == [first |-> [r.first EXCEPT ![p.it1] = v.first], second |-> [r.second EXCEPT ![p.it2] = v.second]]
Move(r, p, q)   == Assign(r, p, Value(r, q))

SwapsFirst(r, p, q) == [r EXCEPT !.first = [@ EXCEPT ![p.it1] = r.first[q.it1], ![q.it1] = r.first[p.it1]]]
Swap(r, p, q)       == Assign(Move(r, p, q), q, Value(r, p))

Less(v, w) == v.first < w.first

-----------------------------------------------------------------------------
(* Algorithms *)

Size(r)     == Len(r.first)
At(k)       == Plus(Begin, k)
Down(a, b)  == [i \in 1..(a - b + 1) |-> a - i + 1]

Reversal(r) ==
    FoldLeft(LAMBDA s, k : IF Before(At(k), At(Size(r) - 1 - k)) THEN Swap(s, At(k), At(Size(r) - 1 - k)) ELSE s,
             r, [i \in 1..Size(r) |-> i - 1])

\* The pair at place k goes before every greater one behind which it stands.
Inserted(r, k) ==
    LET v     == Value(r, At(k))
        stays == {j \in 0..(k - 1) : ~Less(v, Value(r, At(j)))}
        to    == Cardinality(stays) IN
    Assign(FoldLeft(LAMBDA s, j : Move(s, At(j + 1), At(j)), r, Down(k - 1, to)), At(to), v)

Sorted(r) == FoldLeft(Inserted, r, [i \in 1..(Size(r) - 1) |-> i])

-----------------------------------------------------------------------------
(* Property *)

\* Whatever an algorithm does through the iterator, both ranges are permuted
\* alike: no element loses the partner it had.  Sorting orders them by the
\* first and leaves equal ones in their order; places as far apart in one range
\* are so in the other.
PartnersStay(first, second) ==
    LET r == [first |-> first, second |-> second]
        Pairs(s)    == [i \in DOMAIN first |-> <<s.first[i], s.second[i]>>]
        Count(s, x) == Cardinality({i \in DOMAIN first : Pairs(s)[i] = x}) IN
    /\ Pairs(Reversal(r)) = Reverse(Pairs(r))
    /\ \A x \in ToSet(Pairs(r)) : Count(Sorted(r), x) = Count(r, x)
    /\ \A i, j \in DOMAIN first : i < j => Sorted(r).first[i] <= Sorted(r).first[j]
    /\ \A k, n \in 0..Size(r) : Minus(Plus(At(k), n), At(k)) = n /\ Plus(Plus(At(k), n), -n) = At(k)
=============================================================================
