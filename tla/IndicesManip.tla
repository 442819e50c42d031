---------------------------- MODULE IndicesManip ----------------------------
(***************************************************************************)
(* IndicesCombinationIterator: the subsets of a given size of a list of    *)
(* indices, in lexicographic order of their positions.                     *)
(*                                                                         *)
(* The state of an iterator is its coord_ (positions in the base list,     *)
(* counted from 1) and its carry_; the base list and the size do not       *)
(* change, and current_ is the list of the elements at coord_.             *)
(***************************************************************************)
EXTENDS Integers, Sequences

\* The positions an iterator of size n over a list of len elements can hold:
\* each leaves room for those before and after it.
Coords(len, n) ==
  {c \in [1..n -> 1..len] :
     \A i, j \in 1..n : i < j => c[j] - c[i] >= j - i}

\* setFirst.  The constructor refuses n > len.
First(n) == [coord |-> [i \in 1..n |-> i], carry |-> FALSE]

\* Mutant: a position may move one place too far.
MovableTooFar(it, len, n) == {i \in 1..n : it.coord[i] <= len + i - n}

\* The positions that can still move up.
Movable(it, len, n) == {i \in 1..n : it.coord[i] < len + i - n}

\* next: the last position that can move does, and those after it follow it
\* closely; when none can, the enumeration is over.
Advance(it, len, n) ==
  LET movable == Movable(it, len, n)
  IN  IF movable = {} THEN [it EXCEPT !.carry = TRUE]
      ELSE LET i == CHOOSE m \in movable : \A k \in movable : k <= m
           IN  [it EXCEPT !.coord =
                  [j \in 1..n |-> IF j < i THEN it.coord[j]
                                  ELSE it.coord[i] + 1 + (j - i)]]

\* isLast
IsLast(it) == it.carry

\* current
Current(it, base) == [i \in DOMAIN it.coord |-> base[it.coord[i]]]
=============================================================================
