------------------------- MODULE MCFestivalAggregate -------------------------
(***************************************************************************)
(* A small instance of FestivalAggregate.                                  *)
(***************************************************************************)
EXTENDS FestivalAggregate, TLC

CONSTANT MaxVersion   \* bound: no festival is written beyond this version

W(from, to) == [starts_at |-> from, ends_at |-> to]

Instants == 0 .. 2

\* Two windows that are valid early on and one that ends as it starts.
MCWindows == {W(0, 1), W(0, 2), W(1, 1)}

Bounded == \A f \in Festivals : rows[f] = Absent \/ rows[f].version < MaxVersion

Symmetry == Permutations(Games)
=============================================================================
