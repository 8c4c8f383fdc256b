-------------------------- MODULE MCFestivalService --------------------------
(***************************************************************************)
(* Small instances of FestivalService.                                     *)
(***************************************************************************)
EXTENDS FestivalService, TLC

Instants == 0 .. 2
Frozen   == {0, 2}     \* no instant follows another

W(from, to) == [starts_at |-> from, ends_at |-> to]

\* A window that is empty, and two that become past while the clock runs.
ThreeWindows == {W(1, 1), W(0, 1), W(0, 2)}
OneWindow  == {W(0, 2)}

\* Safety only: permuting the requests, or the games, permutes behaviours.
Symmetry == Permutations(Requests) \cup Permutations(Games)
=============================================================================
