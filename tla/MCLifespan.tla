----------------------------- MODULE MCLifespan -----------------------------
(***************************************************************************)
(* A small instance of Lifespan.                                           *)
(***************************************************************************)
EXTENDS Lifespan

\* A release, the one after it, and one that has edited a file.
ThreeReleases == {<<"a", "b">>, <<"a", "b", "c">>, <<"a", "edited">>}
=============================================================================
