--------------------------- MODULE MCCatalogSync ---------------------------
(***************************************************************************)
(* Small instances of CatalogSync.                                         *)
(***************************************************************************)
EXTENDS CatalogSync, TLC

CONSTANTS f1, g1, p1

Instants  == 0 .. 1
OneWindow == {[starts_at |-> 0, ends_at |-> 1]}

OfGame(type, g, title) == [kind |-> "known", type |-> type, game |-> g, title |-> title]
OfPromotion(type, f, g) ==
  [kind |-> "known", type |-> type, promotion |-> p1, festival |-> f, game |-> g]

\* Messages of every type, with a title, without one or with none in the payload.
AllMessages ==
  {OfGame("GamePublished", g1, "old"), OfGame("GameWithdrawn", g1, ""),
   OfGame("GameRelisted", g1, "")}
    \cup {OfGame("GameUpdated", g1, title) : title \in {"", "new", Null}}
    \cup {OfPromotion(type, f1, g1) : type \in PromotionTypes}

\* A proposal, its approval, and an approval that belongs to no festival.
Decisions ==
  {OfGame("GamePublished", g1, "old"), OfGame("GameWithdrawn", g1, "")}
    \cup {OfPromotion(type, f1, g1) : type \in {"PromotionProposed", "PromotionApproved"}}
    \cup {OfPromotion("PromotionApproved", Null, g1)}

\* Safety only.
Symmetry == Permutations(Replicas)
=============================================================================
