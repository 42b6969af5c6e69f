---------------------------- MODULE MCLayerTiles ----------------------------
(***************************************************************************)
(* An instance of LayerTiles for TLC: two categories, one or two layers at *)
(* the start and others to create, a browser with the URL of two layers or *)
(* of a category.                                                          *)
(***************************************************************************)
EXTENDS LayerTiles

CONSTANTS l1, l2, l3,  \* layers
          c1, c2,      \* categories
          b1,          \* a browser
          j1           \* an invalidation

A == <<"a">>
AB == <<"a", "b">>
C == <<"c">>
D == <<"d">>
BC == <<"b", "c">>

\* Two of the six keys are one: a_b + c and a + b_c.
MCCategoryNames == {A, AB, D}
MCLayerNames == {C, BC}
MCFirstNames == [c \in {c1, c2} |-> IF c = c1 THEN A ELSE D]
MCTwoLayers ==
    << [id |-> l1, category |-> c1, name |-> C, published |-> TRUE, gen |-> 0],
       [id |-> l2, category |-> c1, name |-> BC, published |-> TRUE, gen |-> 0] >>

\* A composite tile of two layers over Redis; the tile of a category, which has
\* one layer at first, over disk.
MCSetups ==
    { [mode |-> "redis",
       url |-> [b \in Browsers |->
                  [kind |-> "list", places |-> << [category |-> A, name |-> C],
                                                  [category |-> A, name |-> BC] >>]],
       catalog |-> MCTwoLayers],
      [mode |-> "disk",
       url |-> [b \in Browsers |-> [kind |-> "category", category |-> A]],
       catalog |-> SubSeq(MCTwoLayers, 1, 1)] }

=============================================================================
