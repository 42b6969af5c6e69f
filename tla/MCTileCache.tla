---------------------------- MODULE MCTileCache ----------------------------
(***************************************************************************)
(* Instances of TileCache for TLC: two processes, two browsers, two tiles. *)
(***************************************************************************)
EXTENDS TileCache, TLC

CONSTANTS p1, p2,  \* processes
          b1, b2,  \* browsers
          k1, k2,  \* tiles
          j1, j2   \* invalidations

\* The tiles and the invalidations are interchangeable, and so are the browsers
\* where none or all of them keep responses.
Interchangeable == Permutations({k1, k2}) \cup Permutations({j1, j2})
AllInterchangeable == Interchangeable \cup Permutations({b1, b2})

=============================================================================
