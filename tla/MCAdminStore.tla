----------------------------- MODULE MCAdminStore -----------------------------
(***************************************************************************)
(* Instances of AdminStore for TLC: two handlers at a time.                *)
(***************************************************************************)
EXTENDS AdminStore, TLC

CONSTANTS t1, t2,  \* tasks
          g1, g2   \* groups

Interchangeable == Permutations(Tasks)

=============================================================================
