------------------------------ MODULE MCRwLocks ------------------------------
(***************************************************************************)
(* Instances of RwLocks for TLC: some of the handlers, run by two or three *)
(* tasks.                                                                  *)
(***************************************************************************)
EXTENDS RwLocks, HandlerLocks, TLC

CONSTANTS t1, t2, t3  \* tasks

Scripts == [h \in Handlers |-> HandlerScript[h]]

AllLocks == {catalog, categories, auth, styles}

\* What a handler holds when it takes a lock is of a higher level.
Level == (categories :> 2) @@ (catalog :> 1) @@ (auth :> 0) @@ (styles :> 0)

Interchangeable == Permutations(Tasks)

=============================================================================
