---------------------------- MODULE MCConfigSync ----------------------------
(***************************************************************************)
(* Instances of ConfigSync for TLC: one or two processes that share one    *)
(* SQLite file, and two admin requests.                                    *)
(***************************************************************************)
EXTENDS ConfigSync, TLC

CONSTANTS p1, p2,                            \* processes
          r1, r2,                            \* admin requests
          catalog, categories, auth, styles  \* the in-memory states

HostEach == (r1 :> p1) @@ (r2 :> p2)

\* Catalog::{add,update,delete}_layer and Auth::{create,update,delete}_user run
\* on a write guard; Category and Group take it last; Style reloads.
HandlerDiscipline ==
    [t \in Tables |-> CASE t \in {catalog, auth} -> "locked"
                        [] t = categories -> "unlocked"
                        [] t = styles -> "reload"]

SnapshotOrder ==
    [t \in Tables |-> CASE t = catalog -> 1 [] t = categories -> 2
                        [] t = auth -> 3 [] t = styles -> 4]
StartOrder ==
    [t \in Tables |-> CASE t = auth -> 1 [] t = catalog -> 2
                        [] t = categories -> 3 [] t = styles -> 4]

=============================================================================
