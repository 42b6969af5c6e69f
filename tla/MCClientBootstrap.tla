-------------------------- MODULE MCClientBootstrap --------------------------
(***************************************************************************)
(* An instance of ClientBootstrap for TLC: a client with the owner's       *)
(* secret and one without, and two users.                                  *)
(***************************************************************************)
EXTENDS ClientBootstrap

CONSTANTS c1, c2,        \* clients
          admin, editor  \* users

=============================================================================
