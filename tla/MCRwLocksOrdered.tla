--------------------------- MODULE MCRwLocksOrdered ---------------------------
(***************************************************************************)
(* The hypothesis of the deadlock theorem, evaluated on the real scripts.  *)
(***************************************************************************)
EXTENDS MCRwLocks

ASSUME HandlersAreOrdered ==
    /\ \A h \in DOMAIN OrderedScript : Ordered(OrderedScript[h], Level)
    /\ \A h \in DOMAIN OtherScript : ~Ordered(OtherScript[h], Level)

=============================================================================
