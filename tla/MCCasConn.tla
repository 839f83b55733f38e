----------------------------- MODULE MCCasConn -----------------------------
(***************************************************************************)
(* Small instances of CasConn for TLC.  Watchers, handles and contexts of  *)
(* the same kind are interchangeable; no symmetry is used for liveness.    *)
(***************************************************************************)
EXTENDS CasConn, TLC

Symmetry ==
  Permutations(Watcher) \cup Permutations(Handle)
    \cup Permutations(HasDeadline) \cup Permutations(Ctx \ HasDeadline)
=============================================================================
