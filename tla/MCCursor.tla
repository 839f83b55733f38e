------------------------------ MODULE MCCursor ------------------------------
(* Small instances of Cursor for TLC. *)
EXTENDS Cursor, TLC

CONSTANTS own, s1, s2

\* One result set with a handle of its own beside two that share one.
SomeTypes == own :> {"select", "dml"} @@ s1 :> {"select"} @@ s2 :> {"select"}
=============================================================================
