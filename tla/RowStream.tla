----------------------------- MODULE RowStream -----------------------------
(***************************************************************************)
(* What a result set promises the application: the tuples of its own       *)
(* execution, each once and in order, and io.EOF only after the last one.  *)
(***************************************************************************)
EXTENDS Naturals, Sequences

CONSTANTS
  Reader   \* the result sets (values of type rows)

VARIABLES
  avail,   \* how many tuples the execution behind each result set produced
  state,   \* "new", "open", "eof" or "closed"
  out      \* the tuples Next has returned

svars == <<avail, state, out>>

SInit ==
  /\ avail = [r \in Reader |-> 0]
  /\ state = [r \in Reader |-> "new"]
  /\ out = [r \in Reader |-> <<>>]

SOpen(r) ==
  /\ state[r] = "new"
  /\ avail' \in [Reader -> Nat]
  /\ \A q \in Reader \ {r} : avail'[q] = avail[q]
  /\ state' = [state EXCEPT ![r] = "open"]
  /\ UNCHANGED out

\* The next tuple, tuple number Len(out[r]) + 1 of execution r.
SDeliver(r) ==
  /\ state[r] = "open" /\ Len(out[r]) < avail[r]
  /\ out' = [out EXCEPT ![r] = Append(@, <<r, Len(@) + 1>>)]
  /\ UNCHANGED <<avail, state>>

SEof(r) ==
  /\ state[r] = "open" /\ Len(out[r]) = avail[r]
  /\ state' = [state EXCEPT ![r] = "eof"]
  /\ UNCHANGED <<avail, out>>

SClose(r) ==
  /\ state[r] \in {"open", "eof"}
  /\ state' = [state EXCEPT ![r] = "closed"]
  /\ UNCHANGED <<avail, out>>

SNext == \E r \in Reader : SOpen(r) \/ SDeliver(r) \/ SEof(r) \/ SClose(r)

SSpec == SInit /\ [][SNext]_svars
=============================================================================
