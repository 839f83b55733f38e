---------------------------- MODULE MCHandshake ----------------------------
EXTENDS Handshake

Unread(v) == [ok |-> FALSE, value |-> v]
Read(v) == [ok |-> TRUE, value |-> v]

Good == [parses |-> TRUE, scheme |-> TRUE, port |-> TRUE, database |-> TRUE,
         timeout |-> Unread(0), autocommit |-> Unread(FALSE)]

\* Timeouts that are missing, negative, zero and positive (in ticks), every autocommit, and
\* one DSN for each way of being invalid.
SomeDSNs ==
  {[Good EXCEPT !.timeout = t, !.autocommit = a] :
     t \in {Unread(0)} \cup {Read(n) : n \in -1..3}, a \in {Unread(FALSE), Read(TRUE), Read(FALSE)}}
  \cup {[Good EXCEPT !.parses = FALSE], [Good EXCEPT !.scheme = FALSE],
         [Good EXCEPT !.port = FALSE], [Good EXCEPT !.database = FALSE]}
=============================================================================
