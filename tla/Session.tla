------------------------------ MODULE Session ------------------------------
(***************************************************************************)
(* What a connection of this driver promises to database/sql, the caller   *)
(* of all its methods: when work reaches the server, in which auto-commit  *)
(* mode, and what a result says about it.  CasConn implements it (contexts,*)
(* sockets, handles and watchers disappear); Pool builds on it.            *)
(*                                                                         *)
(* A call sends one request that matters (a statement, or the end of a     *)
(* transaction), then perhaps some that tidy up: after a statement, SELECT *)
(* LAST_INSERT_ID() ("id", which the server runs like a statement) and     *)
(* FC=6.  A connection is "lost" once a call has given up on an answer:    *)
(* from then on an answer may be taken for another request's.              *)
(***************************************************************************)
EXTENDS Sequences

CONSTANTS
  Conn,   \* connections
  Job,    \* the units of work statements are executed for
  None    \* no job

VARIABLE sess   \* the connections' sessions

Ends == {"commit", "rollback"}
Kinds == Ends \cup {"stmt", "begin", "other"}
Results == {"none", "nil", "err", "ctx", "badconn"}
Request == [kind : Ends \cup {"stmt", "id", "aux"}, ac : BOOLEAN, job : Job \cup {None}]

SessionType ==
  [closed : BOOLEAN,     \* conn.closed
   ac : BOOLEAN,         \* conn.autoCommit
   tx : BOOLEAN,         \* database/sql has a Tx on it
   busy : BOOLEAN,       \* a call is in progress: its, or the last call's...
   kind : Kinds,         \* ... kind,
   job : Job \cup {None},
   res : Results,        \* result ("none": not known yet),
   sent : BOOLEAN,       \* and whether it waits for an answer
   req : Seq(Request),   \* requests the server has not served
   ans : {"none", "ok", "no"},  \* its answer, not yet taken
   tran : SUBSET Job,    \* work of the open transaction
   up : BOOLEAN,         \* the server is there
   lost : BOOLEAN]       \* out of step

\* A connection as Driver.Open returns it, in the DSN's auto-commit mode.
New(ac, j) ==
  [closed |-> FALSE, ac |-> ac, tx |-> FALSE, busy |-> FALSE, kind |-> "begin", job |-> j,
   res |-> "nil", sent |-> FALSE, req |-> <<>>, ans |-> "none", tran |-> {}, up |-> TRUE,
   lost |-> FALSE]

Init == \E ac \in BOOLEAN, j \in Job \cup {None} : sess = [c \in Conn |-> New(ac, j)]

\* A call that needs the server.  Only the methods of stmt, rows and tx and
\* ServerVersion start on a closed connection, and they fail.
Start(c, k, j) ==
  LET s == sess[c] IN
  /\ ~s.busy
  /\ k \in {"stmt", "begin"} => ~s.closed
  /\ k = "begin" => ~s.tx
  /\ k \in Ends => s.tx
  /\ sess' = [sess EXCEPT ![c] = [s EXCEPT !.busy = TRUE, !.kind = k, !.job = j,
                !.res = IF k \in Ends \cup {"stmt"} THEN "none" ELSE "nil",
                !.tx = s.tx /\ k \notin Ends]]

\* A call that returns at once: driver.ErrBadConn says that the connection is
\* closed and that nothing was sent, so that the call may be made elsewhere.
Refuse(c, k, j, r) ==
  LET s == sess[c] IN
  /\ ~s.busy
  /\ k \notin Ends
  /\ IF s.closed THEN r = "badconn" ELSE r \in {"err", "ctx"}
  /\ sess' = [sess EXCEPT ![c] = [s EXCEPT !.kind = k, !.job = j, !.res = r]]

\* Fault: Begin leaves auto-commit on.
BeginKeepsAutoCommit(c, j) ==
  LET s == sess[c] IN
  /\ ~s.closed /\ ~s.tx
  /\ s.busy => s.kind = "begin" /\ s.res = "nil"
  /\ sess' = [sess EXCEPT ![c] = [s EXCEPT !.kind = "begin", !.job = j, !.res = "nil", !.tx = TRUE]]

\* Begin and BeginTx: no request, the flag goes with the statements.
Begin(c, j) ==
  LET s == sess[c] IN
  /\ ~s.closed /\ ~s.tx
  /\ s.busy => s.kind = "begin" /\ s.res = "nil"
  /\ sess' = [sess EXCEPT ![c] = [s EXCEPT !.kind = "begin", !.job = j, !.res = "nil",
                !.ac = FALSE, !.tx = TRUE]]

\* The request that matters first, then those that tidy up (the server's
\* version may be asked for with the flag set); one at a time.
Send(c) ==
  LET s == sess[c] IN
  /\ s.busy /\ ~s.sent /\ ~s.closed /\ s.kind # "begin"
  /\ \E k \in IF s.res = "none" THEN {s.kind} ELSE {"aux", "id"},
       ac \in {s.ac} \cup (IF s.kind = "other" THEN {TRUE} ELSE {}) :
       /\ k = "id" => s.kind = "stmt"
       /\ sess' = [sess EXCEPT ![c] = [s EXCEPT !.sent = TRUE,
            !.req = IF s.up THEN Append(s.req, [kind |-> k, ac |-> ac, job |-> s.job]) ELSE s.req]]

\* The transaction after request q, which the server accepts or not: a
\* statement sent with the flag commits all there is.
TranAfter(t, q) ==
  CASE q.kind \in {"stmt", "id"} -> {IF q.ac THEN {} ELSE t \cup {q.job}}
    [] q.kind = "aux"            -> {t} \cup (IF q.ac THEN {{}} ELSE {})
    [] OTHER                     -> {{}}

Committed(t, q) ==
  CASE q.kind = "stmt" /\ q.ac -> t \cup {q.job}
    [] q.kind = "id" /\ q.ac   -> t
    [] q.kind = "commit"       -> t
    [] OTHER                   -> {}

Serve(c, ok) ==
  LET s == sess[c] IN
  /\ s.up /\ s.req # <<>>
  /\ \E t \in IF ok THEN TranAfter(s.tran, Head(s.req)) ELSE {s.tran} :
       sess' = [sess EXCEPT ![c] = [s EXCEPT !.req = Tail(s.req), !.tran = t,
                  !.ans = IF s.lost THEN "none" ELSE IF ok THEN "ok" ELSE "no"]]

\* Fault: Commit and Rollback do not turn auto-commit back on.
TakeKeepsManual(c, more) ==
  LET s == sess[c] IN
  /\ s.busy /\ s.sent /\ s.res = "none"
  /\ s.lost \/ s.ans = "ok"
  /\ sess' = [sess EXCEPT ![c] = [s EXCEPT !.busy = more, !.res = "nil", !.sent = FALSE, !.ans = "none"]]

\* The call's answer says that all is well: in step, only if it is so.  The
\* end of a transaction turns auto-commit back on, and nothing else does.
Take(c, more) ==
  LET s == sess[c] IN
  /\ s.busy /\ s.sent /\ s.res = "none"
  /\ s.lost \/ s.ans = "ok"
  /\ sess' = [sess EXCEPT ![c] = [s EXCEPT !.busy = more, !.res = "nil", !.sent = FALSE,
                !.ac = s.ac \/ s.kind \in Ends, !.ans = "none"]]

\* Whether the connection is lost when a round trip of s ends without a usable
\* answer: if it was sent, unless the answer was read or can no longer come.
GivesUp(s) ==
  IF s.lost THEN {TRUE}
  ELSE IF ~s.sent THEN {FALSE}
  ELSE IF s.up /\ s.ans = "none" THEN {TRUE} ELSE BOOLEAN

\* Fault: a broken connection is reported as driver.ErrBadConn, sent or not.
FailBadConn(c, more, r, lost) ==
  LET s == sess[c] IN
  /\ s.busy
  /\ s.res = "none" \/ s.kind \in {"begin", "other"}
  /\ lost \in GivesUp(s)
  /\ sess' = [sess EXCEPT ![c] = [s EXCEPT !.busy = more, !.res = IF s.up THEN r ELSE "badconn",
                !.sent = FALSE, !.lost = lost, !.ans = "none"]]

\* Fault: the end of the stream does not end a read.
FailNotAtEnd(c, more, r, lost) ==
  LET s == sess[c] IN
  /\ s.busy /\ (s.sent => s.up)
  /\ s.res = "none" \/ s.kind \in {"begin", "other"}
  /\ r \in {"err", "ctx"}
  /\ lost \in GivesUp(s)
  /\ sess' = [sess EXCEPT ![c] = [s EXCEPT !.busy = more, !.res = r, !.sent = FALSE,
                !.lost = lost, !.ans = "none"]]

\* The call fails, whatever became of its request: a context that is done, a
\* timeout (the answer is given up on), a transport error, the server's error.
Fail(c, more, r, lost) ==
  LET s == sess[c] IN
  /\ s.busy
  /\ s.res = "none" \/ s.kind \in {"begin", "other"}
  /\ r \in {"err", "ctx"} \/ (r = "badconn" /\ s.kind = "other")
  /\ lost \in GivesUp(s)
  /\ sess' = [sess EXCEPT ![c] = [s EXCEPT !.busy = more, !.res = r, !.sent = FALSE,
                !.lost = lost, !.ans = "none"]]

\* A round trip that tidies up ends, and nobody hears how.
Tidied(c, more, lost) ==
  LET s == sess[c] IN
  /\ s.busy /\ s.res # "none"
  /\ lost \in GivesUp(s)
  /\ sess' = [sess EXCEPT ![c] = [s EXCEPT !.busy = more, !.sent = FALSE, !.lost = lost,
                !.ans = "none"]]

\* The peer is gone, its transaction with it; an answer may still arrive.
Die(c) ==
  LET s == sess[c] IN
  /\ s.up
  /\ \E a \in {s.ans, "none"} :
       sess' = [sess EXCEPT ![c] = [s EXCEPT !.up = FALSE, !.req = <<>>, !.tran = {}, !.ans = a]]

Close(c) ==
  LET s == sess[c] IN
  /\ ~s.busy
  /\ sess' = [sess EXCEPT ![c] = [s EXCEPT !.closed = TRUE, !.kind = "other", !.res = "nil",
                !.up = FALSE, !.req = <<>>, !.tran = {}, !.ans = "none"]]
Idle(c) ==
  \/ \E k \in Kinds, j \in Job \cup {None} : Start(c, k, j)
  \/ \E k \in Kinds \ Ends, j \in Job \cup {None}, r \in {"badconn", "err", "ctx"} : Refuse(c, k, j, r)
  \/ Close(c)

Busy(c) ==
  \/ Send(c)
  \/ \E more \in BOOLEAN :
       \/ Take(c, more)
       \/ \E lost \in BOOLEAN :
            \/ Tidied(c, more, lost)
            \/ \E r \in {"badconn", "err", "ctx"} : Fail(c, more, r, lost)

Next ==
  \E c \in Conn :
    \/ ~sess[c].busy /\ Idle(c)
    \/ sess[c].busy /\ Busy(c)
    \/ \E j \in Job \cup {None} : Begin(c, j)
    \/ \E ok \in BOOLEAN : Serve(c, ok)
    \/ Die(c)

Spec == Init /\ [][Next]_sess
=============================================================================
