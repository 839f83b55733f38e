----------------------------- MODULE PoolProofs -----------------------------
(***************************************************************************)
(* Theorems about Pool, for any number of connections and jobs.            *)
(***************************************************************************)
EXTENDS Pool, SequenceTheorems, TLAPS

Jobs == Job \cup {None}

-----------------------------------------------------------------------------
(***************************************************************************)
(* What each step of a session changes.                                    *)
(***************************************************************************)

\* Only the session of c changes, to one that differs from the old one in
\* what Driver.Open, or the server, or a call sets.
Only(c) ==
  /\ sess' \in [Conn -> SessionType]
  /\ \A d \in Conn \ {c} : sess'[d] = sess[d]

\* Only job j moves on.
OnlyJob(j) ==
  /\ job' \in [Job -> JobType]
  /\ \A i \in Job \ {j} : job'[i] = job[i]

SameLink(s, t) == t.closed = s.closed /\ t.up = s.up /\ t.tran = s.tran
SameCall(s, t) == t.busy = s.busy /\ t.kind = s.kind /\ t.job = s.job /\ t.res = s.res /\ t.sent = s.sent
SameMode(s, t) == t.ac = s.ac /\ t.tx = s.tx

\* A call has begun.
Started(c, k, j) ==
  LET s == sess[c] t == sess'[c] IN
  /\ Only(c)
  /\ SameLink(s, t) /\ t.req = s.req /\ t.ans = s.ans /\ t.lost = s.lost /\ t.ac = s.ac
  /\ ~s.busy /\ t.busy /\ t.kind = k /\ t.job = j /\ t.sent = s.sent
  /\ t.res = (IF k \in Ends \cup {"stmt"} THEN "none" ELSE "nil")
  /\ t.tx = (s.tx /\ k \notin Ends)
  /\ k \in Ends => s.tx

\* ... was refused.
RefusedWith(c, k, j, r) ==
  LET s == sess[c] t == sess'[c] IN
  /\ Only(c)
  /\ SameLink(s, t) /\ SameMode(s, t) /\ t.req = s.req /\ t.ans = s.ans /\ t.lost = s.lost
  /\ ~s.busy /\ ~t.busy /\ t.kind = k /\ t.job = j /\ t.res = r /\ t.sent = s.sent
  /\ r = "badconn" => s.closed

\* ... began a Tx.
Begun(c, j) ==
  LET s == sess[c] t == sess'[c] IN
  /\ Only(c)
  /\ SameLink(s, t) /\ t.req = s.req /\ t.ans = s.ans /\ t.lost = s.lost
  /\ t.busy = s.busy /\ t.kind = "begin" /\ t.job = j /\ t.res = "nil" /\ t.sent = s.sent
  /\ ~s.tx /\ t.tx /\ ~t.ac

\* What the session has to send next: the request that matters, or one that tidies up.
Due(s) == IF s.res = "none" THEN {s.kind} ELSE {"id", "aux"}

\* ... sent a request.
Sent(c) ==
  LET s == sess[c] t == sess'[c] IN
  /\ Only(c)
  /\ SameLink(s, t) /\ SameMode(s, t) /\ t.ans = s.ans /\ t.lost = s.lost
  /\ s.busy /\ t.busy /\ t.kind = s.kind /\ t.job = s.job /\ t.res = s.res
  /\ ~s.sent /\ t.sent /\ s.kind # "begin"
  /\ \E k \in Due(s) :
       t.req = IF s.up THEN Append(s.req, [kind |-> k, ac |-> s.ac, job |-> s.job]) ELSE s.req

\* ... took its answer.
Taken(c, more) ==
  LET s == sess[c] t == sess'[c] IN
  /\ Only(c)
  /\ SameLink(s, t) /\ t.req = s.req /\ t.lost = s.lost /\ t.tx = s.tx
  /\ t.ac = (s.ac \/ s.kind \in Ends) /\ t.ans = "none"
  /\ s.busy /\ s.sent /\ s.res = "none" /\ (s.lost \/ s.ans = "ok")
  /\ t.busy = more /\ ~t.sent /\ t.kind = s.kind /\ t.job = s.job /\ t.res = "nil"

\* ... ended a round trip that tidies up.
Cleared(c, more, lost) ==
  LET s == sess[c] t == sess'[c] IN
  /\ Only(c)
  /\ SameLink(s, t) /\ SameMode(s, t) /\ t.req = s.req /\ t.ans = "none"
  /\ s.busy /\ s.res # "none"
  /\ t.busy = more /\ ~t.sent /\ t.kind = s.kind /\ t.job = s.job /\ t.res = s.res
  /\ t.lost = lost /\ lost \in GivesUp(s)

\* ... failed.
Failed(c, r, lost) ==
  LET s == sess[c] t == sess'[c] IN
  /\ Only(c)
  /\ SameLink(s, t) /\ SameMode(s, t) /\ t.req = s.req /\ t.ans = "none"
  /\ s.busy /\ (s.res = "none" \/ s.kind \in {"begin", "other"})
  /\ ~t.busy /\ ~t.sent /\ t.kind = s.kind /\ t.job = s.job /\ t.res = r
  /\ r = "badconn" => s.kind = "other"
  /\ t.lost = lost /\ lost \in GivesUp(s)

\* The peer is gone.
Died(c) ==
  LET s == sess[c] t == sess'[c] IN
  /\ Only(c)
  /\ SameCall(s, t) /\ SameMode(s, t) /\ t.closed = s.closed /\ t.lost = s.lost
  /\ s.up /\ ~t.up /\ t.req = <<>> /\ t.tran = {} /\ t.ans \in {s.ans, "none"}

\* The server has served the first request.
Served(c, ok) ==
  LET s == sess[c] t == sess'[c] IN
  /\ Only(c)
  /\ SameCall(s, t) /\ SameMode(s, t) /\ t.closed = s.closed /\ t.up = s.up /\ t.lost = s.lost
  /\ s.up /\ s.req # <<>> /\ t.req = Tail(s.req)
  /\ t.tran \in (IF ok THEN TranAfter(s.tran, Head(s.req)) ELSE {s.tran})
  /\ t.ans = (IF s.lost THEN "none" ELSE IF ok THEN "ok" ELSE "no")

\* Driver.Open returns a session.
LEMMA NewType ==
  ASSUME NEW ac \in BOOLEAN, NEW j \in Jobs
  PROVE  New(ac, j) \in SessionType
BY EmptySeq DEF New, SessionType, Kinds, Results, Jobs, Ends

\* What each action of Session does is one of the effects above.
LEMMA StartEffect ==
  ASSUME PoolTypeOK, NEW c \in Conn, NEW k \in Kinds, NEW j \in Jobs, Start(c, k, j)
  PROVE  Started(c, k, j)
<1>1. sess[c] \in SessionType
  BY DEF PoolTypeOK
<1> QED BY <1>1 DEF Started, PoolTypeOK, Start, Only, SameLink, SessionType, Results, Jobs

\* A refused call changes its own result only.
LEMMA RefuseEffect ==
  ASSUME PoolTypeOK, NEW c \in Conn, NEW k \in Kinds, NEW j \in Jobs, NEW r \in Errors,
         Refuse(c, k, j, r)
  PROVE  RefusedWith(c, k, j, r)
<1>1. sess[c] \in SessionType
  BY DEF PoolTypeOK
<1> QED BY <1>1 DEF RefusedWith, PoolTypeOK, Refuse, Only, SameLink, SameMode, SessionType, Results, Jobs, Errors

\* Begin turns auto-commit off and sends nothing.
LEMMA BeginEffect ==
  ASSUME PoolTypeOK, NEW c \in Conn, NEW j \in Jobs, Begin(c, j)
  PROVE  Begun(c, j)
<1>1. sess[c] \in SessionType
  BY DEF PoolTypeOK
<1> QED BY <1>1 DEF Begun, PoolTypeOK, Begin, Only, SameLink, SessionType, Results, Jobs, Kinds

\* A call sends the request that matters, or one that tidies up.
LEMMA SendEffect ==
  ASSUME PoolTypeOK, NEW c \in Conn, Send(c), sess[c].kind # "other"
  PROVE  Sent(c)
<1> DEFINE s == sess[c]
           q(k) == [kind |-> k, ac |-> s.ac, job |-> s.job]
           rs(k) == IF s.up THEN Append(s.req, q(k)) ELSE s.req
<1>1. s \in SessionType
  BY DEF PoolTypeOK
<1>2. s.busy /\ ~s.sent /\ s.kind # "begin"
  BY DEF Send
<1>3. PICK k \in Due(s) : sess' = [sess EXCEPT ![c] = [s EXCEPT !.sent = TRUE, !.req = rs(k)]]
  BY Zenon DEF Send, Due
<1>4. q(k) \in Request
  BY <1>1, <1>2 DEF SessionType, Request, Kinds, Due
<1>5. rs(k) \in Seq(Request)
  BY <1>1, <1>4, AppendProperties DEF SessionType
<1> DEFINE n == rs(k)
<1>6. n \in Seq(Request) /\ sess' = [sess EXCEPT ![c] = [s EXCEPT !.sent = TRUE, !.req = n]]
  BY <1>3, <1>5
<1>7. n = IF s.up THEN Append(s.req, [kind |-> k, ac |-> s.ac, job |-> s.job]) ELSE s.req
  OBVIOUS
<1> HIDE DEF n
<1>8. [s EXCEPT !.sent = TRUE, !.req = n] \in SessionType
  BY <1>1, <1>6 DEF SessionType
<1>9. Only(c) /\ sess'[c] = [s EXCEPT !.sent = TRUE, !.req = n]
  BY <1>6, <1>8 DEF PoolTypeOK, Only
<1>10. sess'[c].req = n
  BY <1>1, <1>9 DEF SessionType
<1>11. \E l \in Due(s) :
          sess'[c].req = IF s.up THEN Append(s.req, [kind |-> l, ac |-> s.ac, job |-> s.job]) ELSE s.req
  BY <1>3, <1>7, <1>10
<1>12. /\ SameLink(s, sess'[c]) /\ SameMode(s, sess'[c]) /\ sess'[c].sent
       /\ sess'[c].ans = s.ans /\ sess'[c].lost = s.lost /\ sess'[c].busy = s.busy
       /\ sess'[c].kind = s.kind /\ sess'[c].job = s.job /\ sess'[c].res = s.res
  BY <1>1, <1>9 DEF SameLink, SameMode, SessionType
<1> QED BY <1>2, <1>9, <1>11, <1>12 DEF Sent

\* A call that has taken its answer is over, or goes on to tidy up; a Tx that ends turns auto-commit on.
LEMMA TakeEffect ==
  ASSUME PoolTypeOK, NEW c \in Conn, NEW more \in BOOLEAN, Take(c, more)
  PROVE  Taken(c, more)
<1>1. sess[c] \in SessionType
  BY DEF PoolTypeOK
<1> DEFINE s == sess[c]
           t == [s EXCEPT !.busy = more, !.res = "nil", !.sent = FALSE, !.ac = s.ac \/ s.kind \in Ends, !.ans = "none"]
<1>2. s.busy /\ s.sent /\ s.res = "none" /\ (s.lost \/ s.ans = "ok") /\ sess' = [sess EXCEPT ![c] = t]
  BY DEF Take
<1>3. t \in SessionType
  BY <1>1 DEF SessionType, Results
<1>4. Only(c) /\ sess'[c] = t
  BY <1>2, <1>3 DEF PoolTypeOK, Only
<1>5. t.ac = (s.ac \/ s.kind \in Ends)
  BY <1>1, Zenon DEF SessionType
<1>6. /\ SameLink(s, t) /\ t.req = s.req /\ t.lost = s.lost /\ t.tx = s.tx /\ t.ans = "none"
      /\ t.busy = more /\ ~t.sent /\ t.kind = s.kind /\ t.job = s.job /\ t.res = "nil"
  BY <1>1 DEF SessionType, SameLink
<1> HIDE DEF t
<1> QED BY <1>2, <1>4, <1>5, <1>6 DEF Taken

\* A round trip that tidies up does not change the result.
LEMMA TidyEffect ==
  ASSUME PoolTypeOK, NEW c \in Conn, NEW more \in BOOLEAN, NEW lost \in BOOLEAN, Tidied(c, more, lost)
  PROVE  Cleared(c, more, lost)
<1>1. sess[c] \in SessionType
  BY DEF PoolTypeOK
<1> DEFINE s == sess[c]
           t == [s EXCEPT !.busy = more, !.sent = FALSE, !.lost = lost, !.ans = "none"]
<1>2. s.busy /\ s.res # "none" /\ lost \in GivesUp(s) /\ sess' = [sess EXCEPT ![c] = t]
  BY DEF Tidied
<1>3. t \in SessionType
  BY <1>1 DEF SessionType
<1>4. Only(c) /\ sess'[c] = t
  BY <1>2, <1>3 DEF PoolTypeOK, Only
<1>5. /\ SameLink(s, t) /\ SameMode(s, t) /\ t.req = s.req /\ t.lost = lost /\ t.ans = "none"
      /\ t.busy = more /\ ~t.sent /\ t.kind = s.kind /\ t.job = s.job /\ t.res = s.res
  BY <1>1 DEF SessionType, SameLink, SameMode
<1> HIDE DEF t
<1> QED BY <1>2, <1>4, <1>5 DEF Cleared

\* A call that fails is over, and may have given up its answer.
LEMMA FailEffect ==
  ASSUME PoolTypeOK, NEW c \in Conn, NEW r \in Errors, NEW lost \in BOOLEAN, Fail(c, FALSE, r, lost)
  PROVE  Failed(c, r, lost)
<1>1. sess[c] \in SessionType
  BY DEF PoolTypeOK
<1> DEFINE s == sess[c]
           t == [s EXCEPT !.busy = FALSE, !.res = r, !.sent = FALSE, !.lost = lost, !.ans = "none"]
<1>2. /\ s.busy /\ (s.res = "none" \/ s.kind \in {"begin", "other"}) /\ (r = "badconn" => s.kind = "other")
      /\ lost \in GivesUp(s) /\ sess' = [sess EXCEPT ![c] = t]
  BY DEF Fail, Errors
<1>3. t \in SessionType
  BY <1>1 DEF SessionType, Results, Errors
<1>4. Only(c) /\ sess'[c] = t
  BY <1>2, <1>3 DEF PoolTypeOK, Only
<1>5. /\ SameLink(s, t) /\ SameMode(s, t) /\ t.req = s.req /\ t.lost = lost /\ t.ans = "none"
      /\ ~t.busy /\ ~t.sent /\ t.kind = s.kind /\ t.job = s.job /\ t.res = r
  BY <1>1 DEF SessionType, SameLink, SameMode
<1> HIDE DEF t
<1> QED BY <1>2, <1>4, <1>5 DEF Failed

\* A peer that is gone has neither requests nor a transaction.
LEMMA DieEffect ==
  ASSUME PoolTypeOK, NEW c \in Conn, Die(c)
  PROVE  Died(c)
<1>1. sess[c] \in SessionType
  BY DEF PoolTypeOK
<1>2. PICK a \in {sess[c].ans, "none"} :
        sess' = [sess EXCEPT ![c] = [sess[c] EXCEPT !.up = FALSE, !.req = <<>>, !.tran = {}, !.ans = a]]
  BY DEF Die
<1>3. <<>> \in Seq(Request) /\ {} \in SUBSET Job /\ a \in {"none", "ok", "no"}
  BY <1>1, EmptySeq DEF SessionType
<1>4. [sess[c] EXCEPT !.up = FALSE, !.req = <<>>, !.tran = {}, !.ans = a] \in SessionType
  BY <1>1, <1>3 DEF SessionType
<1>5. Only(c) /\ sess'[c] = [sess[c] EXCEPT !.up = FALSE, !.req = <<>>, !.tran = {}, !.ans = a]
  BY <1>2, <1>4 DEF PoolTypeOK, Only
<1> QED BY <1>1, <1>5 DEF Died, Die, SameCall, SameMode, SessionType

\* The server takes the first request, and carries it out or not.
LEMMA ServeEffect ==
  ASSUME PoolTypeOK, NEW c \in Conn, NEW ok \in BOOLEAN, Serve(c, ok),
         Head(sess[c].req).job \in Job
  PROVE  Served(c, ok)
<1> DEFINE s == sess[c]
           a == IF s.lost THEN "none" ELSE IF ok THEN "ok" ELSE "no"
<1>1. s \in SessionType
  BY DEF PoolTypeOK
<1>2. s.up /\ s.req # <<>>
  BY DEF Serve
<1>3. Tail(s.req) \in Seq(Request) /\ a \in {"none", "ok", "no"}
  BY <1>1, <1>2, HeadTailProperties DEF SessionType
<1>4. PICK tr \in (IF ok THEN TranAfter(s.tran, Head(s.req)) ELSE {s.tran}) :
        sess' = [sess EXCEPT ![c] = [s EXCEPT !.req = Tail(s.req), !.tran = tr, !.ans = a]]
  BY DEF Serve
<1>5. tr \in SUBSET Job
  BY <1>1, <1>4 DEF TranAfter, SessionType
<1> HIDE DEF a
<1>6. [s EXCEPT !.req = Tail(s.req), !.tran = tr, !.ans = a] \in SessionType
  BY <1>1, <1>3, <1>5 DEF SessionType
<1>7. Only(c) /\ sess'[c] = [s EXCEPT !.req = Tail(s.req), !.tran = tr, !.ans = a]
  BY <1>4, <1>6 DEF PoolTypeOK, Only
<1>8. sess'[c].req = Tail(s.req) /\ sess'[c].tran = tr /\ sess'[c].ans = a
      /\ SameCall(s, sess'[c]) /\ SameMode(s, sess'[c])
      /\ sess'[c].closed = s.closed /\ sess'[c].up = s.up /\ sess'[c].lost = s.lost
  BY <1>1, <1>7 DEF SessionType, SameCall, SameMode
<1> QED BY <1>2, <1>4, <1>7, <1>8 DEF Served, a

\* A connection that leaves the pool leaves its place to a new one.
LEMMA DropEffect ==
  ASSUME PoolTypeOK, PoolAssumption, NEW c \in Conn, Drop(c)
  PROVE  /\ Only(c) /\ sess'[c] = New(AutoCommit, None) /\ ~sess[c].busy
         /\ pool' = [pool EXCEPT ![c] = "none"]
         /\ old' = old \ {c} /\ fouled' = fouled \ {c}
BY NewType DEF PoolTypeOK, PoolAssumption, Drop, Only, Jobs

-----------------------------------------------------------------------------
(***************************************************************************)
(* The inductive invariant.                                                *)
(***************************************************************************)

\* The requests in flight on a connection that is in step.
InStep(s) ==
  /\ ~s.sent => s.ans = "none" /\ s.req = <<>>
  /\ s.ans # "none" => s.req = <<>>
  /\ s.req # <<>> => /\ Len(s.req) = 1
                     /\ \E k \in Due(s) : s.req[1] = [kind |-> k, ac |-> s.ac, job |-> s.job]

\* What the pool makes of a session: it calls nothing but statements and the
\* ends of transactions, and conn never returns driver.ErrBadConn to it.
SessionOK(s) ==
  /\ ~s.closed /\ s.kind # "other" /\ s.res # "badconn"
  /\ s.busy => s.kind # "begin" /\ (s.res = "none" \/ (s.kind = "stmt" /\ s.res = "nil"))
  /\ ~s.busy => s.res # "none" /\ ~s.sent
  /\ ~s.up => s.req = <<>> /\ s.tran = {}
  /\ ~s.lost => InStep(s)
  /\ \A i \in DOMAIN s.req : s.req[i].job \in Job

SessionsOK == \A c \in Conn : SessionOK(sess[c])

\* A connection has at most one user, and only its call keeps it busy.
Owned ==
  /\ \A j \in Job : /\ job[j].st \in {"have", "call", "tx"} <=> job[j].c # None
                    /\ job[j].c # None => pool[job[j].c] = "taken"
  /\ \A i, j \in Job : job[i].c = job[j].c /\ job[i].c # None => i = j
  /\ \A c \in Conn : /\ pool[c] # "taken" => ~sess[c].busy /\ ~sess[c].tx
                     /\ pool[c] = "none" => c \notin fouled
                     /\ sess[c].busy => LET j == sess[c].job
                                        IN j \in Job /\ job[j].c = c /\ job[j].st = "call"

\* The last call of job j, made on session s: db.Exec, or the begin, the
\* statement and the end of a Tx, in that order.
CallOf(j, s) ==
  \/ s.kind = "stmt" /\ (s.tx <=> j \in TxJobs) /\ job[j].end = None
  \/ s.kind = "begin" /\ j \in TxJobs /\ (s.tx <=> s.res = "nil") /\ job[j].end = None
  \/ s.kind \in Ends /\ j \in TxJobs /\ ~s.tx /\ job[j].end = s.kind

UserOK(j) ==
  LET s == sess[job[j].c] IN
  /\ job[j].st = "want" => job[j].end = None
  /\ job[j].st = "have" => ~s.busy /\ ~s.tx /\ job[j].end = None
  /\ job[j].st = "call" => s.job = j /\ CallOf(j, s)
  /\ job[j].st = "tx" => ~s.busy /\ s.tx /\ s.job = j /\ CallOf(j, s)

UsersOK == \A j \in Job : UserOK(j)

\* The statement of job j has not been sent.
Unsent(j) ==
  LET s == sess[job[j].c] IN
  \/ job[j].st \in {"want", "have"}
  \/ job[j].st \in {"call", "tx"} /\ s.kind = "begin"
  \/ job[j].st = "call" /\ s.kind = "stmt" /\ s.busy /\ s.res = "none" /\ ~s.sent

\* Request i on connection c is the statement of job j.
StmtOf(j, c, i) ==
  i \in DOMAIN sess[c].req /\ sess[c].req[i].kind = "stmt" /\ sess[c].req[i].job = j

\* A job's statement is not sent yet, or under way once, or has been executed,
\* or is lost.
Once ==
  /\ \A j \in Job : ran[j] <= 1 /\ (Unsent(j) => ran[j] = 0)
  /\ \A c \in Conn, i \in Nat, j \in Jobs :
       StmtOf(j, c, i) => j \in Job /\ ran[j] = 0 /\ ~Unsent(j)
  /\ \A c, d \in Conn, i, k \in Nat, j \in Job : StmtOf(j, c, i) /\ StmtOf(j, d, k) => c = d /\ i = k

\* A db.Exec that has its result: what it still sends only tidies up.
Settled(j) ==
  /\ j \notin TxJobs /\ job[j].st = "call"
  /\ sess[job[j].c].kind = "stmt" /\ sess[job[j].c].res = "nil"
  /\ AutoCommit => j \in durable

\* Whoever uses a connection that lost its step is tainted, or had its result before.
Tainting ==
  /\ \A c \in Conn : sess[c].lost => c \in fouled
  /\ \A j \in Job : job[j].c \in fouled => j \in tainted \/ Settled(j)

\* On a connection that is not fouled auto-commit is off exactly from Begin to
\* the answer to END_TRAN, and the server's transaction holds the job's work only.
ModeOK(s) ==
  /\ s.ac <=> ~s.tx /\ ~(s.busy /\ s.kind \in Ends)
  /\ s.ac => s.tran = {}
  /\ s.tran \subseteq {s.job}
  /\ s.busy /\ s.kind \in Ends /\ s.ans = "ok" => s.tran = {}

\* There the call of session s has been carried out.
Good(s) == IF s.res = "none" THEN s.ans = "ok" ELSE s.res = "nil"

\* ... and its work is where it belongs: durable, or in the transaction for as
\* long as the server lives.
WorkOK(s) ==
  /\ s.kind = "stmt" /\ s.ac /\ Good(s) => s.job \in durable
  /\ s.kind = "stmt" /\ ~s.ac /\ Good(s) /\ s.up => s.job \in s.tran
  /\ s.kind = "commit" /\ Good(s) => s.job \in durable
  /\ s.kind = "commit" /\ s.busy /\ s.ans = "none" /\ s.up => s.job \in s.tran

\* A request that adds no work of an untainted job to the transaction.
Harmless(q) == q.job \in tainted \/ (q.kind \in {"id", "aux"} /\ q.ac)

\* What a fouled connection may still commit is the work of tainted jobs.
FoulOK(s) ==
  /\ s.tran \subseteq tainted
  /\ \A i \in DOMAIN s.req : Harmless(s.req[i])
  /\ s.busy => s.job \in tainted \/ s.ac

Durability ==
  AutoCommit =>
    /\ \A c \in Conn : IF c \in fouled THEN FoulOK(sess[c]) ELSE ModeOK(sess[c]) /\ WorkOK(sess[c])
    /\ AcknowledgedIsDurable /\ OnlyCommittedIsDurable

PoolInv ==
  /\ PoolTypeOK /\ SessionsOK /\ Owned /\ UsersOK
  /\ Once /\ Tainting /\ Durability

-----------------------------------------------------------------------------
(***************************************************************************)
(* The calls of a job on its connection.                                   *)
(***************************************************************************)

\* A call that is entered or refused: what is in flight, the server and the
\* history stay as they are.
LEMMA CallKeeps ==
  ASSUME PoolAssumption, PoolInv, NEW j \in Job, NEW c \in Conn, job[j].c = c,
         job[j].st \in {"have", "tx"}, ~sess[c].busy,
         OnlyJob(j), job'[j].st = "call", job'[j].c = c,
         UNCHANGED <<pool, old, left, history>>,
         Only(c), SameLink(sess[c], sess'[c]),
         sess'[c].req = sess[c].req, sess'[c].ans = sess[c].ans, sess'[c].lost = sess[c].lost,
         sess'[c].sent = sess[c].sent, sess'[c].job = j,
         SessionOK(sess[c])', CallOf(j, sess[c])',
         sess'[c].kind = "stmt" => sess[c].kind = "begin" \/ job[j].st = "have",
         sess'[c].kind = "begin" => job[j].st = "have",
         AutoCommit /\ c \notin fouled => ModeOK(sess[c])' /\ WorkOK(sess[c])'
  PROVE  PoolInv'
<1> USE DEF PoolInv, Only, OnlyJob, history
<1>1. PoolTypeOK'
  BY DEF PoolTypeOK
<1>2. SessionsOK'
  BY DEF SessionsOK
<1>3. Owned'
  <2>1. \A i \in Job : /\ job'[i].st \in {"have", "call", "tx"} <=> job'[i].c # None
                       /\ job'[i].c # None => pool[job'[i].c] = "taken"
    BY DEF Owned
  <2>2. \A i, k \in Job : job'[i].c = job'[k].c /\ job'[i].c # None => i = k
    BY DEF Owned
  <2>3. ASSUME NEW d \in Conn
        PROVE  /\ pool[d] # "taken" => ~sess'[d].busy /\ ~sess'[d].tx
               /\ pool[d] = "none" => d \notin fouled
               /\ sess'[d].busy => LET i == sess'[d].job
                                   IN i \in Job /\ job'[i].c = d /\ job'[i].st = "call"
    BY DEF Owned
  <2> QED BY <2>1, <2>2, <2>3 DEF Owned
<1>4. UsersOK'
  BY SMTT(30) DEF UsersOK, UserOK, CallOf, Owned, PoolTypeOK, JobType
<1>5. Once'
  <2>1. \A i \in Job : Unsent(i)' => Unsent(i)
    BY DEF Unsent, Owned, UsersOK, UserOK, PoolTypeOK, JobType
  <2>2. \A i \in Jobs, d \in Conn, k \in Nat : StmtOf(i, d, k)' => StmtOf(i, d, k)
    BY DEF StmtOf
  <2>3. \A i \in Job : ran'[i] <= 1 /\ (Unsent(i)' => ran'[i] = 0)
    BY <2>1 DEF Once
  <2>4. \A d \in Conn, k \in Nat, i \in Jobs :
          StmtOf(i, d, k)' => i \in Job /\ ran'[i] = 0 /\ ~Unsent(i)'
    BY <2>1, <2>2 DEF Once
  <2>5. \A d, e \in Conn, k, l \in Nat, i \in Job : StmtOf(i, d, k)' /\ StmtOf(i, e, l)' => d = e /\ k = l
    BY <2>2 DEF Once, Jobs
  <2> QED BY <2>3, <2>4, <2>5 DEF Once
<1>6. Tainting'
  <2>1. \A d \in Conn : sess'[d].lost => d \in fouled'
    BY DEF Tainting
  <2>2. ASSUME NEW i \in Job, job'[i].c \in fouled'
        PROVE  i \in tainted' \/ Settled(i)'
    <3>1. CASE i = j
      <4>1. ~Settled(j) /\ job[j].c \in fouled
        BY <2>2, <3>1 DEF Settled
      <4> QED BY <3>1, <4>1 DEF Tainting
    <3>2. CASE i # j
      <4>1. job'[i] = job[i] /\ job[i].c \in Conn /\ job[i].c # c
        BY <2>2, <3>2 DEF Owned, PoolTypeOK, PoolAssumption
      <4>2. sess'[job[i].c] = sess[job[i].c]
        BY <4>1
      <4>3. i \in tainted \/ Settled(i)
        BY <2>2, <4>1 DEF Tainting
      <4> QED BY <4>1, <4>2, <4>3 DEF Settled
    <3> QED BY <3>1, <3>2
  <2> QED BY <2>1, <2>2 DEF Tainting
<1>7. Durability'
  <2>1. AutoCommit => \A d \in Conn : (IF d \in fouled THEN FoulOK(sess[d]) ELSE ModeOK(sess[d]) /\ WorkOK(sess[d]))'
    <3>1. ASSUME AutoCommit, c \in fouled
          PROVE  FoulOK(sess[c])'
      <4>1. FoulOK(sess[c])
        BY <3>1 DEF Durability
      <4>2. j \in tainted
        BY <3>1 DEF Tainting, Settled
      <4> QED BY <4>1, <4>2 DEF FoulOK, Harmless, SameLink
    <3>2. ASSUME AutoCommit, NEW d \in Conn, d # c
          PROVE  (IF d \in fouled THEN FoulOK(sess[d]) ELSE ModeOK(sess[d]) /\ WorkOK(sess[d]))'
      <4>1. sess'[d] = sess[d]
        BY <3>2
      <4>2. IF d \in fouled THEN FoulOK(sess[d]) ELSE ModeOK(sess[d]) /\ WorkOK(sess[d])
        BY <3>2 DEF Durability
      <4> QED BY <4>1, <4>2 DEF FoulOK, Harmless, ModeOK, WorkOK, Good
    <3> QED BY <3>1, <3>2
  <2>2. AutoCommit => AcknowledgedIsDurable'
    BY DEF Durability, AcknowledgedIsDurable, Succeeded
  <2>3. AutoCommit => OnlyCommittedIsDurable'
    BY SMTT(30) DEF Durability, OnlyCommittedIsDurable, UsersOK, UserOK, CallOf, Ends, PoolAssumption
  <2> QED BY <2>1, <2>2, <2>3 DEF Durability
<1> QED BY <1>1, <1>2, <1>3, <1>4, <1>5, <1>6, <1>7

\* The user of a connection finds it between calls.
Between(j, c) ==
  LET s == sess[c] IN
  /\ c \in Conn /\ s \in SessionType /\ SessionOK(s) /\ ~s.busy
  /\ job[j].end = None
  /\ job[j].st = "have" => ~s.tx
  /\ job[j].st = "tx" => s.tx /\ s.job = j /\ j \in TxJobs /\ s.kind \in {"begin", "stmt"}
  /\ s.lost => c \in fouled
  /\ AutoCommit /\ c \notin fouled => ModeOK(s) /\ WorkOK(s)

\* ... and that is so whenever it holds one and no call is in progress.
LEMMA UserFacts ==
  ASSUME PoolAssumption, PoolInv, NEW j \in Job, NEW c, job[j].c = c, job[j].st \in {"have", "tx"}
  PROVE  Between(j, c) /\ PoolTypeOK
<1>1. c \in Conn /\ sess[c] \in SessionType
  BY DEF PoolInv, PoolTypeOK, JobType, Owned
<1> QED BY <1>1 DEF Between, PoolInv, SessionsOK, UsersOK, UserOK, CallOf, Durability, Tainting

\* A job that makes a call keeps its connection.
LEMMA CallingJob ==
  ASSUME PoolTypeOK, NEW j \in Job, NEW c \in Conn, job[j].c = c, Calling(j, c)
  PROVE  /\ OnlyJob(j) /\ job'[j].st = "call" /\ job'[j].c = c /\ job'[j].end = job[j].end
         /\ UNCHANGED <<pool, old, history>>
BY DEF PoolTypeOK, JobType, Calling, OnlyJob

\* A refused call keeps the invariant.
LEMMA RefusedKeeps ==
  ASSUME PoolAssumption, PoolInv, NEW j \in Job, NEW c, job[j].c = c, Refused(j, c), UNCHANGED left
  PROVE  PoolInv'
<1>1. job[j].st \in {"have", "tx"} /\ Calling(j, c)
  BY DEF Refused
<1>2. Between(j, c) /\ PoolTypeOK
  BY <1>1, UserFacts
<1> DEFINE k == IF j \in TxJobs /\ job[j].st = "have" THEN "begin" ELSE "stmt"
<1>3. PICK r \in Errors : Refuse(c, k, j, r)
  BY DEF Refused
<1>4. /\ k \in Kinds /\ j \in Jobs /\ (k = "begin" => job[j].st = "have")
      /\ (k = "stmt" => sess[c].kind = "begin" \/ job[j].st = "have")
  BY <1>1 DEF Kinds, Jobs, Refused
<1>5. \/ k = "stmt" /\ (sess[c].tx <=> j \in TxJobs)
      \/ k = "begin" /\ j \in TxJobs /\ ~sess[c].tx
  BY <1>1, <1>2 DEF Between
<1> HIDE DEF k
<1>6. RefusedWith(c, k, j, r)
  BY <1>2, <1>3, <1>4, RefuseEffect DEF Between
<1>7. SessionOK(sess[c])'
  BY <1>2, <1>5, <1>6 DEF Between, RefusedWith, SessionOK, InStep, Errors, SameLink
<1>8. OnlyJob(j) /\ job'[j].st = "call" /\ job'[j].c = c /\ job'[j].end = None
      /\ UNCHANGED <<pool, old, history>>
  BY <1>1, <1>2, CallingJob DEF Between
<1>9. CallOf(j, sess[c])'
  BY <1>5, <1>6, <1>7, <1>8 DEF CallOf, RefusedWith, SameMode, SessionOK, Errors
<1>10. AutoCommit /\ c \notin fouled => ModeOK(sess[c])' /\ WorkOK(sess[c])'
  BY <1>1, <1>2, <1>5, <1>6 DEF Between, RefusedWith, ModeOK, WorkOK, Good, SameLink, SameMode, Errors, Ends
<1> QED
  BY <1>1, <1>2, <1>4, <1>6, <1>7, <1>8, <1>9, <1>10, CallKeeps DEF Between, RefusedWith

\* A statement, in a Tx or not, keeps the invariant when it starts.
LEMMA StartedKeeps ==
  ASSUME PoolAssumption, PoolInv, NEW j \in Job, NEW c, job[j].c = c,
         Exec(j, c) \/ TxExec(j, c), UNCHANGED left
  PROVE  PoolInv'
<1>1. job[j].st \in {"have", "tx"} /\ Start(c, "stmt", j) /\ Calling(j, c)
      /\ (job[j].st = "have" => j \notin TxJobs) /\ (job[j].st = "tx" => sess[c].kind = "begin")
  BY DEF Exec, TxExec
<1>2. Between(j, c) /\ PoolTypeOK
  BY <1>1, UserFacts
<1>3. Started(c, "stmt", j)
  BY <1>1, <1>2, StartEffect DEF Between, Kinds, Jobs
<1>4. SessionOK(sess[c])'
  BY <1>2, <1>3 DEF Between, Started, SessionOK, InStep, SameLink
<1>5. OnlyJob(j) /\ job'[j].st = "call" /\ job'[j].c = c /\ job'[j].end = None
      /\ UNCHANGED <<pool, old, history>>
  BY <1>1, <1>2, CallingJob DEF Between
<1>6. CallOf(j, sess[c])'
  BY <1>1, <1>2, <1>3, <1>5 DEF Between, Started, CallOf, Ends
<1>7. ASSUME AutoCommit, c \notin fouled
      PROVE  ModeOK(sess[c])' /\ WorkOK(sess[c])'
  <2>1. ModeOK(sess[c]) /\ ~sess[c].busy /\ ~sess[c].lost /\ SessionOK(sess[c])
        /\ (sess[c].tran # {} => ~sess[c].ac /\ sess[c].tx)
    BY <1>2, <1>7 DEF Between, ModeOK
  <2>2. sess[c].ans = "none" /\ (sess[c].tx => sess[c].job = j)
    BY <1>1, <1>2, <2>1 DEF Between, SessionOK, InStep
  <2>3. sess'[c].tran \subseteq {sess'[c].job}
    BY <1>3, <2>1, <2>2 DEF Started, SameLink, ModeOK
  <2>4. sess'[c].busy /\ sess'[c].ans = "none" /\ sess'[c].kind = "stmt" /\ sess'[c].res = "none"
        /\ sess'[c].ac = sess[c].ac /\ sess'[c].tran = sess[c].tran
        /\ (sess'[c].tx <=> sess[c].tx)
    BY <1>3, <2>2 DEF Started, SameLink, Ends
  <2> QED BY <2>1, <2>3, <2>4 DEF ModeOK, WorkOK, Good, Ends
<1> QED
  BY <1>1, <1>2, <1>3, <1>4, <1>5, <1>6, <1>7, CallKeeps DEF Between, Started

\* Begin keeps it.
LEMMA BeginTxKeeps ==
  ASSUME PoolAssumption, PoolInv, NEW j \in Job, NEW c, job[j].c = c, BeginTx(j, c), UNCHANGED left
  PROVE  PoolInv'
<1>1. job[j].st = "have" /\ j \in TxJobs /\ Begin(c, j) /\ Calling(j, c)
  BY DEF BeginTx
<1>2. Between(j, c) /\ PoolTypeOK
  BY <1>1, UserFacts
<1>3. Begun(c, j)
  BY <1>1, <1>2, BeginEffect DEF Between, Jobs
<1>4. SessionOK(sess[c])'
  BY <1>2, <1>3 DEF Between, Begun, SessionOK, InStep, SameLink
<1>5. OnlyJob(j) /\ job'[j].st = "call" /\ job'[j].c = c /\ job'[j].end = None
      /\ UNCHANGED <<pool, old, history>>
  BY <1>1, <1>2, CallingJob DEF Between
<1>6. CallOf(j, sess[c])'
  BY <1>1, <1>3, <1>5 DEF Begun, CallOf
<1>7. AutoCommit /\ c \notin fouled => ModeOK(sess[c])' /\ WorkOK(sess[c])'
  BY <1>1, <1>2, <1>3 DEF Between, Begun, ModeOK, WorkOK, Good, SameLink, Ends
<1> QED
  BY <1>1, <1>2, <1>3, <1>4, <1>5, <1>6, <1>7, CallKeeps DEF Between, Begun

\* Commit, Rollback and the Rollback of a cancelled context keep it when they start.
LEMMA EndTxKeeps ==
  ASSUME PoolAssumption, PoolInv, NEW j \in Job, NEW c, job[j].c = c,
         NEW k \in Ends, NEW drop \in BOOLEAN, EndTx(j, c, k, drop), UNCHANGED left
  PROVE  PoolInv'
<1>1. job[j].st = "tx" /\ Start(c, k, j) /\ (k = "commit" => sess[c].kind = "stmt" /\ sess[c].res = "nil")
      /\ UNCHANGED <<pool, old, history>>
      /\ job' = [job EXCEPT ![j].st = "call", ![j].end = k, ![j].drop = drop]
  BY DEF EndTx
<1>2. Between(j, c) /\ PoolTypeOK
  BY <1>1, UserFacts
<1>3. Started(c, k, j)
  BY <1>1, <1>2, StartEffect DEF Between, Kinds, Jobs
<1>4. SessionOK(sess[c])'
  BY <1>2, <1>3 DEF Between, Started, SessionOK, InStep, SameLink, Ends
<1>5. job[j] \in JobType /\ k \in Ends \cup {None}
  BY <1>2 DEF PoolTypeOK
<1>6. OnlyJob(j) /\ job'[j].st = "call" /\ job'[j].c = c /\ job'[j].end = k
  BY <1>1, <1>2, <1>5 DEF PoolTypeOK, JobType, OnlyJob
<1>7. CallOf(j, sess[c])'
  BY <1>1, <1>2, <1>3, <1>6 DEF Between, Started, CallOf
<1>8. AutoCommit /\ c \notin fouled => ModeOK(sess[c])' /\ WorkOK(sess[c])'
  BY <1>1, <1>2, <1>3 DEF Between, Started, ModeOK, WorkOK, Good, SameLink, Ends, SessionOK, InStep
<1> QED
  BY <1>1, <1>2, <1>3, <1>4, <1>6, <1>7, <1>8, CallKeeps DEF Between, Started, Ends

-----------------------------------------------------------------------------
(***************************************************************************)
(* Connections that change hands.                                          *)
(***************************************************************************)

\* Sessions and requests stay, and no job has a statement to send that had none before.
LEMMA OnceKeeps ==
  ASSUME Once, UNCHANGED ran,
         \A j \in Job : Unsent(j)' => Unsent(j),
         \A c \in Conn, i \in Nat, j \in Jobs : StmtOf(j, c, i)' => StmtOf(j, c, i)
  PROVE  Once'
<1>1. \A i \in Job : ran'[i] <= 1 /\ (Unsent(i)' => ran'[i] = 0)
  BY DEF Once
<1>2. \A d \in Conn, k \in Nat, i \in Jobs :
        StmtOf(i, d, k)' => i \in Job /\ ran'[i] = 0 /\ ~Unsent(i)'
  BY DEF Once
<1>3. \A d, e \in Conn, k, l \in Nat, i \in Job : StmtOf(i, d, k)' /\ StmtOf(i, e, l)' => d = e /\ k = l
  BY DEF Once, Jobs
<1> QED BY <1>1, <1>2, <1>3 DEF Once

\* Taking a cached connection keeps it: the user is tainted if it is fouled.
LEMMA TakeCachedKeeps ==
  ASSUME PoolAssumption, PoolInv, NEW j \in Job, NEW c \in Conn, TakeCached(j, c), UNCHANGED left
  PROVE  PoolInv'
<1> USE DEF PoolInv, OnlyJob
<1>1. /\ OnlyJob(j) /\ job'[j].st = "have" /\ job'[j].c = c /\ job'[j].end = job[j].end
      /\ job[j].st = "want" /\ job[j].c = None /\ c # None
  BY DEF TakeCached, PoolTypeOK, JobType, Owned, PoolAssumption
<1>2. /\ UNCHANGED <<sess, old, ran, durable, fouled>>
      /\ pool' = [pool EXCEPT ![c] = "taken"] /\ pool[c] = "idle"
      /\ tainted' = IF c \in fouled THEN tainted \cup {j} ELSE tainted
  BY DEF TakeCached, Free, Taint
<1>3. PoolTypeOK'
  BY <1>1, <1>2 DEF PoolTypeOK
<1>4. SessionsOK'
  BY <1>2 DEF SessionsOK
<1>5. Owned'
  <2>1. \A i \in Job : /\ job'[i].st \in {"have", "call", "tx"} <=> job'[i].c # None
                       /\ job'[i].c # None => pool'[job'[i].c] = "taken"
    BY <1>1, <1>2 DEF Owned, PoolTypeOK
  <2>2. \A i \in Job : job[i].c # c
    BY <1>1, <1>2 DEF Owned
  <2>3. \A i, k \in Job : job'[i].c = job'[k].c /\ job'[i].c # None => i = k
    BY <1>1, <2>2 DEF Owned
  <2>4. ASSUME NEW d \in Conn
        PROVE  /\ pool'[d] # "taken" => ~sess'[d].busy /\ ~sess'[d].tx
               /\ pool'[d] = "none" => d \notin fouled'
               /\ sess'[d].busy => LET i == sess'[d].job
                                   IN i \in Job /\ job'[i].c = d /\ job'[i].st = "call"
    BY <1>1, <1>2 DEF Owned, PoolTypeOK
  <2> QED BY <2>1, <2>3, <2>4 DEF Owned
<1>6. UsersOK'
  BY <1>1, <1>2 DEF UsersOK, UserOK, CallOf, Owned
<1>7. Once'
  BY <1>1, <1>2, OnceKeeps DEF Unsent, StmtOf
<1>8. Tainting'
  BY <1>1, <1>2 DEF Tainting, Settled
<1>9. Durability'
  BY <1>1, <1>2 DEF Durability, FoulOK, Harmless, ModeOK, WorkOK, Good, AcknowledgedIsDurable,
                    OnlyCommittedIsDurable, Succeeded
<1> QED BY <1>3, <1>4, <1>5, <1>6, <1>7, <1>8, <1>9

\* A job that is done has no connection.
LEMMA EndedEffect ==
  ASSUME PoolTypeOK, NEW j \in Job, NEW r \in Results, job' = Ended(j, r)
  PROVE  /\ OnlyJob(j) /\ job'[j].end = job[j].end
         /\ job'[j].st = "done" /\ job'[j].c = None /\ job'[j].res = r
<1>1. job[j] \in JobType
  BY DEF PoolTypeOK
<1> DEFINE e == [job[j] EXCEPT !.st = "done", !.c = None, !.try = 0, !.res = r, !.drop = FALSE]
<1>2. 0 \in 0..MaxRetries
  BY DEF MaxRetries
<1>3. e \in JobType
  BY <1>1, <1>2 DEF JobType
<1>4. e.end = job[j].end /\ e.st = "done" /\ e.c = None /\ e.res = r
  BY <1>1 DEF JobType
<1>5. job' = [job EXCEPT ![j] = e]
  BY DEF Ended, PoolTypeOK
<1> QED BY <1>3, <1>4, <1>5 DEF PoolTypeOK, OnlyJob

\* Opening a connection keeps it, whether Open succeeds or not.
LEMMA OpenNewKeeps ==
  ASSUME PoolAssumption, PoolInv, NEW j \in Job, NEW c \in Conn, OpenNew(j, c), UNCHANGED left
  PROVE  PoolInv'
<1> USE DEF PoolInv, OnlyJob, history
<1>1. /\ OnlyJob(j) /\ job'[j].end = job[j].end
      /\ job[j].st = "want" /\ job[j].c = None /\ c # None
      /\ UNCHANGED <<sess, old, history>> /\ pool[c] = "none"
      /\ \/ job'[j].st = "have" /\ job'[j].c = c /\ pool' = [pool EXCEPT ![c] = "taken"]
         \/ job'[j].st = "done" /\ job'[j].c = None /\ job'[j].res = "err" /\ pool' = pool
  <2>1. job[j].st = "want" /\ job[j].c = None /\ c # None
        /\ UNCHANGED <<sess, old, history>> /\ pool[c] = "none"
    BY DEF OpenNew, Room, Owned, PoolAssumption
  <2>2. CASE job' = Ended(j, "err") /\ UNCHANGED pool
    BY <2>1, <2>2, EndedEffect DEF Results
  <2>3. CASE pool' = [pool EXCEPT ![c] = "taken"] /\ job' = [job EXCEPT ![j].st = "have", ![j].c = c]
    BY <2>1, <2>3 DEF PoolTypeOK, JobType
  <2> QED BY <2>2, <2>3 DEF OpenNew
<1>2. \A d \in Conn : pool[d] = "taken" => pool'[d] = "taken"
  BY <1>1 DEF PoolTypeOK
<1>3. PoolTypeOK'
  BY <1>1, <1>2 DEF PoolTypeOK
<1>4. SessionsOK'
  BY <1>1 DEF SessionsOK
<1>5. Owned'
  <2>1. \A i \in Job : /\ job'[i].st \in {"have", "call", "tx"} <=> job'[i].c # None
                       /\ job'[i].c # None => pool'[job'[i].c] = "taken"
    <3>1. ASSUME NEW i \in Job \ {j}
          PROVE  /\ job'[i].st \in {"have", "call", "tx"} <=> job'[i].c # None
                 /\ job'[i].c # None => pool'[job'[i].c] = "taken"
      BY <1>1, <1>2 DEF Owned, PoolTypeOK, JobType
    <3>2. /\ job'[j].st \in {"have", "call", "tx"} <=> job'[j].c # None
          /\ job'[j].c # None => pool'[job'[j].c] = "taken"
      BY <1>1 DEF PoolTypeOK
    <3> QED BY <3>1, <3>2
  <2>2. \A i \in Job : job[i].c # c
    BY <1>1 DEF Owned
  <2>3. \A i, k \in Job : job'[i].c = job'[k].c /\ job'[i].c # None => i = k
    BY <1>1, <1>2, <2>2 DEF Owned
  <2>4. ASSUME NEW d \in Conn
        PROVE  /\ pool'[d] # "taken" => ~sess'[d].busy /\ ~sess'[d].tx
               /\ pool'[d] = "none" => d \notin fouled'
               /\ sess'[d].busy => LET i == sess'[d].job
                                   IN i \in Job /\ job'[i].c = d /\ job'[i].st = "call"
    BY <1>1, <1>2 DEF Owned, PoolTypeOK
  <2> QED BY <2>1, <2>3, <2>4 DEF Owned
<1>6. UsersOK'
  BY <1>1, <1>2 DEF UsersOK, UserOK, CallOf, Owned
<1>7. Once'
  BY <1>1, <1>2, OnceKeeps DEF Unsent, StmtOf
<1>8. Tainting'
  BY <1>1, <1>2 DEF Tainting, Settled, Owned, PoolTypeOK, PoolAssumption
<1>9. Durability'
  BY <1>1, <1>2 DEF Durability, FoulOK, Harmless, ModeOK, WorkOK, Good, AcknowledgedIsDurable,
                    OnlyCommittedIsDurable, Succeeded
<1> QED BY <1>3, <1>4, <1>5, <1>6, <1>7, <1>8, <1>9

\* A Tx that goes on keeps its connection and the invariant.
LEMMA KeepTxKeeps ==
  ASSUME PoolAssumption, PoolInv, NEW j \in Job, NEW c \in Conn, job[j].c = c, KeepTx(j, c), UNCHANGED left
  PROVE  PoolInv'
<1> USE DEF PoolInv, OnlyJob, history
<1>1. /\ OnlyJob(j) /\ job'[j].end = job[j].end /\ job'[j].c = c
      /\ job[j].st = "call" /\ job'[j].st = "tx" /\ ~sess[c].busy
      /\ UNCHANGED <<sess, pool, old, history>> /\ TxGoesOn(j, c)
  BY DEF KeepTx, Returned, PoolTypeOK, JobType
<1>2. PoolTypeOK'
  BY <1>1 DEF PoolTypeOK
<1>3. SessionsOK'
  BY <1>1 DEF SessionsOK
<1>4. Owned'
  BY <1>1 DEF Owned
<1>5. UsersOK'
  BY <1>1 DEF UsersOK, UserOK, CallOf, TxGoesOn, Ends
<1>6. Once'
  BY <1>1, OnceKeeps DEF Unsent, StmtOf
<1>7. Tainting'
  <2>1. ASSUME NEW i \in Job, job'[i].c \in fouled
        PROVE  i \in tainted \/ Settled(i)'
    <3>1. job[i].c \in fouled
      BY <1>1, <2>1
    <3>2. CASE i = j
      <4>1. ~Settled(j)
        BY <1>1 DEF TxGoesOn, Settled
      <4> QED BY <3>1, <3>2, <4>1 DEF Tainting
    <3>3. CASE i # j
      <4>1. job'[i] = job[i]
        BY <1>1, <3>3
      <4> QED BY <1>1, <3>1, <4>1 DEF Tainting, Settled
    <3> QED BY <3>2, <3>3
  <2> QED BY <1>1, <2>1 DEF Tainting
<1>8. Durability'
  BY <1>1 DEF Durability, FoulOK, Harmless, ModeOK, WorkOK, Good, AcknowledgedIsDurable,
              OnlyCommittedIsDurable, Succeeded
<1> QED BY <1>2, <1>3, <1>4, <1>5, <1>6, <1>7, <1>8

\* Time keeps it.
LEMMA AgeKeeps ==
  ASSUME PoolInv, NEW c \in Conn, Age(c)
  PROVE  PoolInv'
<1> USE DEF PoolInv
<1>1. UNCHANGED <<sess, job, pool, left, history>> /\ old' = old \cup {c}
  BY DEF Age
<1>2. PoolTypeOK' /\ SessionsOK' /\ Owned' /\ Tainting'
  BY <1>1 DEF history, PoolTypeOK, SessionsOK, Owned, Tainting, Settled
<1>3. UsersOK'
  BY <1>1 DEF UsersOK, UserOK, CallOf
<1>4. Once'
  BY <1>1, OnceKeeps DEF history, Unsent, StmtOf
<1>5. Durability'
  BY <1>1 DEF history, Durability, FoulOK, Harmless, ModeOK, WorkOK, Good, AcknowledgedIsDurable,
              OnlyCommittedIsDurable, Succeeded
<1> QED BY <1>2, <1>3, <1>4, <1>5

\* A connection nobody uses any more is closed and made anew.
LEMMA DropKeeps ==
  ASSUME PoolAssumption, PoolInv, NEW c \in Conn, Drop(c), UNCHANGED <<left, ran, durable, tainted>>,
         job' \in [Job -> JobType],
         \A i \in Job : /\ job'[i].c # c /\ job'[i].end = job[i].end
                        /\ job'[i].c # None \/ job[i].c \notin {c, None} => job'[i] = job[i]
                        /\ job'[i].c = None => job'[i].st \in {"want", "done"}
                        /\ job'[i].st = "want" => job[i].st = "want"
                        /\ Succeeded(i)' => \/ Succeeded(i)
                                            \/ AutoCommit /\ job[i].end # "rollback" /\ i \notin tainted => i \in durable
  PROVE  PoolInv'
<1> USE DEF PoolInv, Only
<1>1. /\ Only(c) /\ sess'[c] = New(AutoCommit, None) /\ ~sess[c].busy
      /\ pool' = [pool EXCEPT ![c] = "none"]
      /\ old' = old \ {c} /\ fouled' = fouled \ {c}
  BY DropEffect
<1>2. sess'[c].kind = "begin" /\ sess'[c].req = <<>> /\ ~sess'[c].busy /\ ~sess'[c].tx
      /\ ~sess'[c].lost /\ sess'[c].ac = AutoCommit /\ sess'[c].tran = {}
      /\ DOMAIN sess'[c].req = {}
  BY <1>1 DEF New
<1>3. PoolTypeOK'
  BY <1>1 DEF PoolTypeOK
<1>4. SessionsOK'
  <2>1. ~sess'[c].closed /\ sess'[c].res = "nil" /\ ~sess'[c].sent /\ sess'[c].up /\ sess'[c].ans = "none"
    BY <1>1 DEF New
  <2>2. SessionOK(sess'[c])
    BY <1>2, <2>1 DEF SessionOK, InStep
  <2>3. \A d \in Conn \ {c} : sess'[d] = sess[d]
    BY <1>1
  <2> QED BY <2>2, <2>3 DEF SessionsOK
<1>5. Owned'
  <2>1. ASSUME NEW i \in Job
        PROVE  /\ job'[i].st \in {"have", "call", "tx"} <=> job'[i].c # None
               /\ job'[i].c # None => pool'[job'[i].c] = "taken"
    BY <1>1 DEF Owned, PoolTypeOK, JobType
  <2>2. \A i, k \in Job : job'[i].c = job'[k].c /\ job'[i].c # None => i = k
    BY DEF Owned
  <2>3. ASSUME NEW d \in Conn
        PROVE  /\ pool'[d] # "taken" => ~sess'[d].busy /\ ~sess'[d].tx
               /\ pool'[d] = "none" => d \notin fouled'
               /\ sess'[d].busy => LET i == sess'[d].job
                                   IN i \in Job /\ job'[i].c = d /\ job'[i].st = "call"
    <3>1. CASE d = c
      BY <1>1, <1>2, <3>1
    <3>2. CASE d # c
      <4>1. sess'[d] = sess[d] /\ pool'[d] = pool[d] /\ (d \in fouled' <=> d \in fouled)
        BY <1>1, <3>2 DEF PoolTypeOK
      <4>2. ASSUME sess[d].busy
            PROVE  LET i == sess[d].job IN i \in Job /\ job'[i].c = d /\ job'[i].st = "call"
        <5>1. sess[d].job \in Job /\ job[sess[d].job].c = d /\ job[sess[d].job].st = "call"
          BY <4>2 DEF Owned
        <5>2. job'[sess[d].job] = job[sess[d].job]
          <6>1. job[sess[d].job].c \notin {c, None}
            BY <3>2, <5>1 DEF PoolAssumption
          <6> QED BY <5>1, <6>1
        <5> QED BY <5>1, <5>2
      <4> QED BY <4>1, <4>2 DEF Owned
    <3> QED BY <3>1, <3>2
  <2> QED BY <2>1, <2>2, <2>3 DEF Owned
<1>6. \A i \in Job : job'[i].c # None => job'[i].c \in Conn \ {c} /\ job'[i] = job[i]
                                         /\ sess'[job[i].c] = sess[job[i].c]
  BY <1>1 DEF PoolTypeOK, JobType
<1>7. UsersOK'
  BY <1>5, <1>6 DEF Owned, UsersOK, UserOK, CallOf
<1>8. Once'
  <2>1. \A i \in Job : Unsent(i)' => Unsent(i)
    BY <1>5, <1>6 DEF Owned, Unsent
  <2>2. \A d \in Conn, k \in Nat, i \in Jobs : StmtOf(i, d, k)' => StmtOf(i, d, k)
    BY <1>1, <1>2 DEF StmtOf
  <2> QED BY <2>1, <2>2, OnceKeeps
<1>9. Tainting'
  BY <1>1, <1>2, <1>6 DEF Tainting, Settled, PoolTypeOK, PoolAssumption
<1>10. Durability'
  <2>1. AutoCommit => ModeOK(sess'[c]) /\ WorkOK(sess[c])'
    BY <1>1, <1>2 DEF ModeOK, WorkOK
  <2>2. AutoCommit => \A d \in Conn : IF d \in fouled' THEN FoulOK(sess[d])' ELSE ModeOK(sess[d])' /\ WorkOK(sess[d])'
    <3>1. ASSUME AutoCommit, NEW d \in Conn \ {c}
          PROVE  IF d \in fouled' THEN FoulOK(sess[d])' ELSE ModeOK(sess[d])' /\ WorkOK(sess[d])'
      <4>1. sess'[d] = sess[d] /\ (d \in fouled' <=> d \in fouled)
        BY <1>1
      <4> QED BY <3>1, <4>1 DEF Durability, FoulOK, Harmless, ModeOK, WorkOK, Good
    <3> QED BY <1>1, <2>1, <3>1
  <2>3. AutoCommit => AcknowledgedIsDurable'
    BY DEF Durability, AcknowledgedIsDurable
  <2>4. AutoCommit => OnlyCommittedIsDurable'
    BY DEF Durability, OnlyCommittedIsDurable, PoolAssumption
  <2> QED BY <2>2, <2>3, <2>4 DEF Durability
<1> QED BY <1>3, <1>4, <1>5, <1>7, <1>8, <1>9, <1>10

\* The cleaner keeps it.
LEMMA CleanKeeps ==
  ASSUME PoolAssumption, PoolInv, NEW c \in Conn, Clean(c)
  PROVE  PoolInv'
<1>1. /\ Drop(c) /\ UNCHANGED <<job, left, ran, durable, tainted>>
      /\ \A i \in Job : job[i].c # c
  BY DEF Clean, Free, PoolInv, Owned, PoolAssumption
<1> QED
  BY <1>1, DropKeeps DEF PoolInv, PoolTypeOK, Owned, Succeeded, JobType

\* Closing an expired connection keeps it.
LEMMA TakeExpiredKeeps ==
  ASSUME PoolAssumption, PoolInv, NEW j \in Job, NEW c \in Conn, TakeExpired(j, c), UNCHANGED left
  PROVE  PoolInv'
<1>1. /\ Drop(c) /\ UNCHANGED <<ran, durable, tainted>>
      /\ job[j].st = "want" /\ job[j].try < MaxRetries
      /\ job' = [job EXCEPT ![j].try = @ + 1]
      /\ \A i \in Job : job[i].c # c
  BY DEF TakeExpired, Free, PoolInv, Owned, PoolAssumption
<1>2. /\ OnlyJob(j) /\ job'[j].st = "want" /\ job'[j].c = job[j].c /\ job'[j].end = job[j].end
  BY <1>1 DEF PoolInv, PoolTypeOK, JobType, OnlyJob, MaxRetries
<1>3. job[j].c = None
  BY <1>1 DEF PoolInv, Owned
<1> QED
  BY <1>1, <1>2, <1>3, DropKeeps, SMTT(30) DEF PoolInv, PoolTypeOK, Owned, OnlyJob, Succeeded, JobType

\* A call that returns keeps it: database/sql closes the connection or puts it back.
LEMMA ReleaseKeeps ==
  ASSUME PoolAssumption, PoolInv, NEW j \in Job, NEW c \in Conn, job[j].c = c, Release(j, c), UNCHANGED left
  PROVE  PoolInv'
<1> USE DEF PoolInv, OnlyJob
<1>1. /\ job[j].st = "call" /\ ~sess[c].busy /\ ~TxGoesOn(j, c)
      /\ UNCHANGED <<ran, durable, tainted>>
      /\ sess[c] \in SessionType /\ SessionOK(sess[c]) /\ sess[c].job = j /\ CallOf(j, sess[c])
  BY DEF Release, Returned, PoolTypeOK, SessionsOK, UsersOK, UserOK
<1>2. job' = Ended(j, sess[c].res) /\ sess[c].res \in Results
  BY <1>1 DEF Release, SessionOK, SessionType
<1>3. /\ OnlyJob(j) /\ job'[j].end = job[j].end
      /\ job'[j].st = "done" /\ job'[j].c = None /\ job'[j].res = sess[c].res
  BY <1>2, EndedEffect
<1>4. ~sess[c].tx
  BY <1>1 DEF CallOf, TxGoesOn
<1>5. ASSUME AutoCommit, sess[c].res = "nil", job[j].end # "rollback", j \notin tainted
      PROVE  j \in durable
  <2>0. CASE c \in fouled
    BY <1>5, <2>0 DEF Tainting, Settled
  <2> SUFFICES ASSUME c \notin fouled
               PROVE  j \in durable
    BY <2>0
  <2>1. ModeOK(sess[c]) /\ WorkOK(sess[c])
    BY <1>5 DEF Durability
  <2>2. CASE sess[c].kind = "stmt"
    BY <1>1, <1>4, <1>5, <2>1, <2>2 DEF ModeOK, WorkOK, Good, Ends
  <2>3. CASE sess[c].kind \in Ends
    BY <1>1, <1>5, <2>1, <2>3 DEF CallOf, WorkOK, Good, Ends
  <2>4. CASE sess[c].kind = "begin"
    BY <1>1, <1>5, <2>4 DEF CallOf, TxGoesOn, Ends
  <2> QED BY <1>1, <2>2, <2>3, <2>4 DEF CallOf
<1>6. \A i \in Job \ {j} : job'[i] = job[i] /\ job[i].c # c
  BY <1>3 DEF Owned, PoolAssumption
<1>7. CASE Drop(c)
  <2>1. \A i \in Job : /\ job'[i].c # c /\ job'[i].end = job[i].end
                       /\ job'[i].c # None \/ job[i].c \notin {c, None} => job'[i] = job[i]
                       /\ job'[i].c = None => job'[i].st \in {"want", "done"}
                       /\ job'[i].st = "want" => job[i].st = "want"
    BY <1>3, <1>6 DEF PoolAssumption, PoolTypeOK, JobType, Owned
  <2>2. \A i \in Job : Succeeded(i)' =>
           \/ Succeeded(i)
           \/ AutoCommit /\ job[i].end # "rollback" /\ i \notin tainted => i \in durable
    BY <1>3, <1>5, <1>6 DEF Succeeded
  <2> QED BY <1>1, <1>3, <1>7, <2>1, <2>2, DropKeeps
<1>8. CASE pool' = [pool EXCEPT ![c] = "idle"] /\ UNCHANGED <<sess, old, fouled>>
  <2>1. PoolTypeOK' /\ SessionsOK' /\ Tainting'
    BY <1>1, <1>3, <1>6, <1>8 DEF PoolTypeOK, SessionsOK, Tainting, Settled, PoolAssumption
  <2>2. Owned'
    <3>1. ASSUME NEW i \in Job
          PROVE  /\ job'[i].st \in {"have", "call", "tx"} <=> job'[i].c # None
                 /\ job'[i].c # None => pool'[job'[i].c] = "taken"
      BY <1>3, <1>6, <1>8 DEF Owned, PoolTypeOK, JobType
    <3>2. \A i, k \in Job : job'[i].c = job'[k].c /\ job'[i].c # None => i = k
      BY <1>3, <1>6 DEF Owned
    <3>3. ASSUME NEW d \in Conn
          PROVE  /\ pool'[d] # "taken" => ~sess'[d].busy /\ ~sess'[d].tx
                 /\ pool'[d] = "none" => d \notin fouled'
                 /\ sess'[d].busy => LET i == sess'[d].job
                                     IN i \in Job /\ job'[i].c = d /\ job'[i].st = "call"
      BY <1>1, <1>3, <1>4, <1>6, <1>8 DEF Owned, PoolTypeOK
    <3> QED BY <3>1, <3>2, <3>3 DEF Owned
  <2>3. UsersOK'
    BY <1>3, <1>6, <1>8 DEF UsersOK, UserOK, CallOf
  <2>4. Once'
    BY <1>1, <1>3, <1>6, <1>8, OnceKeeps DEF Unsent, StmtOf
  <2>5. Durability'
    <3>1. AutoCommit => \A d \in Conn : IF d \in fouled' THEN FoulOK(sess[d])' ELSE ModeOK(sess[d])' /\ WorkOK(sess[d])'
      BY <1>1, <1>8 DEF Durability, FoulOK, Harmless, ModeOK, WorkOK, Good
    <3>2. AutoCommit => AcknowledgedIsDurable'
      BY <1>1, <1>3, <1>5, <1>6 DEF Durability, AcknowledgedIsDurable, Succeeded
    <3>3. AutoCommit => OnlyCommittedIsDurable'
      BY <1>1, <1>3, <1>6 DEF Durability, OnlyCommittedIsDurable, PoolAssumption
    <3> QED BY <3>1, <3>2, <3>3 DEF Durability
  <2> QED BY <2>1, <2>2, <2>3, <2>4, <2>5
<1> QED BY <1>7, <1>8 DEF Release

-----------------------------------------------------------------------------
(***************************************************************************)
(* The driver and the server.                                              *)
(***************************************************************************)

\* A step of the driver or the server leaves jobs and pool alone.
LEMMA DriverKeeps ==
  ASSUME PoolInv, NEW c \in Conn, pool[c] # "none", UNCHANGED <<job, pool, old>>, Only(c),
         SessionOK(sess[c])',
         sess'[c].kind = sess[c].kind, sess'[c].job = sess[c].job, sess'[c].tx = sess[c].tx,
         sess'[c].busy => sess[c].busy,
         sess[c].kind = "begin" => sess'[c].res = sess[c].res,
         fouled' \subseteq fouled \cup {c}
  PROVE  SessionsOK' /\ Owned' /\ UsersOK'
<1> USE DEF PoolInv, Only
<1>1. SessionsOK'
  BY DEF SessionsOK
<1>2. Owned'
  BY DEF Owned
<1>3. ASSUME NEW j \in Job, job[j].st \in {"have", "call", "tx"}
      PROVE  job[j].c \in Conn
  BY <1>3 DEF Owned, PoolTypeOK, JobType
<1>4. UsersOK'
  BY <1>3 DEF UsersOK, UserOK, CallOf
<1> QED BY <1>1, <1>2, <1>4

\* What is known of a connection whose call is in progress.
LEMMA BusyFacts ==
  ASSUME PoolInv, NEW c \in Conn, sess[c].busy
  PROVE  LET s == sess[c] IN
         /\ s.job \in Job /\ job[s.job].c = c /\ job[s.job].st = "call" /\ CallOf(s.job, s)
         /\ s.kind \in Ends \cup {"stmt"} /\ (s.res = "none" \/ (s.kind = "stmt" /\ s.res = "nil"))
         /\ \A j \in Job : job[j].c = c => j = s.job
         /\ c \in fouled => s.job \in tainted \/ Settled(s.job)
         /\ c \in fouled /\ s.res = "none" => s.job \in tainted
<1>1. sess[c].job \in Job /\ job[sess[c].job].c = c /\ job[sess[c].job].st = "call"
  BY DEF PoolInv, Owned
<1>2. CallOf(sess[c].job, sess[c])
  BY <1>1 DEF PoolInv, UsersOK, UserOK
<1>3. \A j \in Job : job[j].c = c => j = sess[c].job
  BY <1>1 DEF PoolInv, Owned
<1>4. SessionOK(sess[c]) /\ (c \in fouled => sess[c].job \in tainted \/ Settled(sess[c].job))
  BY <1>1 DEF PoolInv, SessionsOK, Tainting
<1>5. sess[c].kind \in Ends \cup {"stmt"}
      /\ (sess[c].res = "none" \/ (sess[c].kind = "stmt" /\ sess[c].res = "nil"))
  BY <1>2, <1>4 DEF SessionOK, CallOf
<1>6. c \in fouled /\ sess[c].res = "none" => sess[c].job \in tainted
  BY <1>1, <1>4 DEF Settled
<1> QED BY <1>1, <1>2, <1>3, <1>4, <1>5, <1>6

\* Properties of the history that a step of the session does not touch.
LEMMA HistoryKeeps ==
  ASSUME Durability, UNCHANGED <<job, durable>>, tainted \subseteq tainted',
         AutoCommit => \A d \in Conn : (IF d \in fouled THEN FoulOK(sess[d])
                                        ELSE ModeOK(sess[d]) /\ WorkOK(sess[d]))'
  PROVE  Durability'
BY DEF Durability, AcknowledgedIsDurable, OnlyCommittedIsDurable, Succeeded

\* The other connections are as they were.
LEMMA OthersKeep ==
  ASSUME Durability, AutoCommit, NEW c \in Conn, Only(c), durable \subseteq durable',
         tainted \subseteq tainted', NEW d \in Conn \ {c}, d \in fouled' <=> d \in fouled
  PROVE  IF d \in fouled' THEN FoulOK(sess[d])' ELSE ModeOK(sess[d])' /\ WorkOK(sess[d])'
BY DEF Durability, Only, FoulOK, Harmless, ModeOK, WorkOK, Good

\* What is fouled and tainted stays so, and a result that is there stays.
LEMMA TaintingKeeps ==
  ASSUME PoolTypeOK, Tainting, NEW c \in Conn, Only(c), UNCHANGED <<job, fouled, tainted>>,
         durable \subseteq durable', sess'[c].lost => c \in fouled,
         sess[c].kind = "stmt" /\ sess[c].res = "nil" => sess'[c].kind = "stmt" /\ sess'[c].res = "nil"
  PROVE  Tainting'
<1>1. \A d \in Conn : sess'[d].lost => d \in fouled'
  BY DEF Only, Tainting
<1>2. ASSUME NEW j \in Job, job'[j].c \in fouled'
      PROVE  j \in tainted' \/ Settled(j)'
  <2>1. job[j].c \in Conn /\ job[j].c \in fouled
    BY <1>2 DEF PoolTypeOK
  <2>2. j \in tainted \/ Settled(j)
    BY <2>1 DEF Tainting
  <2>3. CASE Settled(j)
    <3>1. sess'[job[j].c].kind = "stmt" /\ sess'[job[j].c].res = "nil"
      BY <2>1, <2>3 DEF Settled, Only
    <3> QED BY <2>3, <3>1 DEF Settled
  <2> QED BY <2>2, <2>3
<1> QED BY <1>1, <1>2 DEF Tainting

\* Sending a request keeps the invariant: a job sends its statement once.
LEMMA SendingKeeps ==
  ASSUME PoolInv, NEW c \in Conn, Sending(c)
  PROVE  PoolInv'
<1> USE DEF PoolInv
<1> DEFINE s == sess[c]
<1>1. /\ pool[c] # "none" /\ Send(c) /\ UNCHANGED <<job, pool, old, left, history>>
      /\ sess[c].busy /\ s \in SessionType /\ SessionOK(s)
  BY DEF Sending, PoolIdle, Send, PoolTypeOK, SessionsOK
<1>2. Sent(c)
  BY <1>1, SendEffect DEF SessionOK
<1>0. PICK what \in Due(s) : sess'[c].req = IF s.up THEN Append(s.req, [kind |-> what, ac |-> s.ac, job |-> s.job]) ELSE s.req
  BY <1>2 DEF Sent
<1> DEFINE q == [kind |-> what, ac |-> s.ac, job |-> s.job]
<1>3. s.req \in Seq(Request) /\ Len(s.req) \in Nat
  BY <1>1 DEF SessionType
<1>4. /\ Len(Append(s.req, q)) = Len(s.req) + 1 /\ DOMAIN Append(s.req, q) = 1..(Len(s.req) + 1)
      /\ DOMAIN s.req = 1..Len(s.req)
      /\ \A i \in 1..Len(s.req) : Append(s.req, q)[i] = s.req[i]
      /\ Append(s.req, q)[Len(s.req) + 1] = q
  BY <1>3
<1>5. SessionOK(sess[c])'
  <2>1. s.req = <<>> => Len(Append(s.req, q)) = 1 /\ Append(s.req, q)[1] = q
    OBVIOUS
  <2>2. \A i \in DOMAIN sess'[c].req : sess'[c].req[i].job \in Job
    <3>1. s.job \in Job /\ \A i \in 1..Len(s.req) : s.req[i].job \in Job
      BY <1>1, <1>4, BusyFacts DEF SessionOK
    <3>2. CASE s.up
      <4>1. ASSUME NEW i \in 1..(Len(s.req) + 1)
            PROVE  Append(s.req, q)[i].job \in Job
        <5>1. CASE i \in 1..Len(s.req)
          BY <1>4, <3>1, <5>1
        <5>2. CASE i = Len(s.req) + 1
          BY <1>4, <3>1, <5>2
        <5> QED BY <1>3, <5>1, <5>2
      <4> QED BY <1>0, <1>4, <3>2, <4>1
    <3>3. CASE ~s.up
      BY <1>0, <1>1, <3>3 DEF SessionOK
    <3> QED BY <3>2, <3>3
  <2>3. ~s.lost => InStep(sess[c])'
    <3>1. ~s.lost => s.req = <<>> /\ s.ans = "none"
      BY <1>1, <1>2 DEF Sent, SessionOK, InStep
    <3>2. Due(sess'[c]) = Due(s) /\ sess'[c].ac = s.ac /\ sess'[c].job = s.job /\ sess'[c].ans = s.ans
          /\ sess'[c].sent
      BY <1>2 DEF Sent, Due, SameMode
    <3>3. ~s.lost /\ sess'[c].req # <<>> => Len(sess'[c].req) = 1 /\ sess'[c].req[1] = q
      BY <1>0, <2>1, <3>1
    <3> QED BY <1>0, <3>1, <3>2, <3>3 DEF InStep
  <2> QED BY <1>0, <1>1, <1>2, <2>2, <2>3 DEF Sent, SessionOK, SameLink, SameMode
<1>6. SessionsOK' /\ Owned' /\ UsersOK'
  BY <1>1, <1>2, <1>5, DriverKeeps DEF Sent, SameMode, history
<1>7. PoolTypeOK' /\ Tainting'
  BY <1>1, <1>2 DEF Sent, Only, PoolTypeOK, Tainting, Settled, history
<1>8. Once'
  <2>1. s.job \in Job /\ job[s.job].c = c /\ job[s.job].st = "call"
        /\ \A j \in Job : job[j].c = c => j = s.job
    BY <1>1, BusyFacts
  <2>2. \A j \in Job : Unsent(j)' => Unsent(j) /\ (j = s.job => what # "stmt")
    BY <1>1, <1>2, <2>1 DEF Sent, Only, Unsent, Owned, PoolTypeOK, JobType
  <2>3. what = "stmt" => Unsent(s.job)
    BY <1>0, <1>1, <1>2, <2>1 DEF Sent, Unsent, Due
  <2>4. \A j \in Jobs, d \in Conn, i \in Nat :
          StmtOf(j, d, i)' => \/ StmtOf(j, d, i)
                              \/ d = c /\ i = Len(s.req) + 1 /\ j = s.job /\ what = "stmt"
    <3>1. ASSUME NEW j \in Jobs, NEW d \in Conn \ {c}, NEW i \in Nat, StmtOf(j, d, i)'
          PROVE  StmtOf(j, d, i)
      BY <1>2, <3>1 DEF Sent, Only, StmtOf
    <3>2. ASSUME NEW j \in Jobs, NEW i \in Nat, StmtOf(j, c, i)'
          PROVE  StmtOf(j, c, i) \/ (i = Len(s.req) + 1 /\ j = s.job /\ what = "stmt")
      <4>1. sess'[c].req = s.req \/ sess'[c].req = Append(s.req, q)
        BY <1>0
      <4>2. CASE sess'[c].req = s.req
        BY <3>2, <4>2 DEF StmtOf
      <4>3. CASE sess'[c].req = Append(s.req, q)
        <5>1. i \in DOMAIN Append(s.req, q) /\ Append(s.req, q)[i].kind = "stmt" /\ Append(s.req, q)[i].job = j
          BY <3>2, <4>3 DEF StmtOf
        <5> QED BY <1>3, <1>4, <5>1 DEF StmtOf
      <4> QED BY <4>1, <4>2, <4>3
    <3> QED BY <3>1, <3>2
  <2>5. UNCHANGED ran
    BY <1>1 DEF history
  <2>6. \A j \in Job : ran'[j] <= 1 /\ (Unsent(j)' => ran'[j] = 0)
    BY <2>2, <2>5 DEF Once
  <2>7. \A d \in Conn, i \in Nat, j \in Jobs : StmtOf(j, d, i)' => j \in Job /\ ran'[j] = 0 /\ ~Unsent(j)'
    BY <2>1, <2>2, <2>3, <2>4, <2>5 DEF Once
  <2>8. \A d, e \in Conn, i, k \in Nat, j \in Job : StmtOf(j, d, i)' /\ StmtOf(j, e, k)' => d = e /\ i = k
    BY <2>3, <2>4 DEF Once, Jobs
  <2> QED BY <2>6, <2>7, <2>8 DEF Once
<1>9. Durability'
  <2>1. ASSUME AutoCommit, c \in fouled
        PROVE  FoulOK(sess[c])'
    <3>1. FoulOK(s)
      BY <2>1 DEF Durability
    <3>2. q.job = s.job /\ q.ac = s.ac /\ q.kind = what
      OBVIOUS
    <3>3. Harmless(q)
      BY <1>0, <1>1, <2>1, <3>1, <3>2, BusyFacts DEF FoulOK, Harmless, Due
    <3> HIDE DEF q
    <3>4. ASSUME NEW i \in DOMAIN sess'[c].req
          PROVE  Harmless(sess'[c].req[i])
      <4>1. CASE sess'[c].req = s.req
        BY <3>1, <3>4, <4>1 DEF FoulOK
      <4>2. CASE sess'[c].req = Append(s.req, q)
        BY <1>3, <1>4, <3>1, <3>3, <3>4, <4>2 DEF FoulOK
      <4> QED BY <1>0, <4>1, <4>2 DEF q
    <3> QED BY <1>1, <1>2, <3>1, <3>4 DEF Sent, FoulOK, Harmless, SameLink, SameMode, history
  <2>2. ASSUME AutoCommit, c \notin fouled
        PROVE  ModeOK(sess[c])' /\ WorkOK(sess[c])'
    BY <1>1, <1>2, <2>2 DEF Durability, Sent, ModeOK, WorkOK, Good, SameLink, SameMode, history
  <2>3. \A d \in Conn : AutoCommit => IF d \in fouled' THEN FoulOK(sess[d])' ELSE ModeOK(sess[d])' /\ WorkOK(sess[d])'
    BY <1>1, <1>2, <2>1, <2>2, OthersKeep DEF Sent, history
  <2> QED BY <1>1, <2>3, HistoryKeeps DEF history
<1> QED BY <1>6, <1>7, <1>8, <1>9

\* Taking the answer keeps it: the answer is the one to this call, or the connection is fouled.
LEMMA TakingKeeps ==
  ASSUME PoolAssumption, PoolInv, NEW c \in Conn, Taking(c)
  PROVE  PoolInv'
<1> USE DEF PoolInv
<1> DEFINE s == sess[c]
<1>1. /\ pool[c] # "none" /\ UNCHANGED <<job, pool, old, history>>
      /\ s \in SessionType /\ SessionOK(s)
  BY DEF Taking, PoolIdle, PoolTypeOK, SessionsOK
<1>0. PICK n \in 0..MaxTidy : /\ n > 0 => s.kind = "stmt"
                             /\ left' = [left EXCEPT ![c] = n] /\ Take(c, n > 0)
  <2>1. PICK n \in IF s.kind = "stmt" THEN 0..MaxTidy ELSE {0} :
          left' = [left EXCEPT ![c] = n] /\ Take(c, n > 0)
    BY Zenon DEF Taking
  <2>2. n \in 0..MaxTidy /\ (n > 0 => s.kind = "stmt")
    BY <2>1 DEF PoolAssumption
  <2> QED BY <2>1, <2>2
<1> DEFINE more == n > 0
<1>2. Taken(c, more)
  <2>1. more \in BOOLEAN /\ Take(c, more)
    BY <1>0
  <2> HIDE DEF more
  <2> QED BY <2>1, TakeEffect
<1> HIDE DEF more
<1>9. more => s.kind = "stmt"
  BY <1>0 DEF more
<1>3. SessionOK(sess[c])'
  BY <1>1, <1>2, <1>9 DEF Taken, SessionOK, InStep, SameLink
<1>4. SessionsOK' /\ Owned' /\ UsersOK'
  BY <1>1, <1>2, <1>3, DriverKeeps DEF Taken, history, SessionOK
<1>5. PoolTypeOK' /\ Tainting'
  <2>1. PoolTypeOK'
    BY <1>0, <1>1, <1>2 DEF Taken, Only, PoolTypeOK, history
  <2>2. sess'[c].lost => c \in fouled
    BY <1>2 DEF Taken, Tainting
  <2>3. s.res # "nil"
    BY <1>2 DEF Taken
  <2>4. Only(c) /\ UNCHANGED <<job, fouled, tainted, durable>>
    BY <1>1, <1>2 DEF Taken, history
  <2> QED BY <2>1, <2>2, <2>3, <2>4, TaintingKeeps
<1>6. Once'
  <2>1. \A j \in Job : Unsent(j)' => Unsent(j)
    BY <1>1, <1>2 DEF Taken, Only, Unsent, Owned, PoolTypeOK, JobType
  <2>2. \A j \in Jobs, d \in Conn, i \in Nat : StmtOf(j, d, i)' => StmtOf(j, d, i)
    BY <1>2 DEF Taken, Only, StmtOf
  <2> QED BY <1>1, <2>1, <2>2, OnceKeeps DEF history
<1>7. Durability'
  <2>1. ASSUME AutoCommit, c \in fouled
        PROVE  FoulOK(sess[c])'
    BY <1>1, <1>2, <2>1 DEF Durability, Taken, FoulOK, Harmless, SameLink, history
  <2>2. ASSUME AutoCommit, c \notin fouled
        PROVE  ModeOK(sess[c])' /\ WorkOK(sess[c])'
    <3>1. s.ans = "ok" /\ ModeOK(s) /\ WorkOK(s)
      BY <1>2, <2>2 DEF Taken, Tainting, Durability
    <3>2. s.kind \in Ends => ~s.tx
      BY <1>2, BusyFacts DEF Taken, CallOf, Ends
    <3> QED BY <1>1, <1>2, <1>9, <3>1, <3>2 DEF Taken, ModeOK, WorkOK, Good, SameLink, Ends, history
  <2>3. \A d \in Conn : AutoCommit => IF d \in fouled' THEN FoulOK(sess[d])' ELSE ModeOK(sess[d])' /\ WorkOK(sess[d])'
    BY <1>1, <1>2, <2>1, <2>2, OthersKeep DEF Taken, history
  <2> QED BY <1>1, <2>3, HistoryKeeps DEF history
<1> QED BY <1>4, <1>5, <1>6, <1>7

\* So does a round trip that tidies up: it fouls the connection, and taints a Tx
\* that goes on with it, if it gives up on its answer; a db.Exec has its result.
LEMMA TidyingKeeps ==
  ASSUME PoolAssumption, PoolInv, NEW c \in Conn, Tidying(c)
  PROVE  PoolInv'
<1> USE DEF PoolInv
<1> DEFINE s == sess[c]
<1>1. /\ pool[c] # "none" /\ UNCHANGED <<job, pool, old, ran, durable>>
      /\ s \in SessionType /\ SessionOK(s)
  BY DEF Tidying, PoolIdle, PoolTypeOK, SessionsOK
<1>2. PICK n \in 0..(left[c] - 1), lost \in BOOLEAN :
        /\ left' = [left EXCEPT ![c] = n]
        /\ Tidied(c, n > 0, lost)
        /\ IF lost
           THEN fouled' = fouled \cup {c} /\ tainted' = tainted \cup ({s.job} \cap TxJobs)
           ELSE UNCHANGED <<fouled, tainted>>
  BY DEF Tidying
<1> DEFINE more == n > 0
<1>3. Cleared(c, more, lost)
  <2>1. more \in BOOLEAN /\ Tidied(c, more, lost)
    BY <1>2
  <2> HIDE DEF more
  <2> QED BY <2>1, TidyEffect
<1> HIDE DEF more
<1>4. PICK u \in Job :
        /\ u = s.job /\ s.busy /\ job[u].c = c /\ job[u].st = "call" /\ CallOf(u, s)
        /\ s.kind = "stmt" /\ s.res = "nil" /\ \A j \in Job : job[j].c = c => j = u
        /\ c \in fouled => u \in tainted \/ Settled(u)
  BY <1>3, BusyFacts DEF Cleared
<1>5. SessionOK(sess[c])'
  BY <1>1, <1>3, <1>4 DEF Cleared, SessionOK, InStep, SameLink, GivesUp, SessionType
<1>6. SessionsOK' /\ Owned' /\ UsersOK'
  BY <1>1, <1>2, <1>3, <1>4, <1>5, DriverKeeps DEF Cleared, SameMode
<1>7. fouled' \subseteq fouled \cup {c} /\ tainted \subseteq tainted' /\ tainted' \subseteq Job
  BY <1>2, <1>4 DEF PoolTypeOK
<1>8. PoolTypeOK'
  <2>1. left' \in [Conn -> 0..MaxTidy]
    <3>1. left[c] \in 0..MaxTidy
      BY DEF PoolTypeOK
    <3>2. n \in 0..MaxTidy
      BY <1>2, <3>1 DEF PoolAssumption
    <3> QED BY <1>2, <3>2 DEF PoolTypeOK
  <2> QED BY <1>1, <1>3, <1>7, <2>1 DEF Cleared, Only, PoolTypeOK
<1>9. Once'
  <2>1. \A j \in Job : Unsent(j)' => Unsent(j)
    BY <1>1, <1>3 DEF Cleared, Only, Unsent, Owned, PoolTypeOK, JobType
  <2>2. \A j \in Jobs, d \in Conn, i \in Nat : StmtOf(j, d, i)' => StmtOf(j, d, i)
    BY <1>3 DEF Cleared, Only, StmtOf
  <2> QED BY <1>1, <2>1, <2>2, OnceKeeps
<1>10. ASSUME AutoCommit, c \notin fouled
       PROVE  /\ ModeOK(s) /\ WorkOK(s) /\ ~s.lost
              /\ u \notin TxJobs => s.ac /\ u \in durable
  <2>1. ModeOK(s) /\ WorkOK(s) /\ ~s.lost
    BY <1>10 DEF Durability, Tainting
  <2>2. u \notin TxJobs => ~s.tx
    BY <1>4 DEF CallOf, Ends
  <2> QED BY <1>4, <2>1, <2>2 DEF ModeOK, WorkOK, Good, Ends
<1>11. c \in fouled' => u \in tainted' \/ Settled(u)'
  <2>1. CASE c \in fouled
    BY <1>1, <1>3, <1>4, <1>7, <2>1 DEF Cleared, Settled
  <2>2. CASE c \notin fouled
    BY <1>1, <1>2, <1>3, <1>4, <1>10, <2>2 DEF Cleared, Settled
  <2> QED BY <2>1, <2>2
<1>12. Tainting'
  <2>1. \A d \in Conn : sess'[d].lost => d \in fouled'
    BY <1>2, <1>3 DEF Cleared, Only, Tainting
  <2>2. ASSUME NEW j \in Job, job'[j].c \in fouled'
        PROVE  j \in tainted' \/ Settled(j)'
    <3>1. CASE job[j].c = c
      BY <1>1, <1>4, <1>11, <2>2, <3>1
    <3>2. CASE job[j].c # c
      <4>1. job[j].c \in fouled /\ job[j].c \in Conn
        BY <1>1, <1>2, <2>2, <3>2 DEF PoolTypeOK
      <4> QED BY <1>1, <1>3, <1>7, <3>2, <4>1 DEF Tainting, Settled, Cleared, Only
    <3> QED BY <3>1, <3>2
  <2> QED BY <2>1, <2>2 DEF Tainting
<1>13. Durability'
  <2>1. ASSUME AutoCommit, c \in fouled'
        PROVE  FoulOK(sess[c])'
    <3>1. CASE c \in fouled
      BY <1>3, <1>4, <1>7, <2>1, <3>1 DEF Durability, Cleared, FoulOK, Harmless, SameLink, SameMode
    <3>2. CASE c \notin fouled
      <4>1. s.tran \subseteq {s.job} /\ (s.ac => s.tran = {}) /\ ~s.lost
            /\ (s.job \in tainted' \/ s.ac)
        BY <1>2, <1>4, <1>10, <2>1, <3>2 DEF ModeOK
      <4>2. /\ s.req \in Seq(Request)
            /\ s.req # <<>> => /\ Len(s.req) = 1
                               /\ s.req[1].job = s.job /\ s.req[1].ac = s.ac /\ s.req[1].kind \in {"id", "aux"}
        BY <1>1, <1>4, <4>1 DEF SessionType, SessionOK, InStep, Due
      <4>3. \A i \in DOMAIN s.req : i = 1 /\ s.req # <<>>
        BY <4>2
      <4>4. \A i \in DOMAIN s.req : s.req[i].job \in tainted' \/ (s.req[i].kind \in {"id", "aux"} /\ s.req[i].ac)
        BY <4>1, <4>2, <4>3
      <4>5. s.tran \subseteq tainted'
        BY <4>1
      <4> QED BY <1>3, <4>1, <4>4, <4>5 DEF Cleared, FoulOK, Harmless, SameLink, SameMode
    <3> QED BY <3>1, <3>2
  <2>2. ASSUME AutoCommit, c \notin fouled'
        PROVE  ModeOK(sess[c])' /\ WorkOK(sess[c])'
    <3>1. c \notin fouled
      BY <1>2, <2>2
    <3> QED BY <1>1, <1>3, <1>4, <1>10, <2>2, <3>1 DEF Cleared, ModeOK, WorkOK, Good, SameLink, SameMode, Ends
  <2>3. \A d \in Conn : AutoCommit => IF d \in fouled' THEN FoulOK(sess[d])' ELSE ModeOK(sess[d])' /\ WorkOK(sess[d])'
    <3>1. \A d \in Conn \ {c} : d \in fouled' <=> d \in fouled
      BY <1>2
    <3> QED BY <1>1, <1>3, <1>7, <2>1, <2>2, <3>1, OthersKeep DEF Cleared
  <2> QED BY <1>1, <1>7, <2>3, HistoryKeeps
<1> QED BY <1>6, <1>8, <1>9, <1>12, <1>13

\* A failing call keeps it: what makes a connection unfit for the next user fouls it.
LEMMA FailingKeeps ==
  ASSUME PoolInv, NEW c \in Conn, Failing(c)
  PROVE  PoolInv'
<1> USE DEF PoolInv
<1> DEFINE s == sess[c]
<1>1. /\ pool[c] # "none" /\ UNCHANGED <<job, pool, old, left, ran, durable>>
      /\ s \in SessionType /\ SessionOK(s)
  BY DEF Failing, PoolIdle, PoolTypeOK, SessionsOK
<1>2. PICK r \in Errors, lost \in BOOLEAN :
        /\ Fail(c, FALSE, r, lost)
        /\ IF lost \/ s.kind \in Ends
           THEN fouled' = fouled \cup {c} /\ tainted' = tainted \cup {s.job}
           ELSE UNCHANGED <<fouled, tainted>>
  BY DEF Failing
<1>3. Failed(c, r, lost)
  BY <1>2, FailEffect
<1>4. /\ s.busy /\ s.job \in Job /\ job[s.job].c = c /\ CallOf(s.job, s)
      /\ s.kind \in Ends \cup {"stmt"} /\ \A j \in Job : job[j].c = c => j = s.job
  BY <1>3, BusyFacts DEF Failed
<1>5. SessionOK(sess[c])'
  BY <1>1, <1>3, <1>4 DEF Failed, SessionOK, InStep, SameLink, GivesUp, Errors, Ends, SessionType
<1>6. SessionsOK' /\ Owned' /\ UsersOK'
  BY <1>1, <1>2, <1>3, <1>4, <1>5, DriverKeeps DEF Failed, SameMode, Ends
<1>7. fouled' \subseteq fouled \cup {c} /\ tainted \subseteq tainted' /\ tainted' \subseteq Job
      /\ (c \in fouled' => c \in fouled \/ s.job \in tainted')
  BY <1>2, <1>4 DEF PoolTypeOK
<1>8. PoolTypeOK'
  BY <1>1, <1>2, <1>3, <1>7 DEF Failed, Only, PoolTypeOK
<1>9. Once'
  <2>1. \A j \in Job : Unsent(j)' => Unsent(j)
    BY <1>1, <1>3 DEF Failed, Only, Unsent, Owned, PoolTypeOK, JobType
  <2>2. \A j \in Jobs, d \in Conn, i \in Nat : StmtOf(j, d, i)' => StmtOf(j, d, i)
    BY <1>3 DEF Failed, Only, StmtOf
  <2> QED BY <1>1, <2>1, <2>2, OnceKeeps
<1>10. Tainting'
  <2>1. \A d \in Conn : sess'[d].lost => d \in fouled'
    BY <1>2, <1>3 DEF Failed, Only, Tainting
  <2>2. ASSUME NEW j \in Job, job'[j].c \in fouled'
        PROVE  j \in tainted' \/ Settled(j)'
    <3>1. CASE job[j].c = c
      <4>1. j = s.job /\ s.res = "none"
        BY <1>3, <1>4, <3>1 DEF Failed, Ends
      <4>2. ~Settled(j)
        BY <3>1, <4>1 DEF Settled
      <4> QED BY <1>1, <1>7, <2>2, <3>1, <4>1, <4>2 DEF Tainting
    <3>2. CASE job[j].c # c
      <4>1. job[j].c \in fouled /\ job[j].c \in Conn
        BY <1>1, <1>7, <2>2, <3>2 DEF PoolTypeOK
      <4>2. sess'[job[j].c] = sess[job[j].c] /\ (j \in tainted \/ Settled(j))
        BY <1>3, <3>2, <4>1 DEF Failed, Only, Tainting
      <4> QED BY <1>1, <1>7, <4>2 DEF Settled
    <3> QED BY <3>1, <3>2
  <2> QED BY <2>1, <2>2 DEF Tainting
<1>11. Durability'
  <2>1. ASSUME AutoCommit, c \in fouled'
        PROVE  FoulOK(sess[c])'
    <3>1. CASE c \in fouled
      BY <1>2, <1>3, <2>1, <3>1 DEF Durability, Failed, FoulOK, Harmless, SameLink
    <3>2. CASE c \notin fouled
      <4>1. s.job \in tainted' /\ s.tran \subseteq {s.job} /\ ~s.lost
        BY <1>2, <2>1, <3>2 DEF Durability, ModeOK, Tainting
      <4>2. s.req \in Seq(Request) /\ (s.req # <<>> => Len(s.req) = 1 /\ s.req[1].job = s.job)
        <5>1. InStep(s) /\ s.req \in Seq(Request)
          BY <1>1, <4>1 DEF SessionType, SessionOK
        <5>2. ASSUME s.req # <<>>
              PROVE  Len(s.req) = 1 /\ s.req[1].job = s.job
          <6>1. PICK k \in Due(s) : s.req[1] = [kind |-> k, ac |-> s.ac, job |-> s.job]
            BY <5>1, <5>2, Zenon DEF InStep
          <6> QED BY <5>1, <5>2, <6>1 DEF InStep
        <5> QED BY <5>1, <5>2
      <4>3. \A i \in DOMAIN s.req : s.req[i].job = s.job
        BY <4>2
      <4> QED BY <1>3, <4>1, <4>3 DEF Failed, FoulOK, Harmless, SameLink
    <3> QED BY <3>1, <3>2
  <2>2. ASSUME AutoCommit, c \notin fouled'
        PROVE  ModeOK(sess[c])' /\ WorkOK(sess[c])'
    <3>1. s.kind \notin Ends /\ c \notin fouled
      BY <1>2, <2>2
    <3>2. ModeOK(s)
      BY <2>2, <3>1 DEF Durability
    <3> QED BY <1>1, <1>3, <3>1, <3>2 DEF Failed, ModeOK, WorkOK, Good, SameLink, SameMode, Errors
  <2>3. \A d \in Conn : AutoCommit => IF d \in fouled' THEN FoulOK(sess[d])' ELSE ModeOK(sess[d])' /\ WorkOK(sess[d])'
    <3>1. \A d \in Conn \ {c} : d \in fouled' <=> d \in fouled
      BY <1>2
    <3> QED BY <1>1, <1>3, <1>7, <2>1, <2>2, <3>1, OthersKeep DEF Failed
  <2> QED BY <1>1, <1>7, <2>3, HistoryKeeps
<1> QED BY <1>6, <1>8, <1>9, <1>10, <1>11

\* A step of the server sends nothing.
LEMMA UnsentSame ==
  ASSUME PoolTypeOK, Owned, NEW c \in Conn, Only(c), SameCall(sess[c], sess'[c]), UNCHANGED job,
         NEW j \in Job, Unsent(j)'
  PROVE  Unsent(j)
<1>1. CASE job[j].st \in {"want", "have"}
  BY <1>1 DEF Unsent
<1>2. CASE job[j].st \in {"call", "tx"}
  <2>1. job[j].c \in Conn
    BY <1>2 DEF Owned, PoolTypeOK, JobType
  <2>2. SameCall(sess[job[j].c], sess'[job[j].c])
    BY <2>1 DEF Only, SameCall
  <2>3. LET s == sess'[job[j].c] IN
        \/ s.kind = "begin"
        \/ job[j].st = "call" /\ s.kind = "stmt" /\ s.busy /\ ~s.sent
    BY <1>2 DEF Unsent
  <2> QED BY <1>2, <2>2, <2>3 DEF SameCall, Unsent
<1>3. job[j].st \in {"want", "have", "call", "tx"}
  BY DEF Unsent
<1> QED BY <1>1, <1>2, <1>3

\* The head and the tail of a list of requests.
LEMMA RequestTail ==
  ASSUME NEW rs \in Seq(Request), rs # <<>>
  PROVE  /\ Head(rs) = rs[1] /\ 1 \in DOMAIN rs /\ Head(rs) \in Request /\ Tail(rs) \in Seq(Request)
         /\ \A i \in DOMAIN Tail(rs) : i + 1 \in DOMAIN rs /\ Tail(rs)[i] = rs[i + 1]
         /\ Len(rs) = 1 => Tail(rs) = <<>>
<1>1. Len(rs) \in Nat /\ Len(rs) # 0 /\ DOMAIN rs = 1..Len(rs)
  BY EmptySeq
<1>2. Head(rs) = rs[1] /\ Tail(rs) \in Seq(Request) /\ Len(Tail(rs)) = Len(rs) - 1
      /\ \A i \in 1..Len(Tail(rs)) : Tail(rs)[i] = rs[i + 1]
  BY HeadTailProperties
<1>3. DOMAIN Tail(rs) = 1..Len(Tail(rs))
  BY <1>2
<1>4. Len(rs) = 1 => Len(Tail(rs)) = 0
  BY <1>1, <1>2
<1>5. Len(rs) = 1 => Tail(rs) = <<>>
  BY <1>2, <1>4, EmptySeq
<1> QED BY <1>1, <1>2, <1>3, <1>5

\* Serving a request keeps it: a statement that is under way has not been executed.
LEMMA ServingKeeps ==
  ASSUME PoolAssumption, PoolInv, NEW c \in Conn, Serving(c)
  PROVE  PoolInv'
<1> USE DEF PoolInv
<1> DEFINE s == sess[c]
           q == Head(s.req)
<1>1. /\ pool[c] # "none" /\ UNCHANGED <<job, pool, old, left, fouled, tainted>>
      /\ s \in SessionType /\ SessionOK(s)
  BY DEF Serving, PoolIdle, PoolTypeOK, SessionsOK
<1>2. PICK ok \in BOOLEAN :
        /\ Serve(c, ok)
        /\ durable' = IF ok THEN durable \cup Committed(s.tran, q) ELSE durable
        /\ ran' = IF ok /\ q.kind = "stmt" THEN [ran EXCEPT ![q.job] = @ + 1] ELSE ran
  BY DEF Serving
<1>3. s.req \in Seq(Request) /\ s.req # <<>>
  BY <1>1, <1>2 DEF Serve, SessionType
<1>4. /\ q = s.req[1] /\ 1 \in DOMAIN s.req /\ q \in Request /\ Tail(s.req) \in Seq(Request)
      /\ \A i \in DOMAIN Tail(s.req) : i + 1 \in DOMAIN s.req /\ Tail(s.req)[i] = s.req[i + 1]
      /\ Len(s.req) = 1 => Tail(s.req) = <<>>
  BY <1>3, RequestTail
<1>5. q.kind = "stmt" => StmtOf(q.job, c, 1) /\ q.job \in Job /\ ran[q.job] = 0 /\ ~Unsent(q.job)
  BY <1>4 DEF StmtOf, Once, Request, Jobs
<1>6. Served(c, ok)
  <2>1. q.job \in Job
    BY <1>1, <1>4 DEF SessionOK
  <2> QED BY <1>2, <2>1, ServeEffect
<1> HIDE DEF q
<1>7. s.lost \/ (s.busy /\ s.sent /\ q.kind \in Due(s) /\ q.ac = s.ac /\ q.job = s.job
                 /\ s.ans = "none" /\ Len(s.req) = 1)
  <2>1. ASSUME ~s.lost
        PROVE  s.busy /\ s.sent /\ s.ans = "none" /\ Len(s.req) = 1
               /\ \E k \in Due(s) : s.req[1] = [kind |-> k, ac |-> s.ac, job |-> s.job]
    BY <1>1, <1>3, <2>1 DEF SessionOK, InStep, SessionType
  <2>2. ASSUME ~s.lost
        PROVE  s.req[1].kind \in Due(s) /\ s.req[1].ac = s.ac /\ s.req[1].job = s.job
    <3>1. PICK k \in Due(s) : s.req[1] = [kind |-> k, ac |-> s.ac, job |-> s.job]
      BY <2>1, <2>2, Zenon
    <3> QED BY <3>1
  <2> QED BY <1>4, <2>1, <2>2
<1>8. SessionOK(sess[c])'
  BY <1>1, <1>4, <1>6, <1>7 DEF Served, SessionOK, InStep, SameCall, SameMode
<1>9. SessionsOK' /\ Owned' /\ UsersOK'
  BY <1>1, <1>6, <1>8, DriverKeeps DEF Served, SameCall, SameMode
<1>10. PoolTypeOK' /\ Tainting'
  <2>1. sess' \in [Conn -> SessionType] /\ durable' \subseteq Job
    <3>1. s.tran \subseteq Job
      BY <1>1 DEF SessionType
    <3> QED BY <1>2, <1>5, <1>6, <3>1 DEF Served, Only, PoolTypeOK, Committed
  <2>2. ran' \in [Job -> Nat]
    BY <1>2, <1>5 DEF PoolTypeOK
  <2>3. PoolTypeOK'
    BY <1>1, <2>1, <2>2 DEF PoolTypeOK
  <2>4. /\ Only(c) /\ UNCHANGED <<job, fouled, tainted>> /\ durable \subseteq durable'
        /\ sess'[c].lost = s.lost /\ sess'[c].kind = s.kind /\ sess'[c].res = s.res
    BY <1>1, <1>2, <1>6 DEF Served, SameCall
  <2>5. sess'[c].lost => c \in fouled
    BY <2>4 DEF Tainting
  <2> QED BY <2>3, <2>4, <2>5, TaintingKeeps
<1>11. Once'
  <2>1. \A j \in Job : Unsent(j)' => Unsent(j)
    BY <1>1, <1>6, UnsentSame DEF Served
  <2>2. ASSUME NEW j \in Jobs, NEW d \in Conn, NEW i \in Nat, StmtOf(j, d, i)'
        PROVE  StmtOf(j, d, IF d = c THEN i + 1 ELSE i)
    <3>1. CASE d = c
      BY <1>4, <1>6, <2>2, <3>1 DEF Served, StmtOf
    <3>2. CASE d # c
      BY <1>6, <2>2, <3>2 DEF Served, Only, StmtOf
    <3> QED BY <3>1, <3>2
  <2>3. \A j \in Jobs, d \in Conn, i \in Nat : StmtOf(j, d, i)' => j \in Job /\ ran[j] = 0 /\ ~Unsent(j)
    BY <2>2 DEF Once
  <2>4. ASSUME NEW j \in Job, NEW d \in Conn, NEW i \in Nat, StmtOf(j, d, i)', q.kind = "stmt", j = q.job
        PROVE  FALSE
    <3> DEFINE k == IF d = c THEN i + 1 ELSE i
    <3>1. k \in Nat /\ StmtOf(j, d, k) /\ StmtOf(j, c, 1)
      BY <1>5, <2>2, <2>4 DEF Jobs
    <3>2. d = c /\ k = 1
      <4> HIDE DEF k
      <4> QED BY <3>1 DEF Once
    <3>3. i = 0
      BY <3>2
    <3>4. i \in DOMAIN sess'[c].req /\ sess'[c].req = Tail(s.req)
      BY <1>6, <2>4, <3>2 DEF StmtOf, Served
    <3>5. DOMAIN Tail(s.req) = 1..Len(Tail(s.req))
      BY <1>4
    <3> QED BY <3>3, <3>4, <3>5
  <2>5. \A j \in Job : ran'[j] = (IF ok /\ q.kind = "stmt" /\ j = q.job THEN 1 ELSE ran[j])
    BY <1>2, <1>5 DEF PoolTypeOK
  <2>6. \A j \in Job : ran'[j] <= 1 /\ (Unsent(j)' => ran'[j] = 0)
    BY <1>5, <2>1, <2>5 DEF Once
  <2>7. \A d \in Conn, i \in Nat, j \in Jobs : StmtOf(j, d, i)' => j \in Job /\ ran'[j] = 0 /\ ~Unsent(j)'
    BY <2>1, <2>3, <2>4, <2>5
  <2>8. \A d, e \in Conn, i, k \in Nat, j \in Job : StmtOf(j, d, i)' /\ StmtOf(j, e, k)' => d = e /\ i = k
    <3> SUFFICES ASSUME NEW d \in Conn, NEW e \in Conn, NEW i \in Nat, NEW k \in Nat, NEW j \in Job,
                        StmtOf(j, d, i)', StmtOf(j, e, k)'
                 PROVE  d = e /\ i = k
      OBVIOUS
    <3>1. StmtOf(j, d, IF d = c THEN i + 1 ELSE i) /\ StmtOf(j, e, IF e = c THEN k + 1 ELSE k)
      BY <2>2 DEF Jobs
    <3>2. (IF d = c THEN i + 1 ELSE i) \in Nat /\ (IF e = c THEN k + 1 ELSE k) \in Nat
      OBVIOUS
    <3>3. d = e /\ (IF d = c THEN i + 1 ELSE i) = (IF e = c THEN k + 1 ELSE k)
      BY <3>1, <3>2 DEF Once
    <3> QED BY <3>3
  <2> QED BY <2>6, <2>7, <2>8 DEF Once
<1>12. Durability'
  <2>1. durable \subseteq durable' /\ durable' \subseteq durable \cup Committed(s.tran, q)
    BY <1>2
  <2>2. ASSUME AutoCommit, c \in fouled
        PROVE  FoulOK(sess[c])' /\ Committed(s.tran, q) \subseteq tainted
    <3>1. FoulOK(s) /\ Harmless(q)
      BY <1>4, <2>2 DEF Durability, FoulOK
    <3>2. sess'[c].tran \in TranAfter(s.tran, q) \/ sess'[c].tran = s.tran
      BY <1>6 DEF Served, q
    <3>3. \A t \in TranAfter(s.tran, q) : t \subseteq tainted
      <4>1. s.tran \subseteq tainted
        BY <3>1 DEF FoulOK
      <4>2. CASE q.job \in tainted
        BY <4>1, <4>2 DEF TranAfter
      <4>3. CASE q.kind = "id" /\ q.ac
        BY <4>1, <4>3 DEF TranAfter
      <4>4. CASE q.kind = "aux" /\ q.ac
        BY <4>1, <4>4 DEF TranAfter
      <4> QED BY <3>1, <4>2, <4>3, <4>4 DEF Harmless
    <3>4. sess'[c].tran \subseteq tainted
      BY <3>1, <3>2, <3>3 DEF FoulOK
    <3>5. Committed(s.tran, q) \subseteq tainted
      BY <3>1 DEF FoulOK, Harmless, Committed
    <3>6. \A i \in DOMAIN sess'[c].req : Harmless(sess'[c].req[i])
      BY <1>4, <1>6, <3>1 DEF Served, FoulOK
    <3>7. sess'[c].busy = s.busy /\ sess'[c].job = s.job /\ sess'[c].ac = s.ac
      BY <1>6 DEF Served, SameCall, SameMode
    <3> QED BY <1>1, <3>1, <3>4, <3>5, <3>6, <3>7 DEF FoulOK, Harmless
  <2>3. ASSUME AutoCommit, c \notin fouled
        PROVE  /\ ModeOK(sess[c])' /\ WorkOK(sess[c])'
               /\ \A j \in Committed(s.tran, q) \cap TxJobs : job[j].end = "commit"
    <3>1. ModeOK(s) /\ WorkOK(s) /\ ~s.lost
      BY <2>3 DEF Durability, Tainting
    <3>2. s.job \in Job /\ CallOf(s.job, s) /\ s.busy /\ s.kind \in Ends \cup {"stmt"}
      BY <1>7, <3>1, BusyFacts
    <3>3. q.kind \in Due(s) /\ q.ac = s.ac /\ q.job = s.job /\ s.up /\ s.ans = "none"
      BY <1>6, <1>7, <3>1 DEF Served
    <3>4. sess'[c].tran \in (IF ok THEN TranAfter(s.tran, q) ELSE {s.tran}) /\ sess'[c].ans = (IF ok THEN "ok" ELSE "no")
      BY <1>6, <3>1 DEF Served, q
    <3>5. CASE s.res = "none"
      <4>1. q.kind = s.kind
        BY <3>3, <3>5 DEF Due
      <4>2. \A j \in Committed(s.tran, q) \cap TxJobs : job[j].end = "commit"
        BY <3>1, <3>2, <3>3, <4>1 DEF ModeOK, CallOf, Committed, Ends
      <4>3. ModeOK(sess[c])'
        BY <1>6, <3>1, <3>2, <3>3, <3>4, <4>1 DEF Served, SameCall, SameMode, ModeOK, TranAfter, Ends
      <4>4. WorkOK(sess[c])'
        BY <1>2, <1>6, <3>1, <3>2, <3>3, <3>4, <3>5, <4>1
           DEF Served, SameCall, SameMode, WorkOK, Good, TranAfter, Committed, Ends
      <4> QED BY <4>2, <4>3, <4>4
    <3>6. CASE s.res # "none"
      <4>1. s.kind = "stmt" /\ s.res = "nil" /\ q.kind \in {"id", "aux"}
        BY <1>1, <3>2, <3>3, <3>6 DEF SessionOK, Due
      <4>2. (s.ac => s.tran = {}) /\ s.tran \subseteq {s.job}
        BY <3>1 DEF ModeOK
      <4>3. Committed(s.tran, q) = {}
        BY <3>3, <4>1, <4>2 DEF Committed
      <4>4. /\ s.ac => sess'[c].tran = {}
            /\ ~s.ac => s.tran \subseteq sess'[c].tran
            /\ sess'[c].tran \subseteq {s.job}
        BY <3>3, <3>4, <4>1, <4>2 DEF TranAfter
      <4>5. ModeOK(sess[c])'
        BY <1>6, <3>1, <4>1, <4>4 DEF Served, SameCall, SameMode, ModeOK, Ends
      <4>6. WorkOK(sess[c])'
        BY <1>2, <1>6, <3>1, <4>1, <4>4 DEF Served, SameCall, SameMode, WorkOK, Good
      <4> QED BY <4>3, <4>5, <4>6
    <3> QED BY <3>5, <3>6
  <2>4. AutoCommit => \A d \in Conn : (IF d \in fouled THEN FoulOK(sess[d]) ELSE ModeOK(sess[d]) /\ WorkOK(sess[d]))'
    BY <1>1, <1>6, <2>1, <2>2, <2>3, OthersKeep DEF Served
  <2>5. AutoCommit => AcknowledgedIsDurable'
    BY <1>1, <2>1 DEF Durability, AcknowledgedIsDurable, Succeeded
  <2>6. AutoCommit => OnlyCommittedIsDurable'
    BY <1>1, <2>1, <2>2, <2>3 DEF Durability, OnlyCommittedIsDurable
  <2> QED BY <2>4, <2>5, <2>6 DEF Durability
<1> QED BY <1>9, <1>10, <1>11, <1>12

\* The death of the peer keeps it.
LEMMA DyingKeeps ==
  ASSUME PoolInv, NEW c \in Conn, Dying(c)
  PROVE  PoolInv'
<1> USE DEF PoolInv
<1> DEFINE s == sess[c]
<1>1. /\ pool[c] # "none" /\ Die(c) /\ UNCHANGED <<job, pool, old, left, history>>
      /\ s \in SessionType /\ SessionOK(s)
  BY DEF Dying, PoolIdle, PoolTypeOK, SessionsOK
<1>2. Died(c)
  BY <1>1, DieEffect
<1>3. SessionOK(sess[c])'
  BY <1>1, <1>2 DEF Died, SessionOK, InStep, SameCall, SameMode
<1>4. SessionsOK' /\ Owned' /\ UsersOK'
  BY <1>1, <1>2, <1>3, DriverKeeps DEF Died, SameCall, SameMode, history
<1>5. PoolTypeOK' /\ Tainting'
  <2>1. PoolTypeOK'
    BY <1>1, <1>2 DEF Died, Only, PoolTypeOK, history
  <2>2. /\ Only(c) /\ UNCHANGED <<job, fouled, tainted, durable>>
        /\ sess'[c].lost = s.lost /\ sess'[c].kind = s.kind /\ sess'[c].res = s.res
    BY <1>1, <1>2 DEF Died, SameCall, history
  <2>3. sess'[c].lost => c \in fouled
    BY <2>2 DEF Tainting
  <2> QED BY <2>1, <2>2, <2>3, TaintingKeeps
<1>6. Once'
  <2>1. \A j \in Job : Unsent(j)' => Unsent(j)
    BY <1>1, <1>2, UnsentSame DEF Died
  <2>2. \A j \in Jobs, d \in Conn, i \in Nat : StmtOf(j, d, i)' => StmtOf(j, d, i)
    BY <1>2 DEF Died, Only, StmtOf
  <2> QED BY <1>1, <2>1, <2>2, OnceKeeps DEF history
<1>7. Durability'
  <2>1. ASSUME AutoCommit, c \in fouled
        PROVE  FoulOK(sess[c])'
    <3>1. FoulOK(s)
      BY <2>1 DEF Durability
    <3>2. DOMAIN sess'[c].req = {} /\ sess'[c].tran = {}
      <4>1. sess'[c].req = <<>> /\ sess'[c].tran = {}
        BY <1>2 DEF Died
      <4>2. DOMAIN <<>> = {}
        OBVIOUS
      <4> QED BY <4>1, <4>2
    <3> QED BY <1>1, <1>2, <3>1, <3>2 DEF Died, SameCall, SameMode, FoulOK, history
  <2>2. ASSUME AutoCommit, c \notin fouled
        PROVE  ModeOK(sess[c])' /\ WorkOK(sess[c])'
    BY <1>1, <1>2, <2>2 DEF Durability, Died, ModeOK, WorkOK, Good, SameCall, SameMode, history
  <2>3. \A d \in Conn : AutoCommit => IF d \in fouled' THEN FoulOK(sess[d])' ELSE ModeOK(sess[d])' /\ WorkOK(sess[d])'
    BY <1>1, <1>2, <2>1, <2>2, OthersKeep DEF Died, history
  <2> QED BY <1>1, <2>3, HistoryKeeps DEF history
<1> QED BY <1>4, <1>5, <1>6, <1>7

-----------------------------------------------------------------------------
(***************************************************************************)
(* The invariant of the pool, and what it says.                            *)
(***************************************************************************)

\* Nothing is open, nothing is in flight, nobody has done anything.
LEMMA InitPool ==
  ASSUME PoolAssumption, PoolInit
  PROVE  PoolInv
<1> DEFINE n == New(AutoCommit, None)
           w == [st |-> "want", c |-> None, try |-> 0, res |-> "none", end |-> None, drop |-> FALSE]
<1>1. /\ n \in SessionType /\ ~n.closed /\ n.kind = "begin" /\ n.res = "nil" /\ ~n.busy /\ ~n.sent
      /\ n.up /\ ~n.lost /\ n.req = <<>> /\ n.ans = "none" /\ n.tran = {} /\ ~n.tx /\ n.ac = AutoCommit
  BY NewType DEF PoolAssumption, Jobs, New
<1>2. w \in JobType
  BY DEF JobType, Results, MaxRetries
<1> HIDE DEF n, w
<1>3. /\ sess = [c \in Conn |-> n] /\ job = [j \in Job |-> w] /\ pool = [c \in Conn |-> "none"]
      /\ ran = [j \in Job |-> 0] /\ left = [c \in Conn |-> 0] /\ old = {} /\ durable = {} /\ fouled = {} /\ tainted = {}
  BY DEF PoolInit, n, w
<1>4. \A j \in Job : job[j].st = "want" /\ job[j].c = None /\ job[j].end = None
  BY <1>3 DEF w
<1>5. \A c \in Conn : sess[c] = n /\ pool[c] = "none" /\ DOMAIN sess[c].req = {}
  <2>1. DOMAIN n.req = {}
    BY <1>1
  <2> QED BY <1>3, <2>1
<1>6. PoolTypeOK
  BY <1>1, <1>2, <1>3 DEF PoolTypeOK
<1>7. SessionsOK /\ Owned /\ UsersOK /\ Tainting
  BY <1>1, <1>3, <1>4, <1>5 DEF SessionsOK, SessionOK, InStep, Owned, UsersOK, UserOK, Tainting
<1>8. Once
  BY <1>3, <1>5 DEF Once, StmtOf
<1>9. Durability
  BY <1>1, <1>3, <1>4, <1>5 DEF Durability, ModeOK, WorkOK, AcknowledgedIsDurable,
       OnlyCommittedIsDurable, Succeeded, Ends
<1> QED BY <1>6, <1>7, <1>8, <1>9 DEF PoolInv

\* Every step of a job, of the driver, of the server, of the pool and of time
\* keeps the invariant.
LEMMA NextKeeps ==
  ASSUME PoolAssumption, PoolInv, [PoolNext]_vars
  PROVE  PoolInv'
<1>1. ASSUME NEW j \in Job, NEW c \in Conn, TakeCached(j, c) \/ TakeExpired(j, c) \/ OpenNew(j, c),
             UNCHANGED left
      PROVE  PoolInv'
  BY <1>1, TakeCachedKeeps, TakeExpiredKeeps, OpenNewKeeps
<1>2. ASSUME NEW j \in Job, NEW c, job[j].c = c, job[j].c # None, UNCHANGED left,
             \/ Refused(j, c) \/ Exec(j, c) \/ BeginTx(j, c) \/ TxExec(j, c)
             \/ \E k \in Ends, drop \in BOOLEAN : EndTx(j, c, k, drop)
             \/ KeepTx(j, c) \/ Release(j, c)
      PROVE  PoolInv'
  <2>0. c \in Conn
    BY <1>2 DEF PoolInv, PoolTypeOK, JobType
  <2>1. CASE Refused(j, c)
    BY <1>2, <2>1, RefusedKeeps
  <2>2. CASE Exec(j, c) \/ TxExec(j, c)
    BY <1>2, <2>2, StartedKeeps
  <2>3. CASE BeginTx(j, c)
    BY <1>2, <2>3, BeginTxKeeps
  <2>4. CASE \E k \in Ends, drop \in BOOLEAN : EndTx(j, c, k, drop)
    BY <1>2, <2>4, EndTxKeeps
  <2>5. CASE KeepTx(j, c)
    BY <1>2, <2>0, <2>5, KeepTxKeeps
  <2>6. CASE Release(j, c)
    BY <1>2, <2>0, <2>6, ReleaseKeeps
  <2> QED BY <1>2, <2>1, <2>2, <2>3, <2>4, <2>5, <2>6
<1>3. ASSUME NEW j \in Job, JobStep(j)
      PROVE  PoolInv'
  <2>1. UNCHANGED left
    BY <1>3 DEF JobStep
  <2>2. CASE \E c \in Conn : TakeCached(j, c) \/ TakeExpired(j, c) \/ OpenNew(j, c)
    BY <1>1, <2>1, <2>2
  <2>3. ASSUME job[j].c # None,
               LET c == job[j].c
               IN \/ Refused(j, c) \/ Exec(j, c) \/ BeginTx(j, c) \/ TxExec(j, c)
                  \/ \E k \in Ends, drop \in BOOLEAN : EndTx(j, c, k, drop)
                  \/ KeepTx(j, c) \/ Release(j, c)
        PROVE  PoolInv'
    BY <1>2, <2>1, <2>3
  <2> QED BY <1>3, <2>2, <2>3 DEF JobStep
<1>4. ASSUME NEW c \in Conn, DriverStep(c) \/ ServerStep(c) \/ Age(c) \/ Clean(c)
      PROVE  PoolInv'
  BY <1>4, SendingKeeps, TakingKeeps, TidyingKeeps, FailingKeeps, ServingKeeps, DyingKeeps, AgeKeeps, CleanKeeps
     DEF DriverStep, ServerStep
<1>5. ASSUME UNCHANGED vars
      PROVE  PoolInv'
  <2>1. UNCHANGED <<sess, job, pool, old, left, ran, durable, fouled, tainted>>
    BY <1>5 DEF vars, history
  <2>2. PoolTypeOK' /\ SessionsOK' /\ Owned' /\ UsersOK' /\ Tainting'
    BY <2>1 DEF PoolInv, PoolTypeOK, SessionsOK, Owned, UsersOK, UserOK, CallOf, Tainting, Settled
  <2>3. Once'
    BY <2>1 DEF PoolInv, Once, Unsent, StmtOf
  <2>4. Durability'
    BY <2>1 DEF PoolInv, Durability, FoulOK, Harmless, ModeOK, WorkOK, Good, AcknowledgedIsDurable,
         OnlyCommittedIsDurable, Succeeded
  <2> QED BY <2>2, <2>3, <2>4 DEF PoolInv
<1> QED BY <1>3, <1>4, <1>5 DEF PoolNext

\* Pool, connections and jobs keep the invariant whatever they do.
THEOREM PoolInvariant == PoolSpec => []PoolInv
<1>1. PoolInit => PoolInv
  BY InitPool, PoolAssumption
<1>2. PoolInv /\ [PoolNext]_vars => PoolInv'
  BY NextKeeps, PoolAssumption
<1> QED BY <1>1, <1>2, PTL DEF PoolSpec

\* Every session, job and counter keeps its type, the retries of database/sql
\* at most MaxRetries included.
THEOREM PoolTypeCorrect == PoolSpec => []PoolTypeOK
<1>1. PoolInv => PoolTypeOK
  BY DEF PoolInv
<1> QED BY <1>1, PoolInvariant, PTL

\* However often database/sql makes a call again, on whatever connections, the
\* server executes a job's statement at most once: conn returns
\* driver.ErrBadConn only before it has sent anything.
THEOREM NoStatementTwice == PoolSpec => []AtMostOnce
<1>1. PoolInv => AtMostOnce
  BY DEF PoolInv, Once, AtMostOnce
<1> QED BY <1>1, PoolInvariant, PTL

\* A db.Exec or a tx.Commit that returned nil is committed on the server,
\* unless the job had a connection that was fouled before; LAST_INSERT_ID and FC=6
\* may fail or time out after the result is known.
THEOREM SuccessIsDurable == PoolSpec => []AcknowledgedIsDurable
<1>1. PoolInv => AcknowledgedIsDurable
  BY DEF PoolInv, Durability, AcknowledgedIsDurable
<1> QED BY <1>1, PoolInvariant, PTL

\* The work of a Tx is committed by its own tx.Commit or not at all, unless
\* the job had a fouled connection.
THEOREM OnlyCommitsAreDurable == PoolSpec => []OnlyCommittedIsDurable
<1>1. PoolInv => OnlyCommittedIsDurable
  BY DEF PoolInv, Durability, OnlyCommittedIsDurable
<1> QED BY <1>1, PoolInvariant, PTL

\* conn needs no ResetSession: a connection that comes back from a user who did
\* not foul it is as Driver.Open returned it.  A tidy-up that is given up on after
\* a successful statement fouls it.
THEOREM ReturnedClean == PoolSpec => []IdleIsClean
<1>1. ASSUME PoolInv, AutoCommit, NEW c \in Free \ fouled
      PROVE  sess[c].ac /\ ~sess[c].tx /\ sess[c].tran = {} /\ sess[c].req = <<>> /\ ~sess[c].lost
  <2>1. c \in Conn /\ pool[c] = "idle" /\ c \notin fouled
    BY DEF Free
  <2>2. ~sess[c].busy /\ ~sess[c].tx /\ ~sess[c].lost
    BY <1>1, <2>1 DEF PoolInv, Owned, Tainting
  <2>3. ~sess[c].sent /\ InStep(sess[c])
    BY <1>1, <2>1, <2>2 DEF PoolInv, SessionsOK, SessionOK
  <2>4. ModeOK(sess[c])
    BY <1>1, <2>1 DEF PoolInv, Durability
  <2> QED BY <2>2, <2>3, <2>4 DEF ModeOK, InStep
<1>2. PoolInv => IdleIsClean
  BY <1>1 DEF IdleIsClean
<1> QED BY <1>2, PoolInvariant, PTL
=============================================================================
