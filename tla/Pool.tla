-------------------------------- MODULE Pool --------------------------------
(***************************************************************************)
(* Connections of this driver in the pool of database/sql, the only way a  *)
(* program uses them.  The pool is not part of the repository; it is       *)
(* modelled as far as it depends on what conn returns: driver.ErrBadConn   *)
(* closes a connection and has the call made again on another one, any     *)
(* other error puts the connection back.  conn has no ResetSession and no  *)
(* IsValid, so nothing else inspects a connection between two users; its   *)
(* Ping takes no context, so that database/sql never calls it.             *)
(*                                                                         *)
(* A job is a goroutine of the program: db.Exec, or a Tx with one          *)
(* statement that is then committed, rolled back or cancelled.             *)
(***************************************************************************)
EXTENDS Session, FiniteSets, Naturals

CONSTANTS
  TxJobs,      \* the jobs that open a Tx; the others call db.Exec
  AutoCommit,  \* the DSN's autocommit parameter
  MaxTidy      \* bound: round trips that tidy up after a statement; the code makes
               \* up to three: LAST_INSERT_ID, its FC=6, FC=6 for the statement

ASSUME PoolAssumption ==
  /\ TxJobs \subseteq Job
  /\ None \notin Job \cup Conn \cup Ends
  /\ AutoCommit \in BOOLEAN
  /\ MaxTidy \in Nat

VARIABLES
  job,      \* what each job is doing
  pool,     \* each connection: "none" (not open), "idle" or "taken"
  old,      \* connections past their lifetime
  left,     \* round trips that tidy up, still to come in the call on each connection
  ran,      \* history: how often the server has executed a job's statement,
  durable,  \* the jobs whose work is committed,
  fouled,   \* the open connections on which END_TRAN failed or an answer was given up,
  tainted   \* and the jobs that had such a connection

history == <<ran, durable, fouled, tainted>>
vars == <<sess, job, pool, old, left, history>>

MaxRetries == 2   \* database/sql's maxBadConnRetries: then only a new connection

Errors == {"err", "badconn"}   \* the errors the pool tells apart

JobType ==
  [st : {"want", "have", "call", "tx", "done"},
   c : Conn \cup {None},     \* its connection
   try : 0..MaxRetries,
   res : Results,            \* what database/sql returned
   end : Ends \cup {None},   \* how its Tx ended
   drop : BOOLEAN]           \* its connection is to be closed afterwards

PoolInit ==
  /\ sess = [c \in Conn |-> New(AutoCommit, None)]
  /\ job = [j \in Job |-> [st |-> "want", c |-> None, try |-> 0, res |-> "none", end |-> None, drop |-> FALSE]]
  /\ pool = [c \in Conn |-> "none"]
  /\ old = {}
  /\ left = [c \in Conn |-> 0]
  /\ ran = [j \in Job |-> 0]
  /\ durable = {} /\ fouled = {} /\ tainted = {}

\* database/sql returns r to the program.
Ended(j, r) == [job EXCEPT ![j].st = "done", ![j].c = None, ![j].try = 0, ![j].res = r, ![j].drop = FALSE]

Taint(j, c) == tainted' = IF c \in fouled THEN tainted \cup {j} ELSE tainted

-----------------------------------------------------------------------------
(***************************************************************************)
(* Getting a connection (sql.DB.conn).                                     *)
(***************************************************************************)

Free == {c \in Conn : pool[c] = "idle"}
Room == {c \in Conn : pool[c] = "none"}

\* Fault: conn.Close waits for the peer to answer CON_CLOSE.
DropWaits(c) ==
  /\ ~sess[c].busy /\ sess[c].up
  /\ sess' = [sess EXCEPT ![c] = New(AutoCommit, None)]
  /\ pool' = [pool EXCEPT ![c] = "none"]
  /\ old' = old \ {c}
  /\ fouled' = fouled \ {c}

\* The connection leaves the pool: conn.Close ends its session, requests and
\* transaction included, and its place is free for one that Open makes.
Drop(c) ==
  /\ ~sess[c].busy
  /\ sess' = [sess EXCEPT ![c] = New(AutoCommit, None)]
  /\ pool' = [pool EXCEPT ![c] = "none"]
  /\ old' = old \ {c}
  /\ fouled' = fouled \ {c}

\* A cached connection; the last try takes one only when none can be opened.
TakeCached(j, c) ==
  /\ job[j].st = "want" /\ c \in Free
  /\ job[j].try < MaxRetries => c \notin old
  /\ job[j].try = MaxRetries => Room = {}
  /\ job' = [job EXCEPT ![j].st = "have", ![j].c = c]
  /\ pool' = [pool EXCEPT ![c] = "taken"]
  /\ Taint(j, c)
  /\ UNCHANGED <<sess, old, ran, durable, fouled>>

\* One past its lifetime is closed, and that counts as driver.ErrBadConn.
TakeExpired(j, c) ==
  /\ job[j].st = "want" /\ c \in Free \cap old
  /\ job[j].try < MaxRetries
  /\ Drop(c)
  /\ job' = [job EXCEPT ![j].try = @ + 1]
  /\ UNCHANGED <<ran, durable, tainted>>

\* Driver.Open: a new connection, or its error is the job's result.
OpenNew(j, c) ==
  /\ job[j].st = "want" /\ c \in Room
  /\ job[j].try = MaxRetries \/ Free = {}
  /\ \/ /\ pool' = [pool EXCEPT ![c] = "taken"]
        /\ job' = [job EXCEPT ![j].st = "have", ![j].c = c]
     \/ job' = Ended(j, "err") /\ UNCHANGED pool
  /\ UNCHANGED <<sess, old, history>>

-----------------------------------------------------------------------------
(***************************************************************************)
(* Using it.                                                               *)
(***************************************************************************)

Calling(j, c) ==
  /\ job' = [job EXCEPT ![j].st = "call"]
  /\ UNCHANGED <<pool, old, history>>

\* A context that is done, or arguments that cannot be interpolated.
Refused(j, c) ==
  /\ job[j].st = "have" \/ (job[j].st = "tx" /\ sess[c].kind = "begin")
  /\ \E r \in Errors : Refuse(c, IF j \in TxJobs /\ job[j].st = "have" THEN "begin" ELSE "stmt", j, r)
  /\ Calling(j, c)

Exec(j, c) ==
  /\ job[j].st = "have" /\ j \notin TxJobs
  /\ Start(c, "stmt", j)
  /\ Calling(j, c)

BeginTx(j, c) ==
  /\ job[j].st = "have" /\ j \in TxJobs
  /\ Begin(c, j)
  /\ Calling(j, c)

TxExec(j, c) ==
  /\ job[j].st = "tx" /\ sess[c].kind = "begin"
  /\ Start(c, "stmt", j)
  /\ Calling(j, c)

\* tx.Commit (after a statement that went well), tx.Rollback, or the Tx's
\* context is done: database/sql rolls back and drops the connection.
EndTx(j, c, k, drop) ==
  /\ job[j].st = "tx"
  /\ k = "commit" => sess[c].kind = "stmt" /\ sess[c].res = "nil" /\ ~drop
  /\ Start(c, k, j)
  /\ job' = [job EXCEPT ![j].st = "call", ![j].end = k, ![j].drop = drop]
  /\ UNCHANGED <<pool, old, history>>

Returned(j, c) == job[j].st = "call" /\ ~sess[c].busy

TxGoesOn(j, c) ==
  j \in TxJobs /\ (sess[c].kind = "stmt" \/ (sess[c].kind = "begin" /\ sess[c].res = "nil"))

KeepTx(j, c) ==
  /\ Returned(j, c) /\ TxGoesOn(j, c)
  /\ job' = [job EXCEPT ![j].st = "tx"]
  /\ UNCHANGED <<sess, pool, old, history>>

\* sql.DB.putConn and sql.DB.retry.  driver.ErrBadConn closes the connection
\* and the call is made again, at most twice; after any other error, and after
\* every end of a Tx, the connection is put back.
Release(j, c) ==
  /\ Returned(j, c) /\ ~TxGoesOn(j, c)
  /\ LET bad == sess[c].res = "badconn"
     IN /\ IF bad \/ job[j].drop THEN Drop(c)
           ELSE pool' = [pool EXCEPT ![c] = "idle"] /\ UNCHANGED <<sess, old, fouled>>
        /\ job' = IF bad /\ sess[c].kind \notin Ends /\ job[j].try < MaxRetries
                  THEN [job EXCEPT ![j].st = "want", ![j].c = None, ![j].try = @ + 1]
                  ELSE Ended(j, sess[c].res)
  /\ UNCHANGED <<ran, durable, tainted>>

JobStep(j) ==
  /\ \/ \E c \in Conn : TakeCached(j, c) \/ TakeExpired(j, c) \/ OpenNew(j, c)
     \/ /\ job[j].c # None
        /\ LET c == job[j].c
           IN \/ Refused(j, c) \/ Exec(j, c) \/ BeginTx(j, c) \/ TxExec(j, c)
              \/ \E k \in Ends, drop \in BOOLEAN : EndTx(j, c, k, drop)
              \/ KeepTx(j, c) \/ Release(j, c)
  /\ UNCHANGED left

-----------------------------------------------------------------------------
(***************************************************************************)
(* The driver and the server, and time.                                    *)
(***************************************************************************)

PoolIdle == UNCHANGED <<job, pool, old>>

Sending(c) == pool[c] # "none" /\ Send(c) /\ PoolIdle /\ UNCHANGED <<left, history>>

\* The result is known; a statement may have to tidy up before the call returns.
Taking(c) ==
  /\ pool[c] # "none"
  /\ \E n \in IF sess[c].kind = "stmt" THEN 0..MaxTidy ELSE {0} :
       left' = [left EXCEPT ![c] = n] /\ Take(c, n > 0)
  /\ PoolIdle /\ UNCHANGED history

\* One of those round trips ends, with an error or not; an answer that it gave
\* up on fouls the connection, for the Tx that goes on with it as well.
Tidying(c) ==
  /\ pool[c] # "none" /\ left[c] > 0
  /\ \E n \in 0..(left[c] - 1), lost \in BOOLEAN :
       /\ left' = [left EXCEPT ![c] = n]
       /\ Tidied(c, n > 0, lost)
       /\ IF lost
          THEN fouled' = fouled \cup {c} /\ tainted' = tainted \cup ({sess[c].job} \cap TxJobs)
          ELSE UNCHANGED <<fouled, tainted>>
  /\ PoolIdle /\ UNCHANGED <<ran, durable>>

\* A failed END_TRAN or an answer given up on fouls the connection.
Failing(c) ==
  /\ pool[c] # "none"
  /\ \E r \in Errors, lost \in BOOLEAN :
       /\ Fail(c, FALSE, r, lost)
       /\ IF lost \/ sess[c].kind \in Ends
          THEN fouled' = fouled \cup {c} /\ tainted' = tainted \cup {sess[c].job}
          ELSE UNCHANGED <<fouled, tainted>>
  /\ PoolIdle /\ UNCHANGED <<left, ran, durable>>

Serving(c) ==
  /\ pool[c] # "none"
  /\ \E ok \in BOOLEAN :
       /\ Serve(c, ok)
       /\ LET q == Head(sess[c].req)
          IN /\ durable' = IF ok THEN durable \cup Committed(sess[c].tran, q) ELSE durable
             /\ ran' = IF ok /\ q.kind = "stmt" THEN [ran EXCEPT ![q.job] = @ + 1] ELSE ran
  /\ PoolIdle /\ UNCHANGED <<left, fouled, tainted>>

Dying(c) == pool[c] # "none" /\ Die(c) /\ PoolIdle /\ UNCHANGED <<left, history>>

\* README.md:201 has every program call db.SetConnMaxLifetime.
Age(c) ==
  /\ pool[c] # "none" /\ c \notin old
  /\ old' = old \cup {c}
  /\ UNCHANGED <<sess, job, pool, left, history>>

\* sql.DB.connectionCleaner
Clean(c) ==
  /\ c \in Free \cap old
  /\ Drop(c)
  /\ UNCHANGED <<job, left, ran, durable, tainted>>

DriverStep(c) == Sending(c) \/ Taking(c) \/ Tidying(c) \/ Failing(c)
ServerStep(c) == Serving(c) \/ Dying(c)

PoolNext ==
  \/ \E j \in Job : JobStep(j)
  \/ \E c \in Conn : DriverStep(c) \/ ServerStep(c) \/ Age(c) \/ Clean(c)

\* A read that may block for ever: the peer is there, and either it has not
\* answered the call or what it sent is no longer in step with the calls.
\* tx.Commit, tx.Rollback and the methods of stmt have no deadline.
Stuck(c) == sess[c].sent /\ sess[c].up /\ (sess[c].lost \/ sess[c].ans = "none")

\* The driver runs unless its read may block, programs end what they have
\* begun, lifetimes run out and the cleaner runs; nothing of the server.
PoolFairness ==
  /\ \A j \in Job : WF_vars(JobStep(j))
  /\ \A c \in Conn : WF_vars(~Stuck(c) /\ DriverStep(c)) /\ WF_vars(Age(c)) /\ WF_vars(Clean(c))

PoolSpec == PoolInit /\ [][PoolNext]_vars /\ PoolFairness
-----------------------------------------------------------------------------
PoolTypeOK ==
  /\ sess \in [Conn -> SessionType] /\ job \in [Job -> JobType]
  /\ pool \in [Conn -> {"none", "idle", "taken"}]
  /\ old \subseteq Conn /\ left \in [Conn -> 0..MaxTidy] /\ fouled \subseteq Conn
  /\ ran \in [Job -> Nat] /\ durable \subseteq Job /\ tainted \subseteq Job

\* Retrying is safe: conn returns driver.ErrBadConn only for a call of which
\* nothing was sent, so database/sql never runs a statement twice.
AtMostOnce == \A j \in Job : ran[j] <= 1

Succeeded(j) == job[j].st = "done" /\ job[j].res = "nil"

\* What the program was told is done is done: db.Exec without error outside a
\* Tx, or a Commit without error, is committed, unless the connection had been
\* fouled, possibly by another job, before.
AcknowledgedIsDurable ==
  AutoCommit => \A j \in Job :
    Succeeded(j) /\ job[j].end # "rollback" /\ j \notin tainted => j \in durable

\* The work of a Tx becomes durable only through its own Commit, whatever the
\* other jobs do on the same connections before and after.
OnlyCommittedIsDurable ==
  AutoCommit => \A j \in durable \cap TxJobs : job[j].end = "commit" \/ j \in tainted

\* The next user of an idle connection finds it as Open returned it: nothing
\* in flight, no open transaction, auto-commit on, unless it is fouled.
IdleIsClean ==
  AutoCommit => \A c \in Free \ fouled :
    /\ sess[c].ac /\ ~sess[c].tx
    /\ sess[c].tran = {} /\ sess[c].req = <<>> /\ ~sess[c].lost

\* No read blocks for ever: every peer answers or dies, or a deadline strikes.
NoneStuckForEver == \A c \in Conn : []<>~Stuck(c)

\* README.md:201: SetConnMaxLifetime "rotates long-lived connections so stale
\* sessions do not accumulate forever": a connection whose peer is gone, or
\* that is fouled, leaves the pool in the end, if no read blocks for ever.
StaleLeaves ==
  NoneStuckForEver =>
    \A c \in Conn : (pool[c] # "none" /\ (c \in fouled \/ ~sess[c].up)) ~> (pool[c] = "none")

\* If no read blocks for ever nobody waits for ever for a connection or for a
\* result: the end of a stream ends the call, and every release wakes the next.
JobsReturn == NoneStuckForEver => \A j \in Job : <>(job[j].st = "done")
=============================================================================
