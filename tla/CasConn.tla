------------------------------ MODULE CasConn ------------------------------
(***************************************************************************)
(* One physical connection of the driver (type conn in conn.go), the       *)
(* prepared statements, result sets and transaction opened on it, the      *)
(* goroutines that watch its contexts, and the CAS process at the other    *)
(* end of the socket.                                                      *)
(*                                                                         *)
(* database/sql runs at most one driver call on a connection at a time     *)
(* (it holds the driverConn lock, and most methods hold conn.mu), so there *)
(* is one caller.  A call is a list of round trips (send a request, read   *)
(* the length of the answer, read its body); everything a call does        *)
(* between two blocking points is one step.  What interleaves with the     *)
(* caller: the context watchers, the clock and the contexts' owners, and   *)
(* the server.                                                             *)
(***************************************************************************)
EXTENDS Naturals, Sequences

CONSTANTS
  Ctx,          \* the contexts callers pass
  HasDeadline,  \* those of them that carry a deadline
  Watcher,      \* goroutines that watchContextCancel may start
  Handle,       \* the server's query handles (the CAS query-entry pool)
  None,         \* no context, no watcher or no handle (queryHandle 0)
  Ops,          \* bound: the kinds of driver calls the application makes
  MaxReq        \* bound: no call starts once this many requests were sent

\* The methods of conn, stmt, rows and tx that database/sql calls.
CtxKinds == {"query", "exec", "beginTx"}
Kinds == CtxKinds \cup {"begin", "prepare", "stmtExec", "stmtExecArgs", "stmtQuery",
                        "stmtQueryArgs", "next", "rowsClose", "stmtClose", "endTran",
                        "ping", "version", "close"}

ASSUME ConnAssumption ==
  /\ HasDeadline \subseteq Ctx
  /\ None \notin Ctx \cup Watcher \cup Handle
  /\ Ops \subseteq Kinds
  /\ MaxReq \in Nat

VARIABLES
  closed,      \* conn.closed
  autoCommit,  \* conn.autoCommit
  inTx,        \* database/sql has a Tx on the connection that has not ended
  stmts,       \* handles of the stmt values that are open
  cursors,     \* handles of the open rows values with closeHandle set
  sharers,     \* and of those without, which use the handle of their stmt
  call,        \* the driver call in progress or, when idle, the last one
  todo,        \* its round trips still to finish, the current one first
  pc,          \* where the caller is
  frame,       \* id of the answer whose length was just read, 0 = junk or none
  deadline,    \* of the socket: "zero" (none), "timer" (to come), "past"
  ctx,         \* each context: "live", "due" (time is up), "done"
  watch,       \* the watcher goroutines
  toSrv,       \* requests on their way to the server
  toCli,       \* units (a length or a body) on their way to the driver
  nreq,        \* requests written so far; also the id of the last one
  srvUp,       \* the CAS process and the TCP connection are alive
  open,        \* query handles allocated by the server
  tran,        \* the server holds work that is not committed
  orphaned     \* history: requests whose answer their call did not take

objs == <<closed, autoCommit, inTx, stmts, cursors, sharers>>
net == <<toSrv, toCli, srvUp, open, tran>>
vars == <<objs, call, todo, pc, frame, deadline, ctx, watch, nreq, net, orphaned>>

(***************************************************************************)
(* Function codes: FC=2, 3, 41, 41 with SELECT LAST_INSERT_ID(), 6, 8, 1   *)
(* and 15.                                                                 *)
(***************************************************************************)
FC == {"PREPARE", "EXECUTE", "PAE", "LASTID", "CLOSE", "FETCH", "ENDTRAN", "VERSION"}

Opt(S) == S \cup {None}
Call == [kind : Kinds, ctx : Opt(Ctx), w : Opt(Watcher), ins : BOOLEAN,
         err : {"nil", "err", "ctx", "badconn"}]
Trip == [fc : FC, h : Opt(Handle)]
Request == [id : Nat, fc : FC, h : Opt(Handle), ac : BOOLEAN, ins : BOOLEAN]
Answer == [id : Nat, ok : BOOLEAN, h : Opt(Handle), ins : BOOLEAN]
Unit == [part : {"len", "body", "rest"}, a : Answer]
Watch == [st : {"off", "select", "fire"}, ctx : Opt(Ctx), stop : BOOLEAN]

Off == [st |-> "off", ctx |-> None, stop |-> FALSE]

Init ==
  /\ closed = FALSE
  /\ autoCommit \in BOOLEAN           \* the DSN's autocommit parameter
  /\ inTx = FALSE /\ stmts = {} /\ cursors = {} /\ sharers = {}
  /\ call = [kind |-> "begin", ctx |-> None, w |-> None, ins |-> FALSE,
             err |-> "nil"]
  /\ todo = <<>> /\ pc = "idle" /\ frame = 0
  /\ deadline = "zero"                \* connect() ends by clearing it
  /\ ctx = [c \in Ctx |-> "live"]
  /\ watch = [w \in Watcher |-> Off]
  /\ toSrv = <<>> /\ toCli = <<>> /\ nreq = 0
  /\ srvUp = TRUE /\ open = {} /\ tran = FALSE
  /\ orphaned = {}

Waiting == pc \in {"len", "body"}
CtxDone(c) == c # None /\ ctx[c] = "done"

-----------------------------------------------------------------------------
(***************************************************************************)
(* Entering a call.                                                        *)
(***************************************************************************)

\* The caller's frame: a call that starts a list of round trips...
Enter(kind, ins, trips) ==
  /\ call' = [kind |-> kind, ctx |-> None, w |-> None, ins |-> ins,
              err |-> "nil"]
  /\ todo' = trips
  /\ pc' = "send"

\* ... and one that returns an error before it touches the socket.
Refuse(kind, err) ==
  /\ call' = [kind |-> kind, ctx |-> None, w |-> None, ins |-> FALSE,
              err |-> err]
  /\ UNCHANGED <<todo, pc>>

Ready(kind) == pc = "idle" /\ kind \in Ops /\ nreq < MaxReq
Quiet == UNCHANGED <<frame, deadline, ctx, watch, nreq, net, orphaned>>

Trips(fc, h) == <<[fc |-> fc, h |-> h]>>

\* applyContextDeadline: the deadline of the context, if it has one, becomes the socket's.
DeadlineOf(c) == IF c \notin HasDeadline THEN deadline
                 ELSE IF ctx[c] = "due" THEN "past" ELSE "timer"

\* Entry of QueryContext, ExecContext and BeginTx: closed check,
\* applyContextDeadline, then (not in BeginTx) watchContextCancel.
CallCtx(kind, c, ins) ==
  /\ Ready(kind)
  /\ kind = "beginTx" => ~inTx
  /\ \/ /\ closed
        /\ Refuse(kind, "badconn")
        /\ UNCHANGED <<deadline, watch>>
     \/ /\ ~closed /\ CtxDone(c)
        /\ Refuse(kind, "ctx")
        /\ UNCHANGED <<deadline, watch>>
     \/ /\ ~closed /\ ~CtxDone(c)
        /\ deadline' = DeadlineOf(c)
        /\ \E w \in IF kind = "beginTx" THEN {None}
                    ELSE {v \in Watcher : watch[v].st = "off"} :
             /\ call' = [kind |-> kind, ctx |-> c, w |-> w, ins |-> ins,
                         err |-> "nil"]
             /\ watch' = IF w = None THEN watch
                         ELSE [watch EXCEPT ![w] =
                                 [st |-> "select", ctx |-> c, stop |-> FALSE]]
        /\ todo' = IF kind = "beginTx" THEN <<>> ELSE Trips("PAE", None)
        /\ pc' = "check"
  /\ UNCHANGED <<objs, frame, ctx, nreq, net, orphaned>>

\* A method without a context that checks conn.closed first.
CallChecked(kind, ins, trips) ==
  /\ Ready(kind)
  /\ IF closed THEN Refuse(kind, "badconn") ELSE Enter(kind, ins, trips)
  /\ Quiet
  /\ UNCHANGED objs

\* InterpolateArgs rejects the arguments: an error, nothing is sent.
CallBadArgs(kind) ==
  /\ Ready(kind) /\ ~closed
  /\ Refuse(kind, "err")
  /\ Quiet
  /\ UNCHANGED objs

Prepare == CallChecked("prepare", FALSE, Trips("PREPARE", None))

Ping == CallChecked("ping", FALSE, Trips("VERSION", None))

StmtExec(h, ins) == h \in stmts /\ CallChecked("stmtExec", ins, Trips("EXECUTE", h))

StmtExecArgs(h, ins) ==
  /\ h \in stmts
  /\ CallChecked("stmtExecArgs", ins, Trips("PAE", None)) \/ CallBadArgs("stmtExecArgs")

StmtQuery(h) == h \in stmts /\ CallChecked("stmtQuery", FALSE, Trips("EXECUTE", h))

StmtQueryArgs(h) ==
  /\ h \in stmts
  /\ CallChecked("stmtQueryArgs", FALSE, Trips("PAE", None)) \/ CallBadArgs("stmtQueryArgs")

\* Methods that do not check conn.closed.
CallUnchecked(kind, trips) ==
  /\ Ready(kind)
  /\ Enter(kind, FALSE, trips)
  /\ Quiet

ServerVersion == CallUnchecked("version", Trips("VERSION", None)) /\ UNCHANGED objs

\* rows.Next with its buffer used up and exhausted unset: it fetches through
\* the handle it was made with, whether or not that is still its own.
RowsFetch(h) ==
  /\ h \in cursors \cup sharers
  /\ CallUnchecked("next", Trips("FETCH", h))
  /\ UNCHANGED objs

RowsClose(h) ==
  /\ h \in cursors
  /\ cursors' = cursors \ {h}
  /\ CallUnchecked("rowsClose", Trips("CLOSE", h))
  /\ UNCHANGED <<closed, autoCommit, inTx, stmts, sharers>>

\* rows.Close with closeHandle unset, on the last rows that share h: nothing is sent.
RowsForget(h) ==
  /\ pc = "idle" /\ "rowsClose" \in Ops
  /\ h \in sharers
  /\ sharers' = sharers \ {h}
  /\ Quiet
  /\ UNCHANGED <<closed, autoCommit, inTx, stmts, cursors, call, todo, pc>>

\* database/sql closes a stmt of the pool after its Rows, but one that was
\* prepared on a Tx or a sql.Conn at once: its Rows stay open.
StmtClose(h) ==
  /\ h \in stmts
  /\ stmts' = stmts \ {h}
  /\ CallUnchecked("stmtClose", Trips("CLOSE", h))
  /\ UNCHANGED <<closed, autoCommit, inTx, cursors, sharers>>

\* Fault: auto-commit is turned back on before the server has answered.
EndTranEager ==
  /\ inTx /\ inTx' = FALSE
  /\ autoCommit' = TRUE
  /\ CallUnchecked("endTran", Trips("ENDTRAN", None))
  /\ UNCHANGED <<closed, stmts, cursors, sharers>>

\* tx.Commit and tx.Rollback.  database/sql makes one such call per Tx and
\* forgets the Tx whatever it returns.
EndTran ==
  /\ inTx /\ inTx' = FALSE
  /\ CallUnchecked("endTran", Trips("ENDTRAN", None))
  /\ UNCHANGED <<closed, autoCommit, stmts, cursors, sharers>>

\* conn.Begin: no round trip
Begin ==
  /\ Ready("begin") /\ ~inTx
  /\ Refuse("begin", IF closed THEN "badconn" ELSE "nil")
  /\ autoCommit' = (closed /\ autoCommit)
  /\ inTx' = ~closed
  /\ Quiet
  /\ UNCHANGED <<closed, stmts, cursors, sharers>>

\* conn.Close: the CAS sees CON_CLOSE or the end of the stream and ends the session.
Close ==
  /\ Ready("close")
  /\ Refuse("close", "nil")
  /\ closed' = TRUE
  /\ toSrv' = <<>> /\ toCli' = <<>> /\ srvUp' = FALSE /\ open' = {} /\ tran' = FALSE
  /\ UNCHANGED <<autoCommit, inTx, stmts, cursors, sharers, frame, deadline, ctx, watch, nreq, orphaned>>

-----------------------------------------------------------------------------
(***************************************************************************)
(* Running a call.                                                         *)
(***************************************************************************)

\* Where a call goes once it has no round trip left: a call with a context
\* runs its deferred SetDeadline(time.Time{}) first.
Finish == IF call.ctx = None THEN "idle" ELSE "reset"

Continue(rest) ==
  /\ todo' = rest
  /\ pc' = IF rest = <<>> THEN Finish ELSE "send"

\* closeQueryHandle and fetchLastInsertID swallow every error.
BestEffort == {"CLOSE", "LASTID"}

\* Fault: an error leaves the round trips that were planned.
FailKeepsTrips(transport) ==
  IF Head(todo).fc \in BestEffort
  THEN call' = call /\ Continue(Tail(todo))
  ELSE call' = [call EXCEPT !.err = "err"] /\ pc' = Finish /\ todo' = todo

\* Fault: a broken connection is reported as driver.ErrBadConn by every call.
FailBadConn(transport) ==
  IF Head(todo).fc \in BestEffort
  THEN call' = call /\ Continue(Tail(todo))
  ELSE /\ call' = [call EXCEPT !.err =
                     IF CtxDone(call.ctx) THEN "ctx" ELSE IF transport THEN "badconn" ELSE "err"]
       /\ Continue(<<>>)

\* A round trip failed: transport tells whether sendAndRecv or the parser did.
Fail(transport) ==
  IF Head(todo).fc \in BestEffort
  THEN call' = call /\ Continue(Tail(todo))
  ELSE /\ call' = [call EXCEPT !.err =
                     IF CtxDone(call.ctx) THEN "ctx"
                     ELSE IF transport /\ call.kind = "ping" THEN "badconn" ELSE "err"]
       /\ Continue(<<>>)

\* Second ctx.Err() check, then the arguments: named ones and those that
\* InterpolateArgs rejects are an error.  BeginTx has nothing left to send.
Check ==
  /\ pc = "check"
  /\ \/ /\ CtxDone(call.ctx)
        /\ call' = [call EXCEPT !.err = "ctx"]
        /\ Continue(<<>>)
        /\ UNCHANGED <<autoCommit, inTx>>
     \/ /\ ~CtxDone(call.ctx) /\ call.kind = "beginTx"
        /\ autoCommit' = FALSE /\ inTx' = TRUE
        /\ Continue(<<>>)
        /\ UNCHANGED call
     \/ /\ ~CtxDone(call.ctx) /\ call.kind # "beginTx"
        /\ call' = [call EXCEPT !.err = "err"]
        /\ Continue(<<>>)
        /\ UNCHANGED <<autoCommit, inTx>>
     \/ /\ ~CtxDone(call.ctx) /\ call.kind # "beginTx"
        /\ pc' = "send"
        /\ UNCHANGED <<call, todo, autoCommit, inTx>>
  /\ Quiet
  /\ UNCHANGED <<closed, stmts, cursors, sharers>>

\* Fault: closeQueryHandle writes FC=6 and does not wait for the answer.
SendNoWait ==
  /\ pc = "send"
  /\ deadline # "past" /\ ~closed
  /\ nreq' = nreq + 1
  /\ toSrv' = IF srvUp
              THEN Append(toSrv, [id |-> nreq + 1, fc |-> Head(todo).fc, h |-> Head(todo).h,
                                  ac |-> autoCommit \/ Head(todo).fc = "VERSION",
                                  ins |-> call.ins /\ Head(todo).fc = "PAE"])
              ELSE toSrv
  /\ IF Head(todo).fc = "CLOSE" THEN Continue(Tail(todo)) ELSE pc' = "len" /\ UNCHANGED todo
  /\ UNCHANGED <<objs, call, frame, deadline, ctx, watch, toCli, srvUp, open, tran, orphaned>>

\* conn.send.  A write to a peer that is gone may still succeed locally.  The requests
\* carry conn.autoCommit; Ping and ServerVersion pass true instead.
Send ==
  /\ pc = "send"
  /\ deadline # "past" /\ ~closed
  /\ nreq' = nreq + 1
  /\ toSrv' = IF srvUp
              THEN Append(toSrv, [id |-> nreq + 1, fc |-> Head(todo).fc, h |-> Head(todo).h,
                                  ac |-> autoCommit \/ Head(todo).fc = "VERSION",
                                  ins |-> call.ins /\ Head(todo).fc = "PAE"])
              ELSE toSrv
  /\ pc' = "len"
  /\ UNCHANGED <<objs, call, todo, frame, deadline, ctx, watch, toCli, srvUp, open, tran, orphaned>>

SendFail ==
  /\ pc = "send"
  /\ deadline = "past" \/ ~srvUp
  /\ Fail(TRUE)
  /\ UNCHANGED objs
  /\ Quiet

\* What may be left of the input when a read took only part of a unit.
Torn(s) == [s EXCEPT ![1] = [part |-> "rest", a |-> s[1].a]]
Partly(s) == {s} \cup (IF s = <<>> THEN {} ELSE {Torn(s)})

\* Fault: the answer to a best-effort request is dropped after its length.
RecvLenOnly ==
  /\ pc = "len"
  /\ deadline # "past" /\ toCli # <<>>
  /\ toCli' = Tail(toCli)
  /\ IF Head(todo).fc \in BestEffort
     THEN Continue(Tail(todo)) /\ UNCHANGED frame
     ELSE frame' = Head(toCli).a.id /\ pc' = "body" /\ UNCHANGED todo
  /\ UNCHANGED <<objs, call, deadline, ctx, watch, nreq, toSrv, srvUp, open, tran, orphaned>>

\* conn.recv, first io.ReadFull: four bytes, taken as a length whatever they are.
RecvLen ==
  /\ pc = "len"
  /\ deadline # "past" /\ toCli # <<>>
  /\ IF Head(toCli).part = "len"
     THEN frame' = Head(toCli).a.id /\ toCli' = Tail(toCli)
     ELSE frame' = 0 /\ toCli' \in {Tail(toCli), Torn(toCli)}
  /\ pc' = "body"
  /\ UNCHANGED <<objs, call, todo, deadline, ctx, watch, nreq, toSrv, srvUp, open, tran, orphaned>>

\* Either read fails: a deadline in the past fails it even if data is there...
RecvTimeout ==
  /\ Waiting
  /\ deadline = "past"
  /\ toCli' \in Partly(toCli)
  /\ orphaned' = orphaned \cup {nreq}
  /\ Fail(TRUE)
  /\ frame' = 0
  /\ UNCHANGED <<objs, deadline, ctx, watch, nreq, toSrv, srvUp, open, tran>>

\* ... and the end of the stream does (junk may ask for more than there is).
RecvEOF ==
  /\ Waiting
  /\ deadline # "past" /\ ~srvUp
  /\ toCli = <<>> \/ (pc = "body" /\ frame = 0)
  /\ toCli' = <<>>
  /\ Fail(TRUE)
  /\ frame' = 0
  /\ UNCHANGED <<objs, deadline, ctx, watch, nreq, toSrv, srvUp, open, tran, orphaned>>

(***************************************************************************)
(* The handlers of an answer a, one for each kind of request: the parser,  *)
(* then what the caller does with the result.                              *)
(***************************************************************************)
CloseOf(h) == IF h = None THEN <<>> ELSE Trips("CLOSE", h)
LastIdIf(ins) == IF ins THEN Trips("LASTID", None) ELSE <<>>
Own(h) == IF h = None THEN {} ELSE {h}

\* The server reported an error, or the body does not parse.
OnError(a) ==
  /\ ~a.ok
  /\ Fail(FALSE)
  /\ UNCHANGED objs

\* QueryContext: a context done by now discards the result, handle included.
OnQuery(a) ==
  /\ a.ok /\ call.kind = "query"
  /\ IF CtxDone(call.ctx)
     THEN call' = [call EXCEPT !.err = "ctx"] /\ UNCHANGED cursors
     ELSE cursors' = cursors \cup Own(a.h) /\ UNCHANGED call
  /\ Continue(<<>>)
  /\ UNCHANGED <<closed, autoCommit, inTx, stmts, sharers>>

\* ExecContext: the same check, then LAST_INSERT_ID for an INSERT, then the
\* handle is closed.
OnExec(a) ==
  /\ a.ok /\ call.kind = "exec" /\ Head(todo).fc = "PAE"
  /\ IF CtxDone(call.ctx)
     THEN call' = [call EXCEPT !.err = "ctx"] /\ Continue(<<>>)
     ELSE UNCHANGED call /\ Continue(LastIdIf(a.ins) \o CloseOf(a.h))
  /\ UNCHANGED objs

\* Fault: stmt.Exec forgets the handle that FC=41 allocates.
OnStmtExecLeaks(a) ==
  /\ a.ok /\ call.kind \in {"stmtExec", "stmtExecArgs"} /\ Head(todo).fc \in {"EXECUTE", "PAE"}
  /\ Continue(LastIdIf(call.ins))
  /\ UNCHANGED <<objs, call>>

\* stmt.Exec: the handle FC=41 made is closed first, then LAST_INSERT_ID.
OnStmtExec(a) ==
  /\ a.ok /\ call.kind \in {"stmtExec", "stmtExecArgs"} /\ Head(todo).fc \in {"EXECUTE", "PAE"}
  /\ Continue((IF call.kind = "stmtExecArgs" THEN CloseOf(a.h) ELSE <<>>) \o LastIdIf(call.ins))
  /\ UNCHANGED <<objs, call>>

\* Fault: closeHandle is set on the rows that share the handle of their stmt.
OnStmtQueryOwns(a) ==
  /\ a.ok /\ call.kind \in {"stmtQuery", "stmtQueryArgs"}
  /\ cursors' = cursors \cup Own(IF call.kind = "stmtQueryArgs" THEN a.h ELSE Head(todo).h)
  /\ Continue(<<>>)
  /\ UNCHANGED <<closed, autoCommit, inTx, stmts, sharers, call>>

\* stmt.Query: with arguments the rows own the handle of FC=41, without they
\* share the handle of the stmt.
OnStmtQuery(a) ==
  /\ a.ok /\ call.kind \in {"stmtQuery", "stmtQueryArgs"}
  /\ IF call.kind = "stmtQueryArgs"
     THEN cursors' = cursors \cup Own(a.h) /\ UNCHANGED sharers
     ELSE sharers' = sharers \cup Own(Head(todo).h) /\ UNCHANGED cursors
  /\ Continue(<<>>)
  /\ UNCHANGED <<closed, autoCommit, inTx, stmts, call>>

\* fetchLastInsertID: its deferred closeQueryHandle runs before the caller goes on.
OnLastId(a) ==
  /\ a.ok /\ Head(todo).fc = "LASTID"
  /\ Continue(CloseOf(a.h) \o Tail(todo))
  /\ UNCHANGED <<objs, call>>

OnPrepare(a) ==
  /\ a.ok /\ call.kind = "prepare"
  /\ stmts' = stmts \cup Own(a.h)
  /\ Continue(<<>>)
  /\ UNCHANGED <<closed, autoCommit, inTx, cursors, sharers, call>>

\* tx.Commit, tx.Rollback: auto-commit comes back on only here.
OnEndTran(a) ==
  /\ a.ok /\ call.kind = "endTran"
  /\ autoCommit' = TRUE
  /\ Continue(<<>>)
  /\ UNCHANGED <<closed, inTx, stmts, cursors, sharers, call>>

\* closeQueryHandle, rows.Next, Ping and ServerVersion keep nothing here.
OnOther(a) ==
  /\ a.ok /\ Head(todo).fc \in {"CLOSE", "FETCH", "VERSION"}
  /\ Continue(Tail(todo))
  /\ UNCHANGED <<objs, call>>

Handler(a) ==
  \/ OnError(a) \/ OnQuery(a) \/ OnExec(a) \/ OnStmtExec(a) \/ OnStmtQuery(a)
  \/ OnLastId(a) \/ OnPrepare(a) \/ OnEndTran(a) \/ OnOther(a)

\* conn.recv, second io.ReadFull.  A foreign answer may or may not parse as
\* the one expected; nothing in it tells the driver which request it answers.
RecvBody ==
  /\ pc = "body" /\ frame # 0
  /\ deadline # "past" /\ toCli # <<>>
  /\ LET a == Head(toCli).a
     IN \E ok \in IF a.id = nreq THEN {a.ok} ELSE BOOLEAN :
          Handler([a EXCEPT !.ok = ok])
  /\ toCli' = Tail(toCli)
  /\ orphaned' = IF frame = nreq THEN orphaned ELSE orphaned \cup {nreq}
  /\ frame' = 0
  /\ UNCHANGED <<deadline, ctx, watch, nreq, toSrv, srvUp, open, tran>>

\* The same read after a junk length: some of the input, in any reading.
RecvJunk ==
  /\ pc = "body" /\ frame = 0
  /\ deadline # "past" /\ toCli # <<>>
  /\ \E k \in 0..Len(toCli) : toCli' \in Partly(SubSeq(toCli, k + 1, Len(toCli)))
  /\ \E a \in [id : {0}, ok : BOOLEAN, h : Opt(Handle), ins : BOOLEAN] : Handler(a)
  /\ orphaned' = orphaned \cup {nreq}
  /\ frame' = 0
  /\ UNCHANGED <<deadline, ctx, watch, nreq, toSrv, srvUp, open, tran>>

Return == pc' = "idle" /\ call' = [call EXCEPT !.ctx = None, !.w = None]

\* Fault: the deadline of the context stays on the socket.
ResetNothing ==
  /\ pc = "reset"
  /\ IF call.w = None THEN Return ELSE pc' = "stop" /\ UNCHANGED call
  /\ UNCHANGED <<objs, todo, frame, deadline, ctx, watch, nreq, net, orphaned>>

\* The deferred calls, in the order they run: SetDeadline(time.Time{}) ...
Reset ==
  /\ pc = "reset"
  /\ deadline' = "zero"
  /\ IF call.w = None THEN Return ELSE pc' = "stop" /\ UNCHANGED call
  /\ UNCHANGED <<objs, todo, frame, ctx, watch, nreq, net, orphaned>>

\* Fault: the function that watchContextCancel returns is never called.
StopNothing ==
  /\ pc = "stop"
  /\ Return
  /\ UNCHANGED <<objs, todo, frame, deadline, ctx, watch, nreq, net, orphaned>>

\* ... then close(done) and Unlock.
Stop ==
  /\ pc = "stop"
  /\ watch' = [watch EXCEPT ![call.w].stop = (@ \/ watch[call.w].st = "select")]
  /\ Return
  /\ UNCHANGED <<objs, todo, frame, deadline, ctx, nreq, net, orphaned>>

-----------------------------------------------------------------------------
(***************************************************************************)
(* The watcher goroutines.                                                 *)
(***************************************************************************)

\* Fault: contexts with a deadline are left to the deadline of the socket.
WatchFireUnlessTimed(w) ==
  /\ watch[w].st = "select" /\ CtxDone(watch[w].ctx) /\ watch[w].ctx \notin HasDeadline
  /\ watch' = [watch EXCEPT ![w].st = "fire"]
  /\ UNCHANGED <<objs, call, todo, pc, frame, deadline, ctx, nreq, net, orphaned>>

\* watchContextCancel's select: the context is done, or done is closed; Go
\* picks either when both are.
WatchFire(w) ==
  /\ watch[w].st = "select" /\ CtxDone(watch[w].ctx)
  /\ watch' = [watch EXCEPT ![w].st = "fire"]
  /\ UNCHANGED <<objs, call, todo, pc, frame, deadline, ctx, nreq, net, orphaned>>

WatchQuit(w) ==
  /\ watch[w].st = "select" /\ watch[w].stop
  /\ watch' = [watch EXCEPT ![w] = Off]
  /\ UNCHANGED <<objs, call, todo, pc, frame, deadline, ctx, nreq, net, orphaned>>

WatchSet(w) ==
  /\ watch[w].st = "fire"
  /\ deadline' = "past"
  /\ watch' = [watch EXCEPT ![w] = Off]
  /\ UNCHANGED <<objs, call, todo, pc, frame, ctx, nreq, net, orphaned>>

(***************************************************************************)
(* Contexts and the clock.                                                 *)
(***************************************************************************)
Cancel(c) ==
  /\ ctx[c] # "done"
  /\ ctx' = [ctx EXCEPT ![c] = "done"]
  /\ UNCHANGED <<objs, call, todo, pc, frame, deadline, watch, nreq, net, orphaned>>

TimePasses(c) ==
  /\ c \in HasDeadline /\ ctx[c] = "live"
  /\ ctx' = [ctx EXCEPT ![c] = "due"]
  /\ deadline' = IF deadline = "timer" /\ call.ctx = c THEN "past" ELSE deadline
  /\ UNCHANGED <<objs, call, todo, pc, frame, watch, nreq, net, orphaned>>

\* The runtime runs the timer of a context whose time is up.
Expire(c) ==
  /\ ctx[c] = "due"
  /\ ctx' = [ctx EXCEPT ![c] = "done"]
  /\ UNCHANGED <<objs, call, todo, pc, frame, deadline, watch, nreq, net, orphaned>>

-----------------------------------------------------------------------------
(***************************************************************************)
(* The CAS process (not part of this repository): what the driver relies   *)
(* on.  It answers requests in order, one answer each; FC=2 and FC=41      *)
(* allocate a handle, FC=6 releases one, a statement sent with the         *)
(* auto-commit flag commits everything, one sent without leaves work open; *)
(* whether FC=15 with the flag set commits too is left open.               *)
(***************************************************************************)
Reply(q, ok, h) ==
  LET a == [id |-> q.id, ok |-> ok, h |-> h, ins |-> q.ins]
  IN /\ toSrv' = Tail(toSrv)
     /\ toCli' = toCli \o <<[part |-> "len", a |-> a], [part |-> "body", a |-> a]>>

CasIdle == UNCHANGED <<objs, call, todo, pc, frame, deadline, ctx, watch, nreq, srvUp, orphaned>>

CasRejects ==
  /\ srvUp /\ toSrv # <<>>
  /\ LET q == Head(toSrv)
     IN ~(q.fc = "CLOSE" /\ q.h \in open) /\ Reply(q, FALSE, None)
  /\ UNCHANGED <<open, tran>>
  /\ CasIdle

CasAllocates ==
  /\ srvUp /\ toSrv # <<>>
  /\ LET q == Head(toSrv)
     IN /\ q.fc \in {"PREPARE", "PAE", "LASTID"}
        /\ \E h \in Handle \ open : open' = open \cup {h} /\ Reply(q, TRUE, h)
        /\ tran' = IF q.fc = "PREPARE" THEN tran ELSE ~q.ac
  /\ CasIdle

CasUses ==
  /\ srvUp /\ toSrv # <<>>
  /\ LET q == Head(toSrv)
     IN /\ q.fc \in {"EXECUTE", "FETCH", "CLOSE"} /\ q.h \in open
        /\ Reply(q, TRUE, None)
        /\ open' = IF q.fc = "CLOSE" THEN open \ {q.h} ELSE open
        /\ tran' = IF q.fc = "EXECUTE" THEN ~q.ac ELSE tran
  /\ CasIdle

CasSession ==
  /\ srvUp /\ toSrv # <<>>
  /\ LET q == Head(toSrv)
     IN /\ q.fc \in {"ENDTRAN", "VERSION"}
        /\ Reply(q, TRUE, None)
        /\ tran' \in IF q.fc = "ENDTRAN" THEN {FALSE} ELSE {tran, tran /\ ~q.ac}
  /\ UNCHANGED open
  /\ CasIdle

\* The process or the network dies; what it had sent may still arrive.
Crash ==
  /\ srvUp
  /\ srvUp' = FALSE /\ open' = {} /\ tran' = FALSE /\ toSrv' = <<>>
  /\ \E k \in 0..Len(toCli) : toCli' = SubSeq(toCli, 1, k)
  /\ UNCHANGED <<objs, call, todo, pc, frame, deadline, ctx, watch, nreq, orphaned>>

-----------------------------------------------------------------------------
Start ==
  \/ \E c \in Ctx : \/ CallCtx("query", c, FALSE)
                    \/ \E ins \in BOOLEAN : CallCtx("exec", c, ins)
                    \/ CallCtx("beginTx", c, FALSE)
  \/ \E h \in Handle : \/ \E ins \in BOOLEAN : StmtExec(h, ins) \/ StmtExecArgs(h, ins)
                       \/ StmtQuery(h) \/ StmtQueryArgs(h) \/ StmtClose(h)
                       \/ RowsFetch(h) \/ RowsClose(h) \/ RowsForget(h)
  \/ Prepare \/ Ping \/ ServerVersion \/ EndTran \/ Begin \/ Close

\* The caller's own steps, a read of junk left out: that one may block for ever.
Step == Check \/ Send \/ SendFail \/ RecvLen \/ RecvTimeout \/ RecvEOF \/ RecvBody \/ Reset \/ Stop

WatchStep(w) == WatchFire(w) \/ WatchQuit(w) \/ WatchSet(w)

Cas == CasRejects \/ CasAllocates \/ CasUses \/ CasSession

Next ==
  \/ Start \/ Step \/ RecvJunk
  \/ \E w \in Watcher : WatchStep(w)
  \/ \E c \in Ctx : Cancel(c) \/ TimePasses(c) \/ Expire(c)
  \/ Cas \/ Crash

\* Goroutines that can run are scheduled and timers fire; nothing is assumed
\* of the server, of the callers or of who cancels a context.
Fairness ==
  /\ WF_vars(Step)
  /\ \A w \in Watcher : WF_vars(WatchStep(w))
  /\ \A c \in Ctx : WF_vars(Expire(c))

Spec == Init /\ [][Next]_vars
FairSpec == Spec /\ Fairness
-----------------------------------------------------------------------------
(***************************************************************************)
(* Properties.                                                             *)
(***************************************************************************)

ObjsType ==
  /\ closed \in BOOLEAN /\ autoCommit \in BOOLEAN /\ inTx \in BOOLEAN
  /\ stmts \subseteq Handle /\ cursors \subseteq Handle /\ sharers \subseteq Handle

CallerType ==
  /\ call \in Call
  /\ todo \in Seq(Trip)
  /\ pc \in {"idle", "check", "send", "len", "body", "reset", "stop"}
  /\ pc \in {"send", "len", "body"} => todo # <<>>
  /\ pc \in {"idle", "reset", "stop"} => todo = <<>>
  /\ pc = "check" => (todo = <<>> <=> call.kind = "beginTx")

SockType ==
  /\ frame \in Nat /\ nreq \in Nat /\ orphaned \subseteq Nat
  /\ deadline \in {"zero", "timer", "past"}
  /\ ctx \in [Ctx -> {"live", "due", "done"}]
  /\ watch \in [Watcher -> Watch]

NetType ==
  /\ toSrv \in Seq(Request) /\ toCli \in Seq(Unit)
  /\ srvUp \in BOOLEAN /\ tran \in BOOLEAN
  /\ open \subseteq Handle

\* Every variable keeps its type, and a call in progress has a round trip to
\* make exactly where it needs one: it returns with none left.
TypeOK == ObjsType /\ CallerType /\ SockType /\ NetType

Elems(s) == {s[i] : i \in DOMAIN s}
InFlight == {q.id : q \in Elems(toSrv)} \cup {u.a.id : u \in Elems(toCli)}

\* Requests and answers in flight belong to the round trip in progress or to
\* one whose call gave up on its answer (sendAndRecv timed out) or was served
\* another's: no path of the driver, not even the best-effort ones of
\* closeQueryHandle and fetchLastInsertID, leaves an answer unread otherwise.
OnlyOrphansLinger ==
  InFlight \subseteq orphaned \cup (IF Waiting THEN {nreq} ELSE {})

\* As long as no call gave up on an answer, sendAndRecv hands every call the
\* answer to its own request, and the socket is empty between round trips,
\* whatever the order of calls, server errors, crashes and cancellations.
InStep ==
  orphaned = {} =>
    /\ pc = "body" => frame = nreq
    /\ ~Waiting => toSrv = <<>> /\ toCli = <<>>

PendingClose == {todo[i].h : i \in {j \in DOMAIN todo : todo[j].fc = "CLOSE"}}

\* While the connection is in step, every handle that an open stmt, or an open
\* rows value with closeHandle set, owns is allocated on the server, no two of
\* them own the same one, and no FC=6 is under way for it: no use after close
\* by an owner, no double close, whichever calls fail or are cancelled.  A FETCH
\* names an allocated handle too, as long as no stmt is closed before the rows
\* that share its handle; what happens otherwise is FetchKeepsCursor's subject.
NoDanglingHandle ==
  orphaned = {} /\ srvUp =>
    /\ stmts \cup cursors \subseteq open
    /\ stmts \cap cursors = {}
    /\ PendingClose \cap (stmts \cup cursors) = {}
    /\ sharers \subseteq stmts =>
         \A q \in Elems(toSrv) : q.fc = "FETCH" => q.h \in open

\* If no context was cancelled or ran out, every handle the server has
\* allocated is held by an open stmt or rows between calls: Exec, Query,
\* Prepare and LAST_INSERT_ID leak none, on error paths either.
HandlesAccountedFor ==
  pc = "idle" /\ srvUp /\ (\A c \in Ctx : ctx[c] = "live") => open = stmts \cup cursors

\* Between calls, conn.autoCommit tells the truth while the connection is in
\* step: when it is set the server holds no uncommitted work, so that the next
\* statement cannot be swept into somebody else's transaction.
AutoCommitIsTrue ==
  pc = "idle" /\ srvUp /\ orphaned = {} /\ autoCommit => ~tran

\* A deadline that is on the socket between calls is in the past, and some
\* context is done: no deadline still to come outlives the call that set it,
\* and while every context is live or due none is left at all.
StaleDeadlineOnlyByCancel ==
  pc = "idle" /\ deadline # "zero" => deadline = "past" /\ \E c \in Ctx : CtxDone(c)

\* A call whose context is done returns, whatever the server does: the watcher
\* or the deadline unblocks every read, and no best-effort round trip hangs.
CancelReturns ==
  \A c \in Ctx : (pc # "idle" /\ call.ctx = c /\ CtxDone(c)) ~> (pc = "idle")

\* No goroutine leak: a watcher outlives its call only for a moment.
WatchersExit ==
  \A w \in Watcher : (pc = "idle" /\ watch[w].st # "off") ~> (watch[w].st = "off")

(***************************************************************************)
(* The connection as database/sql sees it.                                 *)
(***************************************************************************)

KindOf(k) ==
  CASE k \in {"query", "exec", "stmtExec", "stmtExecArgs", "stmtQuery", "stmtQueryArgs"} -> "stmt"
    [] k \in {"begin", "beginTx"} -> "begin"
    [] k = "endTran"              -> "commit"
    [] OTHER                      -> "other"

RequestOf(q) ==
  [kind |-> CASE q.fc \in {"PAE", "EXECUTE"} -> "stmt"
              [] q.fc = "LASTID"            -> "id"
              [] q.fc = "ENDTRAN"           -> "commit"
              [] OTHER                      -> "aux",
   ac |-> q.ac, job |-> None]

\* The result of the call is open until its first statement or END_TRAN is answered.
Pending == todo # <<>> /\ Head(todo).fc \in {"PAE", "EXECUTE", "ENDTRAN"}

Result == IF call.err # "nil" THEN call.err ELSE IF Pending THEN "none" ELSE "nil"
Requests == [i \in DOMAIN toSrv |-> RequestOf(toSrv[i])]
Arrived == IF orphaned # {} \/ toCli = <<>> \/ toCli[Len(toCli)].part # "body" THEN "none"
           ELSE IF toCli[Len(toCli)].a.ok THEN "ok" ELSE "no"
Work == IF tran THEN {None} ELSE {}

sessionOf ==
  [closed |-> closed, ac |-> autoCommit, tx |-> inTx, busy |-> pc # "idle",
   kind |-> KindOf(call.kind), job |-> None, res |-> Result, sent |-> Waiting,
   req |-> Requests, ans |-> Arrived, tran |-> Work, up |-> srvUp, lost |-> orphaned # {}]

Session == INSTANCE Session WITH Conn <- {None}, Job <- {None}, sess <- [c \in {None} |-> sessionOf]

\* The connection keeps what Session promises to database/sql: ErrBadConn only
\* when nothing was sent, no success without the server's, and every statement
\* sent in the mode the connection claims, on every path of every call.
ImplementsSession == Session!Spec

(***************************************************************************)
(* Claims of the repository that the code does not keep.                   *)
(***************************************************************************)

\* conn.go:134, "sendAndRecv sends data and returns the framed response":
\* a call reads the answer to what it sent.
OwnAnswer == pc = "body" => frame = nreq

\* context_test.go:139-141, "expected deadline reset to zero time".
DeadlineReset == pc = "idle" => deadline = "zero"

\* conn.go:215-216, stmt.go:65-66: a handle made by FC=41 is closed "to avoid
\* exhausting the CAS query-entry pool".
NoHandleLeak == pc = "idle" /\ srvUp /\ orphaned = {} => open \subseteq stmts \cup cursors

\* docs/API_REFERENCE.md:113, rows is a "Lazy result set with server-side
\* cursor": a FETCH of an open rows value names a handle the server still has.
FetchKeepsCursor ==
  orphaned = {} /\ srvUp => \A q \in Elems(toSrv) : q.fc = "FETCH" => q.h \in open
=============================================================================
